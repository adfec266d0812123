----------------------------- MODULE ConsoleProofs -----------------------------
(***************************************************************************)
(* The console executes each line as it was typed, and what it writes is   *)
(* taken in order and whole, for lines and packets of any length and a     *)
(* host that reads, or goes away, whenever it likes.                       *)
(*                                                                         *)
(* EditInv says what the line buffer has to do with the bytes typed, from  *)
(* the first of them to the end of the answer; OrderInv and WholeInv what  *)
(* the next byte to write has to do with the last byte the port took.      *)
(***************************************************************************)
EXTENDS Console, DataInduction

-----------------------------------------------------------------------------
(* What an editor makes of a line, by induction over its bytes.            *)

Texts == {line \in [text : Seq(Keys), long : BOOLEAN] : Len(line.text) > LineLen => line.long}

(* f has what the editor made of the first n bytes, for every n. *)
Edits(f, bytes) == f = [n \in 0 .. Len(bytes) |-> IF n = 0 THEN Untyped ELSE Edit(f[n - 1], bytes[n])]

(* The three kinds of edit, and that they end in a text with its mark. *)
LEMMA EditFacts ==
    ASSUME NEW line \in Texts, NEW b \in Bytes
    PROVE  /\ Edit(line, b) \in Texts
           /\ b \in Keys => Edit(line, b).text = Append(line.text, b)
           /\ b = "backspace" /\ line.text # <<>> => Edit(line, b).text = Front(line.text)
           /\ b = "backspace" /\ line.text = <<>> => Edit(line, b).text = line.text
           /\ b \in {"eol", "control"} => Edit(line, b).text = line.text
           /\ Edit(line, b).long <=> (line.long \/ Len(Edit(line, b).text) > LineLen)
<1>1. DEFINE text == IF b \in Keys THEN Append(line.text, b)
                     ELSE IF b = "backspace" /\ line.text # <<>> THEN Front(line.text)
                     ELSE line.text
<1>2. line.text \in Seq(Keys) /\ line.long \in BOOLEAN /\ LineLen \in Nat
    BY ConsoleAssumption DEF Texts
<1>3. text \in Seq(Keys)
    <2>1. line.text # <<>> => Front(line.text) \in Seq(Keys)
        BY <1>2, SubSeqProperties, LenProperties, EmptySeq DEF Front
    <2> QED BY <1>2, <2>1, AppendProperties
<1>4. b \in {"eol", "backspace", "control"} => b \notin Keys
    BY ConsoleAssumption
<1>5. Edit(line, b) = [text |-> text, long |-> line.long \/ Len(text) > LineLen]
    BY DEF Edit
<1>6. /\ b \in Keys => text = Append(line.text, b)
      /\ b = "backspace" /\ line.text # <<>> => text = Front(line.text)
      /\ b = "backspace" /\ line.text = <<>> => text = line.text
      /\ b \in {"eol", "control"} => text = line.text
    BY <1>4
<1> HIDE DEF text
<1>7. /\ Edit(line, b).text = text
      /\ Edit(line, b).long <=> (line.long \/ Len(text) > LineLen)
      /\ Edit(line, b) \in [text : Seq(Keys), long : BOOLEAN]
    <2> DEFINE long == line.long \/ Len(text) > LineLen
    <2>1. long \in BOOLEAN /\ Edit(line, b) = [text |-> text, long |-> long]
        BY <1>5
    <2> HIDE DEF long
    <2>2. /\ Edit(line, b).text = text /\ Edit(line, b).long = long
          /\ Edit(line, b) \in [text : Seq(Keys), long : BOOLEAN]
        BY <1>3, <2>1
    <2> QED BY <2>2 DEF long
<1>8. Edit(line, b) \in Texts
    BY <1>7 DEF Texts
<1> QED BY <1>6, <1>7, <1>8

(* The editor's function exists. *)
LEMMA EditsExist ==
    ASSUME NEW bytes \in Seq(Bytes)
    PROVE  \E f \in [0 .. Len(bytes) -> Texts] : Edits(f, bytes)
<1>1. DEFINE N == Len(bytes)
             G == [p \in Nat \X Texts |-> IF p[1] < N THEN Edit(p[2], bytes[p[1] + 1]) ELSE p[2]]
<1>2. N \in Nat /\ \A i \in 1 .. N : bytes[i] \in Bytes
    BY LenProperties, ElementOfSeq
<1>3. Untyped \in Texts
    <2>1. <<>> \in Seq(Keys) /\ Len(<<>>) = 0
        OBVIOUS
    <2> QED BY <2>1, ConsoleAssumption DEF Untyped, Texts
<1>4. StaysIn(Texts, Untyped, G)
    <2>1. ASSUME NEW n \in Nat, NEW v \in Texts PROVE G[<<n, v>>] \in Texts
        <3>1. n < N => Edit(v, bytes[n + 1]) \in Texts
            BY <1>2, EditFacts
        <3> QED BY <3>1
    <2> HIDE DEF G
    <2> QED BY <1>3, <2>1 DEF StaysIn
<1>5. PICK g \in [Nat -> Texts] : Unfolds(g, Untyped, G)
    <2> HIDE DEF G
    <2> QED BY <1>4, Recursion
<1>6. DEFINE f == [n \in 0 .. N |-> g[n]]
<1>7. f \in [0 .. N -> Texts] /\ f[0] = Untyped
    BY <1>2, <1>5 DEF Unfolds
<1>8. ASSUME NEW n \in 0 .. N, n # 0 PROVE f[n] = Edit(f[n - 1], bytes[n])
    <2>1. n - 1 \in Nat /\ n - 1 < N /\ (n - 1) + 1 = n /\ n - 1 \in 0 .. N
        BY <1>2, <1>8
    <2>2. g[n] = G[<<n - 1, g[n - 1]>>]
        <3> HIDE DEF G
        <3> QED BY <1>5, <2>1 DEF Unfolds
    <2>3. G[<<n - 1, g[n - 1]>>] = Edit(g[n - 1], bytes[n])
        BY <1>5, <2>1
    <2> QED BY <2>1, <2>2, <2>3
<1> HIDE DEF f
<1>9. f = [n \in 0 .. N |-> IF n = 0 THEN Untyped ELSE Edit(f[n - 1], bytes[n])]
    BY <1>7, <1>8
<1> QED BY <1>7, <1>9 DEF Edits

(* It is what Editing takes its result from. *)
LEMMA EditingIs ==
    ASSUME NEW bytes \in Seq(Bytes)
    PROVE  \E f \in [0 .. Len(bytes) -> Texts] : Edits(f, bytes) /\ Editing(bytes) = f[Len(bytes)]
<1>1. DEFINE f == CHOOSE f : Edits(f, bytes)
<1>2. PICK g \in [0 .. Len(bytes) -> Texts] : Edits(g, bytes)
    BY EditsExist
<1>3. Edits(f, bytes)
    BY <1>2
<1>4. Editing(bytes) = f[Len(bytes)]
    BY DEF Editing, Edits
<1> HIDE DEF f
<1>5. DEFINE T == {n \in 0 .. Len(bytes) : f[n] \in Texts}
             N == Len(bytes)
<1>6. N \in Nat
    BY LenProperties
<1>7. 0 \in T
    <2>1. f[0] = Untyped /\ g[0] = Untyped /\ 0 \in 0 .. N
        BY <1>2, <1>3, <1>6 DEF Edits
    <2> QED BY <1>2, <2>1
<1>8. ASSUME NEW n \in 0 .. N - 1, n \in T PROVE n + 1 \in T
    <2>1. n + 1 \in 0 .. N /\ n + 1 # 0 /\ (n + 1) - 1 = n /\ bytes[n + 1] \in Bytes
        BY <1>6, ElementOfSeq
    <2>2. f[n + 1] = Edit(f[n], bytes[n + 1])
        BY <1>3, <2>1 DEF Edits
    <2> QED BY <1>8, <2>1, <2>2, EditFacts
<1>9. \A n \in 0 .. N : n \in T
    <2> HIDE DEF T, N
    <2> QED BY <1>6, <1>7, <1>8, BoundedInduction
<1>10. f \in [0 .. N -> Texts]
    <2>1. f = [n \in 0 .. N |-> f[n]]
        BY <1>3, Zenon DEF Edits
    <2> QED BY <1>9, <2>1
<1> QED BY <1>3, <1>4, <1>10

(* Nothing typed is an empty line. *)
LEMMA EditingEmpty == Editing(<<>>) = Untyped
<1>1. <<>> \in Seq(Bytes) /\ Len(<<>>) = 0
    OBVIOUS
<1>2. PICK f \in [0 .. Len(<<>>) -> Texts] : Edits(f, <<>>) /\ Editing(<<>>) = f[Len(<<>>)]
    BY <1>1, EditingIs
<1> QED BY <1>1, <1>2 DEF Edits

(* One more byte typed is one more edit. *)
LEMMA EditingAppend ==
    ASSUME NEW bytes \in Seq(Bytes), NEW b \in Bytes
    PROVE  /\ Editing(Append(bytes, b)) = Edit(Editing(bytes), b)
           /\ Editing(bytes) \in Texts
<1>1. DEFINE N == Len(bytes)
             longer == Append(bytes, b)
<1>2. /\ N \in Nat /\ longer \in Seq(Bytes) /\ Len(longer) = N + 1
      /\ longer[N + 1] = b /\ \A i \in 1 .. N : longer[i] = bytes[i]
    BY LenProperties, AppendProperties
<1> HIDE DEF longer
<1>3. PICK f \in [0 .. N -> Texts] : Edits(f, bytes) /\ Editing(bytes) = f[N]
    BY EditingIs
<1>4. PICK g \in [0 .. Len(longer) -> Texts] : Edits(g, longer) /\ Editing(longer) = g[Len(longer)]
    BY <1>2, EditingIs
<1>5. DEFINE T == {n \in 0 .. N : f[n] = g[n]}
<1>6. 0 \in T
    BY <1>2, <1>3, <1>4 DEF Edits
<1>7. ASSUME NEW n \in 0 .. N - 1, n \in T PROVE n + 1 \in T
    <2>1. n + 1 \in 1 .. N /\ n + 1 # 0 /\ (n + 1) - 1 = n /\ n + 1 \in 0 .. N /\ n + 1 \in 0 .. Len(longer)
        BY <1>2
    <2>2. f[n + 1] = Edit(f[n], bytes[n + 1])
        BY <1>3, <2>1 DEF Edits
    <2>3. g[n + 1] = Edit(g[n], longer[n + 1])
        BY <1>4, <2>1 DEF Edits
    <2> QED BY <1>2, <1>7, <2>1, <2>2, <2>3
<1>8. \A n \in 0 .. N : n \in T
    <2> HIDE DEF T, N
    <2> QED BY <1>2, <1>6, <1>7, BoundedInduction
<1>9. g[N + 1] = Edit(g[N], b)
    <2>1. N + 1 \in 0 .. Len(longer) /\ N + 1 # 0 /\ (N + 1) - 1 = N
        BY <1>2
    <2> QED BY <1>2, <1>4, <2>1 DEF Edits
<1>10. N \in 0 .. N /\ f[N] = g[N]
    BY <1>2, <1>8
<1> QED BY <1>2, <1>3, <1>4, <1>9, <1>10 DEF longer

-----------------------------------------------------------------------------
(* The inductive invariant.                                                *)

TypeInv ==
    /\ TypeOK
    /\ out \in [part : Parts, next : Nat, attempts : Nat]
    /\ last \in [part : Parts, to : Nat, age : Nat]
    /\ typed \in Seq(Bytes)

(* The line as the editor has it, and what is to become of it. *)
Base == IF Ended THEN Untyped ELSE Edited
Holds(line) == (overflowed <=> line.long) /\ (~overflowed => buf = line.text)
Cleared == buf = <<>> /\ ~overflowed
Executed == IF Edited.long THEN TooLong ELSE Edited.text

EditInv ==
    /\ pc \in {"poll", "service", "greet", "read"} => ~Ended /\ Holds(Edited)
    /\ pc = "bytes" => Holds(Base) /\ (Ended => outcome = Executed)
    /\ pc = "dispatch" => Ended /\ Holds(Edited) /\ ~overflowed
    /\ pc = "write" =>
          /\ out.part = "banner" => ~Ended /\ Holds(Edited)
          /\ out.part = "text" => Ended /\ Holds(Edited) /\ ~overflowed
          /\ out.part \in {"reply", "eol"} => Ended /\ outcome = Executed
          /\ out.part = "toolong" => Ended /\ Cleared /\ outcome = Executed

(* A piece goes on after the last byte taken, or begins in its place. *)
GoesOn == last.age = 0 /\ last.part = out.part /\ out.next = last.to + 1
Begun(part) ==
    \/ last.age > 0
    \/ part = "banner"
    \/ part = "reply" /\ last.part = "text"
    \/ part = "eol" /\ last.part \in {"text", "reply"}

OrderInv ==
    /\ pc = "dispatch" => Begun("reply")
    /\ pc = "write" => GoesOn \/ (out.next = 1 /\ Begun(out.part))

(* With nothing given up, the piece before was taken whole and the next    *)
(* one is its successor.                                                   *)
Whole == last.to = Size[last.part]
Closed == last.part \in {"banner", "eol", "toolong"}
WholeInv == ~lost =>
    /\ pc \in {"poll", "service", "greet", "read", "bytes"} => Whole /\ Closed /\ last.age = 0
    /\ pc = "dispatch" => Whole /\ (IF last.part = "text" THEN last.age = 0 ELSE Closed /\ last.age = 1)
    /\ pc = "write" =>
          \/ GoesOn
          \/ /\ out.next = 1 /\ Whole
             /\ CASE out.part = "banner" -> Closed /\ last.age = 0
                  [] out.part = "reply" -> IF last.part = "text" THEN last.age = 0 ELSE Closed /\ last.age = 1
                  [] out.part = "eol" -> last.part = "reply" /\ last.age = 0
                  [] OTHER -> Closed /\ last.age = 1

ConsoleInv == TypeInv /\ EditInv /\ OrderInv /\ WholeInv
-----------------------------------------------------------------------------
(* What the steps do.                                                      *)

(* One more byte typed, of this line or the first of the next. *)
LEMMA TypedFacts ==
    ASSUME typed \in Seq(Bytes), NEW b \in Bytes, Typed(b)
    PROVE  /\ typed' \in Seq(Bytes) /\ (Ended' <=> b = "eol")
           /\ Edited' = Edit(Base, b) /\ Base \in Texts
<1>1. DEFINE before == IF Ended THEN <<>> ELSE typed
<1>2. before \in Seq(Bytes)
    OBVIOUS
<1>3. typed' = Append(before, b)
    <2>1. Append(<<>>, b) = <<b>>
        OBVIOUS
    <2> QED BY <2>1 DEF Typed
<1>4. Base = Editing(before)
    BY EditingEmpty DEF Base, Edited
<1> HIDE DEF before
<1>5. /\ typed' \in Seq(Bytes) /\ typed' # <<>> /\ typed'[Len(typed')] = b
      /\ Editing(typed') = Edit(Editing(before), b) /\ Editing(before) \in Texts
    BY <1>2, <1>3, EditingAppend, AppendProperties
<1> QED BY <1>4, <1>5 DEF Ended, Last, Edited

(* All of a sequence but its last element. *)
LEMMA FrontFacts ==
    ASSUME NEW S, NEW s \in Seq(S), s # <<>>
    PROVE  Front(s) \in Seq(S) /\ Len(Front(s)) = Len(s) - 1 /\ Len(s) \in Nat \ {0}
<1>1. Len(s) \in Nat \ {0} /\ \A i \in 1 .. Len(s) - 1 : s[i] \in S
    BY LenProperties, EmptySeq, ElementOfSeq
<1>2. DEFINE n == Len(s) - 1
<1>3. n \in Int /\ n >= 0 /\ \A i \in 1 .. n : s[i] \in S
    BY <1>1
<1> HIDE DEF n
<1>4. SubSeq(s, 1, n) \in Seq(S) /\ Len(SubSeq(s, 1, n)) = n
    <2>1. SubSeq(s, 1, n) \in Seq(S) /\ Len(SubSeq(s, 1, n)) = (IF 1 <= n THEN n - 1 + 1 ELSE 0)
        BY <1>3, SubSeqProperties
    <2> QED BY <1>3, <2>1
<1> QED BY <1>1, <1>4 DEF Front, n

(* The buffer does what the editor does, until the line is too long. *)
LEMMA PushFacts ==
    ASSUME TypeInv, NEW line \in Texts, Holds(line), NEW b \in Bytes \ {"eol"}, Push(b)
    PROVE  /\ (overflowed' <=> Edit(line, b).long) /\ (~overflowed' => buf' = Edit(line, b).text)
           /\ buf' \in Seq(Keys) /\ Len(buf') <= LineLen /\ overflowed' \in BOOLEAN
<1>1. buf \in Seq(Keys) /\ Len(buf) <= LineLen /\ overflowed \in BOOLEAN /\ LineLen \in Nat /\ Len(buf) \in Nat
    BY ConsoleAssumption, LenProperties DEF TypeInv, TypeOK
<1>2. line.text \in Seq(Keys) /\ line.long \in BOOLEAN /\ (Len(line.text) > LineLen => line.long)
    BY DEF Texts
<1>3. DEFINE e == Edit(line, b)
<1>4. /\ e \in Texts
      /\ b \in Keys => e.text = Append(line.text, b)
      /\ b = "backspace" /\ line.text # <<>> => e.text = Front(line.text)
      /\ b = "backspace" /\ line.text = <<>> => e.text = line.text
      /\ b = "control" => e.text = line.text
      /\ e.long <=> (line.long \/ Len(e.text) > LineLen)
    BY EditFacts
<1> HIDE DEF e
<1>5. b \in {"backspace", "control"} => b \notin Keys
    BY ConsoleAssumption
<1>6. CASE b = "backspace"
    <2>1. buf' = (IF buf = <<>> THEN buf ELSE Front(buf)) /\ overflowed' = overflowed
        BY <1>5, <1>6 DEF Push
    <2>2. \A s \in Seq(Keys) :
            s # <<>> => Front(s) \in Seq(Keys) /\ Len(Front(s)) = Len(s) - 1 /\ Len(s) \in Nat
        BY FrontFacts
    <2>3. buf' \in Seq(Keys) /\ Len(buf') <= LineLen
        BY <1>1, <2>1, <2>2
    <2>4. Len(e.text) > LineLen => line.long
        BY <1>1, <1>2, <1>4, <1>6, <2>2
    <2> QED BY <1>1, <1>2, <1>4, <1>6, <2>1, <2>3, <2>4 DEF Holds, e
<1>7. CASE b \in Keys
    <2>1. b # "backspace" /\ b # "control"
        BY <1>7, ConsoleAssumption
    <2>2. /\ Len(buf) < LineLen => buf' = Append(buf, b) /\ (overflowed' <=> overflowed)
          /\ ~(Len(buf) < LineLen) => buf' = buf /\ overflowed'
        <3>1. CASE Len(buf) < LineLen
            <4>1. ~(Len(buf) >= LineLen)
                BY <1>1, <3>1
            <4> QED BY <1>7, <2>1, <3>1, <4>1 DEF Push
        <3>2. CASE ~(Len(buf) < LineLen)
            <4>1. Len(buf) >= LineLen
                BY <1>1, <3>2
            <4> QED BY <1>7, <2>1, <3>2, <4>1 DEF Push
        <3> QED BY <3>1, <3>2
    <2>3. \A s \in Seq(Keys) : Append(s, b) \in Seq(Keys) /\ Len(Append(s, b)) = Len(s) + 1
        BY <1>7, AppendProperties
    <2>4. buf' \in Seq(Keys) /\ Len(buf') <= LineLen
        BY <1>1, <2>2, <2>3
    <2>5. ~overflowed => (Len(e.text) > LineLen <=> ~(Len(buf) < LineLen)) /\ e.text = Append(buf, b)
        BY <1>1, <1>4, <1>7, <2>3 DEF Holds
    <2>6. (overflowed' <=> e.long) /\ (~overflowed' => buf' = e.text)
        BY <1>1, <1>4, <2>2, <2>5 DEF Holds
    <2>7. overflowed' \in BOOLEAN
        <3>1. overflowed' = overflowed \/ overflowed' = TRUE
            <4>1. Len(buf) < LineLen \/ Len(buf) >= LineLen
                BY <1>1
            <4> QED BY <1>7, <2>1, <4>1, Zenon DEF Push
        <3> QED BY <1>1, <3>1
    <2> QED BY <2>4, <2>6, <2>7 DEF e
<1>8. CASE b = "control"
    BY <1>1, <1>2, <1>4, <1>5, <1>8 DEF Push, linebuf, Holds, e
<1> QED BY <1>6, <1>7, <1>8 DEF Bytes

(* Whatever it holds, the buffer stays within its length. *)
LEMMA PushTypes ==
    ASSUME TypeInv, NEW b \in Bytes \ {"eol"}, Push(b)
    PROVE  buf' \in Seq(Keys) /\ Len(buf') <= LineLen /\ overflowed' \in BOOLEAN
<1>1. buf \in Seq(Keys) /\ Len(buf) <= LineLen /\ overflowed \in BOOLEAN /\ LineLen \in Nat /\ Len(buf) \in Nat
    BY ConsoleAssumption, LenProperties DEF TypeInv, TypeOK
<1>2. DEFINE line == [text |-> buf, long |-> overflowed]
<1>3. line \in Texts /\ line.text = buf /\ line.long = overflowed
    BY <1>1 DEF Texts
<1> HIDE DEF line
<1>4. Holds(line)
    BY <1>1, <1>3 DEF Holds
<1> QED BY <1>3, <1>4, PushFacts

(* What a return of write_all does, by what was written. *)
LEMMA ReturnFacts ==
    ASSUME out.part \in Parts, NEW done \in BOOLEAN, Return(done)
    PROVE  /\ out.part = "banner" => pc' = "read" /\ greeted' = done /\ out' = Idle /\ UNCHANGED linebuf
           /\ out.part = "text" => pc' = "dispatch" /\ out' = Idle /\ UNCHANGED <<linebuf, greeted>>
           /\ out.part = "reply" => /\ pc' = "write" /\ out' = [part |-> "eol", next |-> 1, attempts |-> 0]
                                    /\ UNCHANGED <<linebuf, greeted>>
           /\ out.part = "eol" => Reset /\ pc' = "bytes" /\ out' = Idle /\ UNCHANGED greeted
           /\ out.part = "toolong" => pc' = "bytes" /\ out' = Idle /\ UNCHANGED <<linebuf, greeted>>
BY DEF Return, Greeted, Writing

(* The port takes some bytes of a piece, at least one, and never more than *)
(* it has room for or than there are.                                      *)
LEMMA SomeTaken ==
    ASSUME TypeInv, WriteSome
    PROVE  \E n \in 1 .. Size[out.part] :
             /\ held' = held + n /\ held' <= OutRoom /\ held \in Nat
             /\ out.part \in Parts /\ out.next \in Nat \ {0} /\ Size[out.part] \in Nat
             /\ out.next + n - 1 <= Size[out.part]
             /\ last' = [part |-> out.part, to |-> out.next + n - 1, age |-> 0]
             /\ \/ out.next + n - 1 = Size[out.part] /\ Return(TRUE)
                \/ /\ out.next + n <= Size[out.part]
                   /\ out' = [out EXCEPT !.next = @ + n, !.attempts = 0]
                   /\ UNCHANGED <<pc, linebuf, greeted>>
<1>1. /\ held \in Nat /\ held < OutRoom /\ OutRoom \in Nat /\ out.part \in Parts
      /\ Size[out.part] \in Nat /\ out.next \in 1 .. Size[out.part]
    BY ConsoleAssumption DEF TypeInv, TypeOK, WriteSome
<1>2. DEFINE room == OutRoom - held
             rest == Size[out.part] - out.next + 1
             n == IF room < rest THEN room ELSE rest
<1>3. rest = Remaining
    BY DEF Remaining
<1>4. held' = held + n /\ last' = [part |-> out.part, to |-> out.next + n - 1, age |-> 0] /\ Taken(n)
    BY <1>3 DEF WriteSome
<1>5. n \in 1 .. Size[out.part] /\ n <= rest /\ held + n <= OutRoom
    BY <1>1
<1>6. /\ n = rest => out.next + n - 1 = Size[out.part]
      /\ n # rest => out.next + n <= Size[out.part]
      /\ out.next + n - 1 <= Size[out.part]
    BY <1>1, <1>5
<1>7. /\ n = rest => Return(TRUE)
      /\ n # rest => out' = [out EXCEPT !.next = @ + n, !.attempts = 0] /\ UNCHANGED <<pc, linebuf, greeted>>
    BY <1>3, <1>4 DEF Taken
<1> HIDE DEF n, rest, room
<1>8. \/ out.next + n - 1 = Size[out.part] /\ Return(TRUE)
      \/ /\ out.next + n <= Size[out.part]
         /\ out' = [out EXCEPT !.next = @ + n, !.attempts = 0]
         /\ UNCHANGED <<pc, linebuf, greeted>>
    BY <1>6, <1>7
<1>9. held' <= OutRoom /\ out.next \in Nat \ {0}
    BY <1>1, <1>4, <1>5
<1> QED BY <1>1, <1>4, <1>5, <1>6, <1>8, <1>9

-----------------------------------------------------------------------------
(* Types.                                                                  *)

(* Rewriting of Boolean variables' types, which the provers take one at a time. *)
LEMMA Flags == ({hasData, greeted, overflowed, lost} \subseteq BOOLEAN) <=>
                  (hasData \in BOOLEAN /\ greeted \in BOOLEAN /\ overflowed \in BOOLEAN /\ lost \in BOOLEAN)
OBVIOUS

(* The same after a step. *)
LEMMA FlagsNext == ({hasData, greeted, overflowed, lost} \subseteq BOOLEAN)' <=>
                      (hasData' \in BOOLEAN /\ greeted' \in BOOLEAN /\ overflowed' \in BOOLEAN /\ lost' \in BOOLEAN)
OBVIOUS

(* What Writing and Idle set out to. *)
LEMMA OutTypes ==
    /\ \A part \in Parts : LET o == [part |-> part, next |-> 1, attempts |-> 0]
                           IN  /\ o \in [part : Parts, next : Nat, attempts : Nat]
                               /\ o.part = part /\ o.next \in 1 .. Size[part] /\ o.attempts \in 0 .. MaxAttempts
    /\ Idle = [part |-> "eol", next |-> 1, attempts |-> 0] /\ "eol" \in Parts
BY ConsoleAssumption DEF Idle, Parts

(* The types of the variables a step of write_all changes. *)
LEMMA ReturnTypes ==
    ASSUME TypeInv, NEW done \in BOOLEAN, Return(done)
    PROVE  /\ pc' \in {"read", "dispatch", "write", "bytes"} /\ greeted' \in BOOLEAN /\ overflowed' \in BOOLEAN
           /\ buf' \in Seq(Keys) /\ Len(buf') <= LineLen
           /\ out' \in [part : Parts, next : Nat, attempts : Nat]
           /\ out'.part \in Parts /\ out'.next \in 1 .. Size[out'.part] /\ out'.attempts \in 0 .. MaxAttempts
<1>1. /\ out.part \in Parts /\ greeted \in BOOLEAN /\ overflowed \in BOOLEAN
      /\ buf \in Seq(Keys) /\ Len(buf) <= LineLen
    BY Flags DEF TypeInv, TypeOK
<1>2. <<>> \in Seq(Keys) /\ Len(<<>>) <= LineLen
    BY ConsoleAssumption
<1>3. out' = [part |-> "eol", next |-> 1, attempts |-> 0]
    BY <1>1, ReturnFacts DEF Parts, Idle
<1>4. /\ out' \in [part : Parts, next : Nat, attempts : Nat]
      /\ out'.part \in Parts /\ out'.next \in 1 .. Size[out'.part] /\ out'.attempts \in 0 .. MaxAttempts
    BY <1>3, OutTypes
<1>5. pc' \in {"read", "dispatch", "write", "bytes"}
    BY <1>1, ReturnFacts DEF Parts
<1>6. buf' \in Seq(Keys) /\ Len(buf') <= LineLen
    <2>1. buf' = buf \/ buf' = <<>>
        BY <1>1, ReturnFacts DEF Parts, linebuf, Reset
    <2> QED BY <1>1, <1>2, <2>1
<1>7. greeted' \in BOOLEAN
    <2>1. greeted' = greeted \/ greeted' = done
        BY <1>1, ReturnFacts DEF Parts
    <2> QED BY <1>1, <2>1
<1>8. overflowed' \in BOOLEAN
    <2>1. overflowed' = overflowed \/ overflowed' = FALSE
        BY <1>1, ReturnFacts DEF Parts, linebuf, Reset
    <2> QED BY <1>1, <2>1
<1> QED BY <1>4, <1>5, <1>6, <1>7, <1>8

(* A step keeps the types, and so the limits of the line, of the serial    *)
(* buffer and of the attempts.                                             *)
LEMMA TypeStep ==
    ASSUME TypeInv, [Next]_vars
    PROVE  TypeInv'
<1>. TypeOK
    BY DEF TypeInv
<1>0. /\ hasData \in BOOLEAN /\ greeted \in BOOLEAN /\ overflowed \in BOOLEAN /\ lost \in BOOLEAN
      /\ <<>> \in Seq(Bytes) /\ <<>> \in Seq(Keys) /\ Len(<<>>) <= LineLen
    BY Flags, ConsoleAssumption DEF TypeOK
<1>1. CASE Send
    <2>1. inbox' \in Seq(Bytes)
        BY <1>1 DEF Send
    <2> QED BY <1>1, <2>1 DEF Send, TypeInv, TypeOK, linebuf, histories
<1>2. CASE Drain
    <2>1. held' \in 0 .. OutRoom
        BY <1>2, ConsoleAssumption DEF Drain, TypeOK
    <2> QED BY <1>2, <2>1 DEF Drain, TypeInv, TypeOK, linebuf, histories
<1>3. CASE Leave
    BY <1>3 DEF Leave, TypeInv, TypeOK, linebuf, histories
<1>4. CASE Poll
    <2>1. /\ port' \in {"down", "up"} \cup {port} /\ (inbox' = inbox \/ inbox' = <<>>)
          /\ (held' = held \/ held' = 0) /\ (last' = last \/ last' = Nothing)
          /\ (lost' = lost \/ lost' = FALSE)
          /\ pc' = "service" /\ UNCHANGED <<packet, linebuf, greeted, out, bounds, typed, outcome>>
        BY <1>4 DEF Poll
    <2>2. hasData' \in BOOLEAN
        BY <1>4 DEF Poll
    <2>3. /\ last' \in [part : Parts, to : Nat, age : Nat]
          /\ last'.part \in Parts /\ last'.to \in 1 .. Size[last'.part] /\ last'.age \in 0 .. 2
        <3>1. CASE last' = last
            BY <3>1 DEF TypeInv, TypeOK
        <3>2. CASE last' = Nothing
            BY <3>2, ConsoleAssumption DEF Nothing, Parts
        <3> QED BY <2>1, <3>1, <3>2
    <2>4. port' \in {"down", "up", "gone"} /\ inbox' \in Seq(Bytes)
        BY <1>0, <2>1 DEF TypeOK
    <2>5. held' \in 0 .. OutRoom
        BY <2>1, ConsoleAssumption DEF TypeOK
    <2>6. lost' \in BOOLEAN
        BY <1>0, <2>1
    <2>7. ({hasData, greeted, overflowed, lost} \subseteq BOOLEAN)'
        BY <1>0, <2>1, <2>2, <2>6, FlagsNext DEF linebuf
    <2> QED BY <2>1, <2>3, <2>4, <2>5, <2>7 DEF TypeInv, TypeOK, linebuf
<1>5. CASE Service
    BY <1>5 DEF Service, TypeInv, TypeOK, usb, linebuf, histories
<1>6. CASE Greet
    <2>1. /\ pc' \in {"read", "write"} /\ UNCHANGED <<usb, hasData, packet, linebuf, greeted, bounds, histories>>
          /\ out' = out \/ out' = [part |-> "banner", next |-> 1, attempts |-> 0]
        BY <1>6 DEF Greet, Writing
    <2>2. /\ out' \in [part : Parts, next : Nat, attempts : Nat]
          /\ out'.part \in Parts /\ out'.next \in 1 .. Size[out'.part] /\ out'.attempts \in 0 .. MaxAttempts
        BY <2>1, OutTypes DEF Parts, TypeInv, TypeOK
    <2> QED BY <2>1, <2>2 DEF TypeInv, TypeOK, usb, linebuf, histories
<1>7. CASE Read
    <2>1. /\ packet' \in Seq(Bytes) /\ inbox' \in Seq(Bytes) /\ hasData' = FALSE /\ pc' \in {"poll", "bytes"}
          /\ UNCHANGED <<port, held, linebuf, greeted, out, bounds, histories>>
        BY <1>0, <1>7 DEF Read, TypeOK
    <2>2. ({hasData, greeted, overflowed, lost} \subseteq BOOLEAN)'
        BY <1>0, <2>1, FlagsNext DEF linebuf, histories
    <2> QED BY <2>1, <2>2 DEF TypeInv, TypeOK, linebuf, histories
<1>8. CASE NextPacket
    <2>1. typed' \in Seq(Bytes) /\ pc' = "poll"
        BY <1>0, <1>8 DEF NextPacket, TypeInv
    <2> QED BY <1>8, <2>1 DEF NextPacket, TypeInv, TypeOK, usb, linebuf
<1>9. CASE TakeByte
    <2>1. /\ Head(packet) \in Bytes \ {"eol"} /\ packet' \in Seq(Bytes)
        BY <1>9, HeadTailProperties DEF TakeByte, TypeOK
    <2>2. typed' \in Seq(Bytes)
        BY <1>9, <2>1, TypedFacts DEF TakeByte, TypeInv
    <2>3. Push(Head(packet))
        BY <1>9 DEF TakeByte
    <2>4. buf' \in Seq(Keys) /\ Len(buf') <= LineLen /\ overflowed' \in BOOLEAN
        BY <2>1, <2>3, PushTypes
    <2>5. ({hasData, greeted, overflowed, lost} \subseteq BOOLEAN)'
        BY <1>0, <1>9, <2>4, FlagsNext DEF TakeByte
    <2> QED BY <1>9, <2>1, <2>2, <2>4, <2>5 DEF TakeByte, TypeInv, TypeOK, usb
<1>10. CASE TakeEol
    <2>1. packet' \in Seq(Bytes) /\ "eol" \in Bytes
        BY <1>10, HeadTailProperties DEF TakeEol, TypeOK, Bytes
    <2>2. typed' \in Seq(Bytes)
        BY <1>10, <2>1, TypedFacts DEF TakeEol, TypeInv
    <2>3. /\ pc' \in {"bytes", "write", "dispatch"} /\ UNCHANGED <<usb, hasData, greeted, bounds, lost>>
          /\ UNCHANGED linebuf \/ Reset
          /\ \/ out' = out
             \/ out' = [part |-> "toolong", next |-> 1, attempts |-> 0]
             \/ out' = [part |-> "text", next |-> 1, attempts |-> 0]
          /\ last' = last \/ (last' = [last EXCEPT !.age = @ + 1] /\ last.age < 2)
        BY <1>10 DEF TakeEol, Writing
    <2>4. buf' \in Seq(Keys) /\ Len(buf') <= LineLen
        BY <1>0, <2>3 DEF linebuf, Reset, TypeOK
    <2>5. overflowed' \in BOOLEAN
        <3>1. overflowed' = overflowed \/ overflowed' = FALSE
            BY <2>3 DEF linebuf, Reset
        <3> QED BY <1>0, <3>1
    <2>6. /\ out' \in [part : Parts, next : Nat, attempts : Nat]
          /\ out'.part \in Parts /\ out'.next \in 1 .. Size[out'.part] /\ out'.attempts \in 0 .. MaxAttempts
        BY <2>3, OutTypes DEF Parts, TypeInv, TypeOK
    <2>7. /\ last' \in [part : Parts, to : Nat, age : Nat]
          /\ last'.part \in Parts /\ last'.to \in 1 .. Size[last'.part] /\ last'.age \in 0 .. 2
        BY <2>3 DEF TypeInv, TypeOK
    <2>8. ({hasData, greeted, overflowed, lost} \subseteq BOOLEAN)'
        BY <1>0, <2>3, <2>5, FlagsNext
    <2> QED BY <2>1, <2>2, <2>3, <2>4, <2>6, <2>7, <2>8 DEF TypeInv, TypeOK, usb
<1>11. CASE Dispatch
    <2>1. out' = [part |-> "reply", next |-> 1, attempts |-> 0] /\ pc' = "write"
        BY <1>11 DEF Dispatch, Writing
    <2>2. /\ out' \in [part : Parts, next : Nat, attempts : Nat]
          /\ out'.part \in Parts /\ out'.next \in 1 .. Size[out'.part] /\ out'.attempts \in 0 .. MaxAttempts
        BY <2>1, OutTypes DEF Parts
    <2> QED BY <1>11, <2>1, <2>2 DEF Dispatch, TypeInv, TypeOK, usb, linebuf
<1>12. CASE WriteSome
    <2>1. PICK n \in 1 .. Size[out.part] :
            /\ held' = held + n /\ held' <= OutRoom /\ held \in Nat
            /\ out.part \in Parts /\ out.next \in Nat \ {0} /\ Size[out.part] \in Nat
            /\ out.next + n - 1 <= Size[out.part]
            /\ last' = [part |-> out.part, to |-> out.next + n - 1, age |-> 0]
            /\ \/ out.next + n - 1 = Size[out.part] /\ Return(TRUE)
               \/ /\ out.next + n <= Size[out.part]
                  /\ out' = [out EXCEPT !.next = @ + n, !.attempts = 0]
                  /\ UNCHANGED <<pc, linebuf, greeted>>
        BY <1>12, SomeTaken
    <2>2. /\ last' \in [part : Parts, to : Nat, age : Nat]
          /\ last'.part \in Parts /\ last'.to \in 1 .. Size[last'.part] /\ last'.age \in 0 .. 2
        BY <2>1
    <2>3. held' \in 0 .. OutRoom
        BY <2>1, ConsoleAssumption
    <2>4. /\ pc' \in {"read", "dispatch", "write", "bytes"} /\ greeted' \in BOOLEAN /\ overflowed' \in BOOLEAN
          /\ buf' \in Seq(Keys) /\ Len(buf') <= LineLen
          /\ out' \in [part : Parts, next : Nat, attempts : Nat]
          /\ out'.part \in Parts /\ out'.next \in 1 .. Size[out'.part] /\ out'.attempts \in 0 .. MaxAttempts
        <3>1. CASE Return(TRUE)
            BY <3>1, ReturnTypes
        <3>2. CASE /\ out.next + n <= Size[out.part]
                   /\ out' = [out EXCEPT !.next = @ + n, !.attempts = 0]
                   /\ UNCHANGED <<pc, linebuf, greeted>>
            <4>1. /\ out' \in [part : Parts, next : Nat, attempts : Nat]
                  /\ out'.part \in Parts /\ out'.next \in 1 .. Size[out'.part] /\ out'.attempts \in 0 .. MaxAttempts
                <5>1. /\ out' \in [part : Parts, next : Nat, attempts : Nat]
                      /\ out'.part = out.part /\ out'.next = out.next + n /\ out'.attempts = 0
                    <6>1. out \in [part : Parts, next : Nat, attempts : Nat] /\ n \in Nat
                        BY <2>1 DEF TypeInv
                    <6>2. out' = [out EXCEPT !.next = @ + n, !.attempts = 0]
                        BY <3>2
                    <6>3. out' = [part |-> out.part, next |-> out.next + n, attempts |-> 0]
                        BY <6>1, <6>2
                    <6> QED BY <2>1, <6>1, <6>3
                <5>2. out.next + n \in 1 .. Size[out.part] /\ 0 \in 0 .. MaxAttempts
                    BY <2>1, <3>2, ConsoleAssumption
                <5> QED BY <2>1, <5>1, <5>2
            <4>2. pc' = "write" /\ greeted' = greeted /\ overflowed' = overflowed /\ buf' = buf
                BY <1>12, <3>2 DEF WriteSome, linebuf
            <4> QED BY <1>0, <4>1, <4>2 DEF TypeOK
        <3> QED BY <2>1, <3>1, <3>2
    <2>5. lost' = FALSE /\ hasData' = hasData /\ typed' = typed /\ packet' = packet /\ port' = port /\ inbox' = inbox
        BY <1>12 DEF WriteSome
    <2>6. ({hasData, greeted, overflowed, lost} \subseteq BOOLEAN)'
        BY <1>0, <2>4, <2>5, FlagsNext
    <2> QED BY <2>2, <2>3, <2>4, <2>5, <2>6 DEF TypeInv, TypeOK
<1>13. CASE WriteNothing
    <2>1. /\ pc' \in {"read", "dispatch", "write", "bytes"} /\ greeted' \in BOOLEAN /\ overflowed' \in BOOLEAN
          /\ buf' \in Seq(Keys) /\ Len(buf') <= LineLen /\ lost' \in BOOLEAN
          /\ out' \in [part : Parts, next : Nat, attempts : Nat]
          /\ out'.part \in Parts /\ out'.next \in 1 .. Size[out'.part] /\ out'.attempts \in 0 .. MaxAttempts
        <3>1. CASE GivesUp
            <4>1. Return(FALSE) /\ lost' = TRUE
                BY <1>13, <3>1 DEF WriteNothing
            <4> QED BY <4>1, ReturnTypes
        <3>2. CASE ~GivesUp
            <4>1. /\ out' = [out EXCEPT !.attempts = IF @ < MaxAttempts THEN @ + 1 ELSE @]
                  /\ UNCHANGED <<linebuf, greeted, lost>> /\ pc' = "write"
                BY <1>13, <3>2 DEF WriteNothing
            <4>2. /\ out' \in [part : Parts, next : Nat, attempts : Nat]
                  /\ out'.part \in Parts /\ out'.next \in 1 .. Size[out'.part] /\ out'.attempts \in 0 .. MaxAttempts
                <5>1. /\ out' \in [part : Parts, next : Nat, attempts : Nat]
                      /\ out'.part = out.part /\ out'.next = out.next
                      /\ out'.attempts = (IF out.attempts < MaxAttempts THEN out.attempts + 1 ELSE out.attempts)
                    BY <4>1 DEF TypeInv
                <5>2. out.attempts \in 0 .. MaxAttempts /\ MaxAttempts \in Nat
                    BY ConsoleAssumption DEF TypeOK
                <5>3. out'.attempts \in 0 .. MaxAttempts
                    BY <5>1, <5>2
                <5> QED BY <5>1, <5>3 DEF TypeOK
            <4> QED BY <1>0, <4>1, <4>2 DEF TypeOK, linebuf
        <3> QED BY <3>1, <3>2
    <2>2. UNCHANGED <<usb, hasData, packet, bounds, typed, outcome, last>>
        BY <1>13 DEF WriteNothing
    <2>3. ({hasData, greeted, overflowed, lost} \subseteq BOOLEAN)'
        BY <1>0, <2>1, <2>2, FlagsNext
    <2> QED BY <2>1, <2>2, <2>3 DEF TypeInv, TypeOK, usb
<1>14. CASE UNCHANGED vars
    BY <1>14 DEF vars, TypeInv, TypeOK, usb, linebuf, histories
<1> QED BY <1>1, <1>2, <1>3, <1>4, <1>5, <1>6, <1>7, <1>8, <1>9, <1>10, <1>11, <1>12, <1>13, <1>14
        DEF Next, Loop

-----------------------------------------------------------------------------
(* The line as typed.                                                      *)

(* The end of a line adds nothing to its text. *)
LEMMA EolFacts ==
    ASSUME NEW line \in Texts
    PROVE  Edit(line, "eol").text = line.text /\ (Edit(line, "eol").long <=> line.long)
<1>1. "eol" \in Bytes
    BY DEF Bytes
<1> QED BY <1>1, EditFacts DEF Texts

(* A step of write_all goes on writing, or returns. *)
LEMMA WriteReturns ==
    ASSUME TypeInv, WriteSome \/ WriteNothing
    PROVE  /\ pc = "write" /\ out.part \in Parts /\ UNCHANGED <<typed, outcome>>
           /\ \/ pc' = "write" /\ out'.part = out.part /\ UNCHANGED linebuf
              \/ \E done \in BOOLEAN : Return(done)
<1>1. pc = "write" /\ out.part \in Parts /\ UNCHANGED <<typed, outcome>>
    BY DEF TypeInv, TypeOK, WriteSome, WriteNothing
<1>2. CASE WriteSome
    <2>1. Return(TRUE) \/ (UNCHANGED <<pc, linebuf>> /\ out'.part = out.part)
        <3>1. PICK n \in 1 .. Size[out.part] :
                \/ Return(TRUE)
                \/ out' = [out EXCEPT !.next = @ + n, !.attempts = 0] /\ UNCHANGED <<pc, linebuf>>
            BY <1>2, SomeTaken
        <3> QED BY <3>1 DEF TypeInv
    <2> QED BY <1>1, <2>1
<1>3. CASE WriteNothing
    <2>1. Return(FALSE) \/ (UNCHANGED <<pc, linebuf>> /\ out'.part = out.part)
        BY <1>3 DEF WriteNothing, TypeInv
    <2> QED BY <1>1, <2>1
<1> QED BY <1>2, <1>3

(* The buffer, and what the end of a line comes to, stay as EditInv says. *)
LEMMA EditStep ==
    ASSUME TypeInv, EditInv, [Next]_vars
    PROVE  EditInv'
<1>1. CASE Send \/ Drain \/ Leave \/ UNCHANGED vars
    <2>1. UNCHANGED <<pc, out, buf, overflowed, typed, outcome>>
        BY <1>1 DEF Send, Drain, Leave, vars, linebuf, histories
    <2> QED BY <2>1 DEF EditInv, Holds, Base, Edited, Ended, Cleared, Executed
<1>2. CASE Poll \/ Service \/ Greet \/ Read
    <2>1. /\ UNCHANGED <<buf, overflowed, typed, outcome>>
          /\ pc \in {"poll", "service", "greet", "read"}
          /\ pc' \in {"poll", "service", "greet", "read", "bytes"} \/ (pc' = "write" /\ out'.part = "banner")
        BY <1>2 DEF Poll, Service, Greet, Read, Writing, linebuf, histories
    <2>2. ~Ended /\ Holds(Edited) /\ Edited' = Edited /\ (Ended' <=> Ended)
        BY <2>1 DEF EditInv, Edited, Ended
    <2>3. ~Ended' /\ Holds(Edited)' /\ Base' = Edited'
        BY <2>1, <2>2 DEF Holds, Base
    <2> QED BY <2>1, <2>3 DEF EditInv
<1>3. CASE NextPacket
    <2>1. /\ UNCHANGED linebuf /\ pc = "bytes" /\ pc' = "poll"
          /\ typed' = (IF Ended THEN <<>> ELSE typed)
        BY <1>3 DEF NextPacket
    <2>2. Holds(Base) /\ Edited' = Base /\ ~Ended'
        BY <2>1, EditingEmpty DEF EditInv, Base, Edited, Ended
    <2>3. Holds(Edited)'
        BY <2>1, <2>2 DEF Holds, linebuf
    <2> QED BY <2>1, <2>2, <2>3 DEF EditInv
<1>4. CASE TakeByte
    <2>1. /\ pc = "bytes" /\ pc' = "bytes" /\ Head(packet) \in Bytes \ {"eol"}
          /\ Push(Head(packet)) /\ Typed(Head(packet))
        BY <1>4, HeadTailProperties DEF TakeByte, TypeInv, TypeOK
    <2>2. ~Ended' /\ Edited' = Edit(Base, Head(packet)) /\ Base \in Texts
        BY <2>1, TypedFacts DEF TypeInv
    <2>3. Holds(Base)
        BY <2>1 DEF EditInv
    <2>4. /\ overflowed' <=> Edit(Base, Head(packet)).long
          /\ ~overflowed' => buf' = Edit(Base, Head(packet)).text
        BY <2>1, <2>2, <2>3, PushFacts
    <2>5. Holds(Base)'
        BY <2>2, <2>4 DEF Holds, Base
    <2> QED BY <2>1, <2>2, <2>5 DEF EditInv
<1>5. CASE TakeEol
    <2>1. pc = "bytes" /\ Holds(Base) /\ Typed("eol") /\ "eol" \in Bytes
        BY <1>5 DEF TakeEol, EditInv, Bytes
    <2>2. Ended' /\ Edited' = Edit(Base, "eol") /\ Base \in Texts
        BY <2>1, TypedFacts DEF TypeInv
    <2>3. Edited'.text = Base.text /\ (Edited'.long <=> Base.long)
        BY <2>2, EolFacts
    <2>4. (overflowed <=> Edited'.long) /\ (~overflowed => buf = Edited'.text)
        BY <2>1, <2>3 DEF Holds
    <2>5. CASE overflowed
        <3>1. pc' = "write" /\ out'.part = "toolong" /\ buf' = <<>> /\ ~overflowed' /\ outcome' = TooLong
            BY <1>5, <2>5 DEF TakeEol, Writing, Reset
        <3>2. outcome' = Executed'
            BY <2>4, <2>5, <3>1 DEF Executed
        <3> QED BY <2>2, <3>1, <3>2 DEF EditInv, Cleared
    <2>6. CASE ~overflowed /\ buf = <<>>
        <3>1. pc' = "bytes" /\ outcome' = <<>> /\ UNCHANGED linebuf
            BY <1>5, <2>1, <2>6 DEF TakeEol
        <3>2. outcome' = Executed'
            BY <2>4, <2>6, <3>1 DEF Executed
        <3>3. Holds(Base)'
            <4>1. Base' = Untyped /\ ~overflowed' /\ buf' = <<>>
                BY <2>2, <2>6, <3>1 DEF Base, linebuf
            <4> QED BY <4>1 DEF Holds, Untyped
        <3> QED BY <3>1, <3>2, <3>3 DEF EditInv
    <2>7. CASE ~overflowed /\ buf # <<>>
        <3>1. pc' = "dispatch" \/ (pc' = "write" /\ out'.part = "text")
            BY <1>5, <2>7 DEF TakeEol, Writing
        <3>2. UNCHANGED linebuf
            BY <1>5, <2>7 DEF TakeEol
        <3>3. Holds(Edited)' /\ ~overflowed'
            BY <2>4, <2>7, <3>2 DEF Holds, linebuf
        <3> QED BY <2>2, <3>1, <3>3 DEF EditInv
    <2> QED BY <2>5, <2>6, <2>7
<1>6. CASE Dispatch
    <2>1. /\ pc = "dispatch" /\ pc' = "write" /\ out'.part = "reply" /\ outcome' = buf /\ typed' = typed
        BY <1>6 DEF Dispatch, Writing
    <2>2. Ended' /\ Edited' = Edited /\ Holds(Edited) /\ ~overflowed
        BY <2>1 DEF EditInv, Ended, Edited
    <2>3. outcome' = Executed'
        BY <2>1, <2>2 DEF Holds, Executed
    <2> QED BY <2>1, <2>2, <2>3 DEF EditInv
<1>7. CASE WriteSome \/ WriteNothing
    <2>1. /\ pc = "write" /\ out.part \in Parts /\ UNCHANGED <<typed, outcome>>
          /\ \/ pc' = "write" /\ out'.part = out.part /\ UNCHANGED linebuf
             \/ \E done \in BOOLEAN : Return(done)
        BY <1>7, WriteReturns
    <2>2. Edited' = Edited /\ (Ended' <=> Ended) /\ Executed' = Executed /\ outcome' = outcome
        BY <2>1 DEF Edited, Ended, Executed
    <2>3. CASE pc' = "write" /\ out'.part = out.part /\ UNCHANGED linebuf
        <3>1. (Holds(Edited)' <=> Holds(Edited)) /\ (Cleared' <=> Cleared) /\ (overflowed' <=> overflowed)
            BY <2>2, <2>3 DEF Holds, Cleared, linebuf
        <3> QED BY <2>1, <2>2, <2>3, <3>1 DEF EditInv
    <2>4. CASE \E done \in BOOLEAN : Return(done)
        <3>1. CASE out.part = "banner"
            <4>1. pc' = "read" /\ UNCHANGED linebuf
                BY <2>1, <2>4, <3>1, ReturnFacts
            <4>2. ~Ended' /\ Holds(Edited)'
                BY <2>1, <2>2, <3>1, <4>1 DEF EditInv, Holds, linebuf
            <4> QED BY <4>1, <4>2 DEF EditInv
        <3>2. CASE out.part = "text"
            <4>1. pc' = "dispatch" /\ UNCHANGED linebuf
                BY <2>1, <2>4, <3>2, ReturnFacts
            <4>2. Ended' /\ Holds(Edited)' /\ ~overflowed'
                BY <2>1, <2>2, <3>2, <4>1 DEF EditInv, Holds, linebuf
            <4> QED BY <4>1, <4>2 DEF EditInv
        <3>3. CASE out.part = "reply"
            <4>1. pc' = "write" /\ out'.part = "eol"
                BY <2>1, <2>4, <3>3, ReturnFacts
            <4> QED BY <2>1, <2>2, <3>3, <4>1 DEF EditInv
        <3>4. CASE out.part \in {"eol", "toolong"}
            <4>1. pc' = "bytes" /\ buf' = <<>> /\ ~overflowed'
                BY <2>1, <2>4, <3>4, ReturnFacts DEF EditInv, Cleared, Reset, linebuf
            <4>2. Ended' /\ outcome' = Executed'
                BY <2>1, <2>2, <3>4 DEF EditInv
            <4>3. Holds(Base)'
                BY <4>1, <4>2 DEF Holds, Base, Untyped
            <4> QED BY <4>1, <4>2, <4>3 DEF EditInv
        <3> QED BY <2>1, <3>1, <3>2, <3>3, <3>4 DEF Parts
    <2> QED BY <2>1, <2>3, <2>4
<1> QED BY <1>1, <1>2, <1>3, <1>4, <1>5, <1>6, <1>7 DEF Next, Loop

-----------------------------------------------------------------------------
(* The place of the next byte.                                             *)

(* The port took bytes of the piece: what is left goes on after them, or   *)
(* all of it was taken and write_all returns.                              *)
LEMMA TookSome ==
    ASSUME TypeInv, WriteSome
    PROVE  /\ pc = "write" /\ out.part \in Parts /\ last'.part = out.part /\ last'.age = 0 /\ ~lost'
           /\ \/ Return(TRUE) /\ last'.to = Size[out.part]
              \/ pc' = "write" /\ out'.part = out.part /\ out'.next = last'.to + 1
<1>1. PICK n \in 1 .. Size[out.part] :
        /\ out.part \in Parts /\ out.next \in Nat \ {0} /\ Size[out.part] \in Nat
        /\ last' = [part |-> out.part, to |-> out.next + n - 1, age |-> 0]
        /\ \/ out.next + n - 1 = Size[out.part] /\ Return(TRUE)
           \/ out' = [out EXCEPT !.next = @ + n, !.attempts = 0] /\ UNCHANGED <<pc, linebuf, greeted>>
    BY SomeTaken
<1>2. pc = "write" /\ ~lost'
    BY DEF WriteSome
<1>3. last'.part = out.part /\ last'.age = 0 /\ last'.to = out.next + n - 1
    BY <1>1
<1>4. ASSUME out' = [out EXCEPT !.next = @ + n, !.attempts = 0]
      PROVE  out'.part = out.part /\ out'.next = last'.to + 1
    <2>1. out \in [part : Parts, next : Nat, attempts : Nat]
        BY DEF TypeInv
    <2>2. out' = [part |-> out.part, next |-> out.next + n, attempts |-> 0]
        BY <1>4, <2>1
    <2>3. out.next + n = (out.next + n - 1) + 1
        BY <1>1
    <2> QED BY <1>3, <2>2, <2>3
<1> QED BY <1>1, <1>2, <1>3, <1>4

(* The port takes nothing: write_all tries again, or gives up. *)
LEMMA TookNothing ==
    ASSUME TypeInv, WriteNothing
    PROVE  /\ pc = "write" /\ out.part \in Parts /\ UNCHANGED <<last, held>>
           /\ \/ Return(FALSE) /\ lost'
              \/ pc' = "write" /\ out'.part = out.part /\ out'.next = out.next /\ (lost' <=> lost)
<1>1. pc = "write" /\ out.part \in Parts /\ UNCHANGED <<last, held>>
    BY DEF WriteNothing, TypeInv, TypeOK, usb
<1>2. CASE GivesUp
    BY <1>1, <1>2 DEF WriteNothing
<1>3. CASE ~GivesUp
    BY <1>1, <1>3 DEF WriteNothing, TypeInv
<1> QED BY <1>2, <1>3

(* A line with an answer ends: the last byte taken is of a line before. *)
LEMMA Aged ==
    ASSUME TypeInv, TakeEol
    PROVE  /\ pc = "bytes"
           /\ \/ pc' = "bytes" /\ last' = last
              \/ /\ pc' = "dispatch" \/ (pc' = "write" /\ out'.part \in {"text", "toolong"} /\ out'.next = 1)
                 /\ last'.part = last.part /\ last'.to = last.to /\ last'.age > 0
                 /\ last.age = 0 => last'.age = 1
<1>1. /\ pc = "bytes" /\ last' = (IF pc' # pc /\ last.age < 2 THEN [last EXCEPT !.age = @ + 1] ELSE last)
      /\ pc' = "bytes" \/ pc' = "dispatch" \/ (pc' = "write" /\ out'.part \in {"text", "toolong"} /\ out'.next = 1)
    BY DEF TakeEol, Writing
<1>2. last \in [part : Parts, to : Nat, age : Nat]
    BY DEF TypeInv
<1>3. CASE pc' = "bytes"
    BY <1>1, <1>3
<1>4. CASE pc' # "bytes"
    <2>1. CASE last.age < 2
        <3>1. last' = [part |-> last.part, to |-> last.to, age |-> last.age + 1]
            BY <1>1, <1>2, <1>4, <2>1
        <3> QED BY <1>1, <1>2, <1>4, <3>1
    <2>2. CASE ~(last.age < 2)
        BY <1>1, <1>2, <1>4, <2>2
    <2> QED BY <2>1, <2>2
<1> QED BY <1>3, <1>4

(* Where the loop goes when write_all returns: only after a reply does it  *)
(* go on writing, the end of line.                                         *)
LEMMA ReturnsTo ==
    ASSUME TypeInv, NEW done \in BOOLEAN, Return(done)
    PROVE  \/ out.part \in {"banner", "eol", "toolong"} /\ pc' \in {"read", "bytes"}
           \/ out.part = "text" /\ pc' = "dispatch"
           \/ out.part = "reply" /\ pc' = "write" /\ out'.part = "eol" /\ out'.next = 1
<1>1. out.part \in Parts
    BY DEF TypeInv, TypeOK
<1> QED BY <1>1, ReturnFacts DEF Parts

(* The next byte keeps its place. *)
LEMMA OrderStep ==
    ASSUME TypeInv, OrderInv, [Next]_vars
    PROVE  OrderInv'
<1>1. CASE Send \/ Drain \/ Leave \/ UNCHANGED vars
    BY <1>1 DEF Send, Drain, Leave, vars, histories, OrderInv, GoesOn, Begun
<1>2. CASE Poll \/ Service \/ Greet \/ Read \/ NextPacket \/ TakeByte
    <2>1. pc' \notin {"write", "dispatch"} \/ (pc' = "write" /\ out'.next = 1 /\ out'.part = "banner")
        BY <1>2 DEF Poll, Service, Greet, Read, NextPacket, TakeByte, Writing
    <2> QED BY <2>1 DEF OrderInv, Begun
<1>3. CASE TakeEol
    BY <1>3, Aged DEF OrderInv, Begun
<1>4. CASE Dispatch
    BY <1>4 DEF Dispatch, Writing, OrderInv, Begun
<1>5. CASE WriteSome
    <2>1. CASE pc' = "write" /\ out'.part = out.part /\ out'.next = last'.to + 1
        BY <1>5, <2>1, TookSome DEF OrderInv, GoesOn
    <2>2. CASE Return(TRUE)
        BY <1>5, <2>2, TookSome, ReturnsTo DEF OrderInv, Begun
    <2> QED BY <1>5, <2>1, <2>2, TookSome
<1>6. CASE WriteNothing
    <2>1. CASE pc' = "write" /\ out'.part = out.part /\ out'.next = out.next
        BY <1>6, <2>1, TookNothing DEF OrderInv, GoesOn, Begun
    <2>2. CASE Return(FALSE)
        <3>1. GoesOn \/ Begun(out.part)
            BY <1>6, TookNothing DEF OrderInv
        <3>2. last' = last /\ out.part \in Parts
            BY <1>6, TookNothing
        <3> QED BY <2>2, <3>1, <3>2, ReturnsTo DEF OrderInv, GoesOn, Begun
    <2> QED BY <1>6, <2>1, <2>2, TookNothing
<1> QED BY <1>1, <1>2, <1>3, <1>4, <1>5, <1>6 DEF Next, Loop

(* Where nothing is given up, pieces stay whole. *)
LEMMA WholeStep ==
    ASSUME TypeInv, WholeInv, [Next]_vars
    PROVE  WholeInv'
<1>1. CASE Send \/ Drain \/ Leave \/ UNCHANGED vars
    BY <1>1 DEF Send, Drain, Leave, vars, histories, WholeInv, GoesOn, Whole, Closed
<1>2. CASE Poll
    <2>1. CASE last' = last /\ (lost' <=> lost)
        BY <1>2, <2>1 DEF Poll, WholeInv, Whole, Closed
    <2>2. CASE last' = Nothing
        BY <1>2, <2>2 DEF Poll, WholeInv, Whole, Closed, Nothing
    <2> QED BY <1>2, <2>1, <2>2 DEF Poll
<1>3. CASE Service \/ Greet \/ Read \/ NextPacket \/ TakeByte
    <2>1. /\ last' = last /\ lost' = lost /\ pc \in {"service", "greet", "read", "bytes"}
          /\ \/ pc' \in {"poll", "service", "greet", "read", "bytes"}
             \/ pc' = "write" /\ out'.next = 1 /\ out'.part = "banner"
        BY <1>3 DEF Service, Greet, Read, NextPacket, TakeByte, Writing, histories
    <2> QED BY <2>1 DEF WholeInv, Whole, Closed
<1>4. CASE TakeEol
    <2>1. lost' = lost
        BY <1>4 DEF TakeEol
    <2> QED BY <1>4, <2>1, Aged DEF WholeInv, Whole, Closed
<1>5. CASE Dispatch
    BY <1>5 DEF Dispatch, Writing, WholeInv, Whole, Closed
<1>6. CASE WriteSome
    <2>1. CASE pc' = "write" /\ out'.part = out.part /\ out'.next = last'.to + 1
        BY <1>6, <2>1, TookSome DEF WholeInv, GoesOn
    <2>2. CASE Return(TRUE) /\ last'.to = Size[out.part]
        <3>1. out.part \in Parts /\ last'.part = out.part /\ last'.age = 0 /\ Whole'
            BY <1>6, <2>2, TookSome DEF Whole
        <3> QED BY <2>2, <3>1, ReturnsTo DEF WholeInv, Closed
    <2> QED BY <1>6, <2>1, <2>2, TookSome
<1>7. CASE WriteNothing
    <2>1. CASE pc' = "write" /\ out'.part = out.part /\ out'.next = out.next /\ (lost' <=> lost)
        BY <1>7, <2>1, TookNothing DEF WholeInv, GoesOn, Whole, Closed
    <2>2. CASE lost'
        BY <2>2 DEF WholeInv
    <2> QED BY <1>7, <2>1, <2>2, TookNothing
<1> QED BY <1>1, <1>2, <1>3, <1>4, <1>5, <1>6, <1>7 DEF Next, Loop

-----------------------------------------------------------------------------
(* The loop starts with an empty line, and nothing to write. *)
LEMMA InitConsoleInv == Init => ConsoleInv
<1>. SUFFICES ASSUME Init PROVE ConsoleInv
    OBVIOUS
<1>1. <<>> \in Seq(Bytes) /\ <<>> \in Seq(Keys) /\ Len(<<>>) = 0
    OBVIOUS
<1>2. TypeInv
    <2>1. {hasData, greeted, overflowed, lost} \subseteq BOOLEAN
        BY DEF Init
    <2>2. /\ out \in [part : Parts, next : Nat, attempts : Nat]
          /\ out.part \in Parts /\ out.next \in 1 .. Size[out.part] /\ out.attempts \in 0 .. MaxAttempts
        BY OutTypes DEF Init
    <2>3. /\ last \in [part : Parts, to : Nat, age : Nat]
          /\ last.part \in Parts /\ last.to \in 1 .. Size[last.part] /\ last.age \in 0 .. 2
        BY ConsoleAssumption DEF Init, Nothing, Parts
    <2> QED BY <1>1, <2>1, <2>2, <2>3, ConsoleAssumption DEF Init, TypeInv, TypeOK
<1>3. EditInv
    <2>1. typed = <<>> /\ Edited = Untyped /\ ~Ended
        BY EditingEmpty DEF Init, Edited, Ended
    <2> QED BY <2>1 DEF Init, EditInv, Holds, Untyped
<1>4. OrderInv /\ WholeInv
    BY DEF Init, OrderInv, WholeInv, Whole, Closed, Nothing
<1> QED BY <1>2, <1>3, <1>4 DEF ConsoleInv

(* The line buffer follows the bytes typed, and the output its order,      *)
(* through packets, overflows, full buffers and a host that goes away.     *)
THEOREM ConsoleInvariance == Spec => []ConsoleInv
<1>1. ConsoleInv /\ [Next]_vars => ConsoleInv'
    BY TypeStep, EditStep, OrderStep, WholeStep DEF ConsoleInv
<1> QED BY <1>1, InitConsoleInv, PTL DEF Spec

(* Types: the line never outgrows its buffer, nor the output the port. *)
THEOREM ConsoleTypes == Spec => []TypeOK
<1>1. ConsoleInv => TypeOK
    BY DEF ConsoleInv, TypeInv
<1> QED BY <1>1, ConsoleInvariance, PTL

(* However packets cut a line and whatever was erased in it, it is         *)
(* executed as typed, or refused whole, or ignored.                        *)
THEOREM LinesExecuted == Spec => []ExecutedAsTyped
<1>1. ConsoleInv => ExecutedAsTyped
    BY DEF ConsoleInv, EditInv, Executed, ExecutedAsTyped
<1> QED BY <1>1, ConsoleInvariance, PTL

(* The port takes a byte only where write_all writes. *)
LEMMA OnlyWritten ==
    ASSUME TypeInv, [Next]_vars, held' > held
    PROVE  WriteSome
<1>1. held \in Nat
    BY ConsoleAssumption DEF TypeInv, TypeOK
<1>2. CASE Drain
    BY <1>1, <1>2 DEF Drain
<1>3. CASE Poll
    BY <1>1, <1>3 DEF Poll
<1>4. CASE \/ Send \/ Leave \/ Service \/ Greet \/ Read \/ NextPacket \/ TakeByte \/ TakeEol \/ Dispatch
           \/ WriteNothing \/ UNCHANGED vars
    <2>1. held' = held
        BY <1>4
            DEF Send, Leave, Service, Greet, Read, NextPacket, TakeByte, TakeEol, Dispatch, WriteNothing, vars,
                usb
    <2> QED BY <1>1, <2>1
<1> QED BY <1>2, <1>3, <1>4 DEF Next, Loop

(* The first of the bytes taken is the next one of the piece. *)
LEMMA FirstIsNext ==
    ASSUME TypeInv, WriteSome
    PROVE  FirstTaken = out.next /\ last'.part = out.part
<1>1. PICK n \in 1 .. Size[out.part] :
        /\ held' = held + n /\ held \in Nat /\ out.next \in Nat \ {0} /\ Size[out.part] \in Nat
        /\ last' = [part |-> out.part, to |-> out.next + n - 1, age |-> 0]
    BY SomeTaken
<1>2. out.next + n - 1 - ((held + n) - held) + 1 = out.next
    BY <1>1
<1> QED BY <1>1, <1>2 DEF FirstTaken

(* No byte of a reply is written twice or out of its place. *)
THEOREM RepliesInOrder == Spec => PiecesInOrder
<1>1. ConsoleInv /\ [Next]_vars =>
        [held' > held => Continued \/ (FirstTaken = 1 /\ (Later \/ last.part = "banner"))]_vars
    <2>. SUFFICES ASSUME ConsoleInv, [Next]_vars, held' > held
                  PROVE  Continued \/ (FirstTaken = 1 /\ (Later \/ last.part = "banner"))
        OBVIOUS
    <2>1. WriteSome /\ pc = "write" /\ FirstTaken = out.next /\ last'.part = out.part /\ out.part \in Parts
          /\ last.part \in Parts
        BY OnlyWritten, FirstIsNext, TookSome DEF ConsoleInv, TypeInv, TypeOK
    <2>2. CASE GoesOn
        BY <2>1, <2>2 DEF GoesOn, Continued
    <2>3. CASE out.next = 1 /\ Begun(out.part)
        <3>1. last.age > 0 \/ last.part = "banner" \/ Rank(last'.part) > Rank(last.part)
            BY <2>1, <2>3 DEF Begun, Rank, Parts
        <3> QED BY <2>1, <2>3, <3>1 DEF Later
    <2> QED BY <2>1, <2>2, <2>3 DEF ConsoleInv, OrderInv
<1> QED BY <1>1, ConsoleInvariance, PTL DEF Spec, PiecesInOrder

(* Output is missing only where write_all gave up. *)
THEOREM RepliesWhole == Spec => WholeUnlessGivenUp
<1>1. ConsoleInv /\ [Next]_vars =>
        [held' > held /\ ~lost => Continued \/ (last.to = Size[last.part] /\ Successor)]_vars
    <2>. SUFFICES ASSUME ConsoleInv, [Next]_vars, held' > held, ~lost
                  PROVE  Continued \/ (last.to = Size[last.part] /\ Successor)
        OBVIOUS
    <2>1. /\ pc = "write" /\ FirstTaken = out.next /\ last'.part = out.part
          /\ out.part \in Parts /\ last.part \in Parts
        BY OnlyWritten, FirstIsNext, TookSome DEF ConsoleInv, TypeInv, TypeOK
    <2>2. CASE GoesOn
        BY <2>1, <2>2 DEF GoesOn, Continued
    <2>3. CASE ~GoesOn
        <3>1. /\ Whole
              /\ CASE out.part = "banner" -> Closed /\ last.age = 0
                   [] out.part = "reply" -> IF last.part = "text" THEN last.age = 0 ELSE Closed /\ last.age = 1
                   [] out.part = "eol" -> last.part = "reply" /\ last.age = 0
                   [] OTHER -> Closed /\ last.age = 1
            BY <2>1, <2>3 DEF ConsoleInv, WholeInv
        <3>2. Successor
            BY <2>1, <3>1 DEF Successor, Closed, Parts
        <3> QED BY <3>1, <3>2 DEF Whole
    <2> QED BY <2>2, <2>3
<1> QED BY <1>1, ConsoleInvariance, PTL DEF Spec, WholeUnlessGivenUp

================================================================================

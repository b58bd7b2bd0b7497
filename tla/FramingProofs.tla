---------------------------- MODULE FramingProofs ----------------------------
(* Theorems about RpcFraming.                                                *)
EXTENDS RpcFraming, SequenceTheorems, TLAPS

-----------------------------------------------------------------------------
(* Texts, and how they are cut.                                              *)

Symbol == Unit \cup {LengthUnit(i, n) : i \in 1 .. SizeUnits, n \in 0 .. MaxSize}
Text == Seq(Symbol)

LEMMA CutText ==
  ASSUME NEW S, NEW s \in Seq(S), NEW k \in 0 .. Len(s)
  PROVE  /\ SubSeq(s, 1, k) \in Seq(S) /\ SubSeq(s, k + 1, Len(s)) \in Seq(S)
         /\ SubSeq(s, 1, k) \o SubSeq(s, k + 1, Len(s)) = s
         /\ Len(SubSeq(s, 1, k)) = k /\ Len(SubSeq(s, k + 1, Len(s))) = Len(s) - k
<1>1. Len(s) \in Nat
  BY LenProperties
<1>2. \A i \in 1 .. Len(s) : s[i] \in S
  BY ElementOfSeq
<1>3. SubSeq(s, 1, k) \in Seq(S) /\ Len(SubSeq(s, 1, k)) = k
  BY <1>1, <1>2, SubSeqProperties
<1>4. SubSeq(s, k + 1, Len(s)) \in Seq(S) /\ Len(SubSeq(s, k + 1, Len(s))) = Len(s) - k
  BY <1>1, <1>2, SubSeqProperties
<1>5. SubSeq(s, 1, k) \o SubSeq(s, k + 1, Len(s)) = SubSeq(s, 1, Len(s))
  <2>1. 1 \in 1 .. Len(s) + 1 /\ k \in 1 - 1 .. Len(s) /\ Len(s) \in k .. Len(s)
    BY <1>1
  <2> QED
    BY <2>1, ConcatAdjacentSubSeq
<1> QED
  BY <1>3, <1>4, <1>5, SubSeqFull

\* A piece that ends where its text continues.
LEMMA PieceOfPrefix ==
  ASSUME NEW S, NEW s \in Seq(S), NEW t \in Seq(S),
         NEW m \in 1 .. Len(s) + 1, NEW n \in m - 1 .. Len(s)
  PROVE  SubSeq(s \o t, m, n) = SubSeq(s, m, n)
<1>1. Len(s) \in Nat /\ Len(t) \in Nat
  BY LenProperties
<1>2. CASE n = m - 1
  BY <1>1, <1>2, SubSeqEmpty
<1>3. CASE n # m - 1
  <2>1. m \in 1 .. Len(s) /\ n \in 1 .. Len(s)
    BY <1>1, <1>3
  <2> QED
    BY <2>1, SubSeqOfConcat1
<1> QED
  BY <1>2, <1>3

\* The three parts of a text.
LEMMA Parts ==
  ASSUME NEW S, NEW s \in Seq(S), NEW t \in Seq(S), NEW u \in Seq(S)
  PROVE  /\ (s \o t) \o u \in Seq(S) /\ Len((s \o t) \o u) = Len(s) + Len(t) + Len(u)
         /\ SubSeq((s \o t) \o u, 1, Len(s)) = s
         /\ SubSeq((s \o t) \o u, Len(s) + 1, Len(s) + Len(t)) = t
         /\ SubSeq((s \o t) \o u, Len(s) + Len(t) + 1, Len(s) + Len(t) + Len(u)) = u
<1>1. Len(s) \in Nat /\ Len(t) \in Nat /\ Len(u) \in Nat
  BY LenProperties
<1>2. s \o t \in Seq(S) /\ Len(s \o t) = Len(s) + Len(t)
  BY ConcatProperties
<1>3. (s \o t) \o u \in Seq(S) /\ Len((s \o t) \o u) = Len(s) + Len(t) + Len(u)
  BY <1>1, <1>2, ConcatProperties
<1>4. ASSUME NEW a \in Seq(S), NEW b \in Seq(S)
      PROVE  SubSeq(a \o b, 1, Len(a)) = a /\ SubSeq(a \o b, Len(a) + 1, Len(a) + Len(b)) = b
  <2>1. Len(a) \in Nat /\ Len(b) \in Nat
    BY LenProperties
  <2>2. SubSeq(a \o b, 1, Len(a)) = a
    BY <2>1, PieceOfPrefix, SubSeqFull
  <2>3. CASE b = <<>>
    BY <2>1, <2>3, SubSeqEmpty
  <2>4. CASE b # <<>>
    <3>1. Len(b) > 0
      BY <2>4, EmptySeq
    <3>2. /\ Len(a) + 1 \in Len(a) + 1 .. Len(a) + Len(b)
          /\ Len(a) + Len(b) \in Len(a) + 1 .. Len(a) + Len(b)
      BY <2>1, <3>1
    <3>3. SubSeq(a \o b, Len(a) + 1, Len(a) + Len(b)) =
            SubSeq(b, Len(a) + 1 - Len(a), Len(a) + Len(b) - Len(a))
      BY <3>2, SubSeqOfConcat2
    <3>4. Len(a) + 1 - Len(a) = 1 /\ Len(a) + Len(b) - Len(a) = Len(b)
      BY <2>1
    <3> QED
      BY <2>2, <3>3, <3>4, SubSeqFull
  <2> QED
    BY <2>2, <2>3, <2>4
<1>5. SubSeq((s \o t) \o u, 1, Len(s)) = s
  <2>1. SubSeq((s \o t) \o u, 1, Len(s)) = SubSeq(s \o t, 1, Len(s))
    BY <1>1, <1>2, PieceOfPrefix
  <2> QED
    BY <1>4, <2>1
<1>6. SubSeq((s \o t) \o u, Len(s) + 1, Len(s) + Len(t)) = t
  <2>1. SubSeq((s \o t) \o u, Len(s) + 1, Len(s) + Len(t)) =
          SubSeq(s \o t, Len(s) + 1, Len(s) + Len(t))
    BY <1>1, <1>2, PieceOfPrefix
  <2> QED
    BY <1>4, <2>1
<1>7. SubSeq((s \o t) \o u, Len(s) + Len(t) + 1, Len(s) + Len(t) + Len(u)) = u
  BY <1>2, <1>4
<1> QED
  BY <1>3, <1>5, <1>6, <1>7

LEMMA LengthIsText ==
  ASSUME NEW n \in 0 .. MaxSize
  PROVE  LengthText(n) \in Text /\ Len(LengthText(n)) = SizeUnits
BY CodecAssumption DEF LengthText, Text, Symbol

\* A length at the start of a text is read back.
LEMMA SizeIsRead ==
  ASSUME NEW n \in 0 .. MaxSize, NEW b, SubSeq(b, 1, SizeUnits) = LengthText(n)
  PROVE  SizeOf(b) = n
<1>1. ASSUME NEW m \in 0 .. MaxSize, LengthText(n) = LengthText(m) PROVE m = n
  <2>1. LengthText(n)[1] = LengthUnit(1, n) /\ LengthText(m)[1] = LengthUnit(1, m)
    BY CodecAssumption DEF LengthText
  <2>2. LengthUnit(1, n) = LengthUnit(1, m)
    BY <1>1, <2>1
  <2> QED
    BY <2>2 DEF LengthUnit
<1>2. \A m \in 0 .. MaxSize : LengthText(n) = LengthText(m) <=> m = n
  BY <1>1
<1> QED
  BY <1>2 DEF SizeOf

LEMMA FrameIsText ==
  ASSUME NEW c \in Calls
  PROVE  /\ Frame(c) \in Text
         /\ Len(Frame(c)) = SizeUnits + Len(Header(c)) + Len(Args(c))
         /\ Header(c) \in Text /\ Args(c) \in Text
         /\ Len(Header(c)) \in 1 .. MaxSize /\ Len(Args(c)) \in Nat
         /\ Frame(c) # <<>>
<1>1. Header(c) \in Text /\ Args(c) \in Text
  BY CodecAssumption, SeqMonotonic DEF Text, Symbol
<1>2. Len(Header(c)) \in 1 .. MaxSize /\ Len(Args(c)) \in Nat
  BY <1>1, CodecAssumption, LenProperties DEF Text
<1>3. LengthText(Len(Header(c))) \in Text /\ Len(LengthText(Len(Header(c)))) = SizeUnits
  BY <1>2, LengthIsText, CodecAssumption
<1>4. Frame(c) \in Text /\ Len(Frame(c)) = SizeUnits + Len(Header(c)) + Len(Args(c))
  <2> DEFINE L == LengthText(Len(Header(c)))
  <2>1. L \in Seq(Symbol) /\ Header(c) \in Seq(Symbol) /\ Args(c) \in Seq(Symbol)
    BY <1>1, <1>3 DEF Text
  <2>2. Frame(c) = (L \o Header(c)) \o Args(c)
    BY DEF Frame
  <2> HIDE DEF L
  <2>3. /\ (L \o Header(c)) \o Args(c) \in Seq(Symbol)
        /\ Len((L \o Header(c)) \o Args(c)) = Len(L) + Len(Header(c)) + Len(Args(c))
    BY <2>1, Parts
  <2>4. Len(L) = SizeUnits
    BY <1>3 DEF L
  <2> QED
    BY <2>2, <2>3, <2>4 DEF Text
<1>5. Len(Frame(c)) > 0
  BY <1>2, <1>4, CodecAssumption
<1> QED
  BY <1>1, <1>2, <1>4, <1>5, EmptySeq DEF Text

LEMMA ThreePieces ==
  ASSUME NEW s \in Seq(Symbol), NEW t \in Seq(Symbol), NEW u \in Seq(Symbol),
         Len(s) = SizeUnits
  PROVE  /\ SubSeq((s \o t) \o u, 1, SizeUnits) = s
         /\ SubSeq((s \o t) \o u, SizeUnits + 1, SizeUnits + Len(t)) = t
         /\ SubSeq((s \o t) \o u, SizeUnits + Len(t) + 1, SizeUnits + Len(t) + Len(u)) = u
<1>1. SubSeq((s \o t) \o u, 1, SizeUnits) = s
  BY Parts
<1>2. SubSeq((s \o t) \o u, SizeUnits + 1, SizeUnits + Len(t)) = t
  BY Parts
<1>3. SubSeq((s \o t) \o u, SizeUnits + Len(t) + 1, SizeUnits + Len(t) + Len(u)) = u
  BY Parts
<1> QED
  BY <1>1, <1>2, <1>3, Zenon

TooLarge(c) == Len(Header(c)) > MaxHeader \/ Len(Frame(c)) > MaxFrame

\* What OnMessage reads in as much of a frame as has arrived.
LEMMA PrefixIsRead ==
  ASSUME NEW c \in Calls, NEW b \in Text, NEW r \in Text, b \o r = Frame(c)
  PROVE  /\ Refused(b) => TooLarge(c)
         /\ HasFrame(b) => /\ r = <<>> /\ AfterFrame(b) = <<>> /\ ~TooLarge(c)
                           /\ CanServe(b) <=> Known(c)
         /\ CanServe(b) => /\ HeaderOf(b).target = Target(c)
                           /\ ArgsOf(b).request = Request(c)
<1> DEFINE H == Len(Header(c))
           A == Len(Args(c))
<1>1. /\ Header(c) \in Text /\ Args(c) \in Text /\ H \in 1 .. MaxSize /\ A \in Nat
      /\ Len(Frame(c)) = SizeUnits + H + A
      /\ LengthText(H) \in Text /\ Len(LengthText(H)) = SizeUnits
      /\ SizeUnits \in Nat \ {0} /\ MaxSize \in Nat /\ MaxHeader \in Nat /\ MaxFrame \in Nat
  <2>1. /\ Header(c) \in Text /\ Args(c) \in Text /\ H \in 1 .. MaxSize /\ A \in Nat
        /\ Len(Frame(c)) = SizeUnits + H + A
    BY FrameIsText
  <2>2. SizeUnits \in Nat \ {0} /\ MaxSize \in Nat /\ MaxHeader \in Nat /\ MaxFrame \in Nat
    BY CodecAssumption
  <2>3. H \in 0 .. MaxSize
    BY <2>1, <2>2
  <2> HIDE DEF H, A
  <2>4. LengthText(H) \in Text /\ Len(LengthText(H)) = SizeUnits
    BY <2>3, LengthIsText
  <2> QED
    BY <2>1, <2>2, <2>4
<1>2. /\ SubSeq(Frame(c), 1, SizeUnits) = LengthText(H)
      /\ SubSeq(Frame(c), SizeUnits + 1, SizeUnits + H) = Header(c)
      /\ SubSeq(Frame(c), SizeUnits + H + 1, SizeUnits + H + A) = Args(c)
  <2>1. /\ LengthText(H) \in Seq(Symbol) /\ Header(c) \in Seq(Symbol)
        /\ Args(c) \in Seq(Symbol) /\ Len(LengthText(H)) = SizeUnits
    BY <1>1 DEF Text
  <2> QED
    BY <2>1, ThreePieces DEF Frame
<1>3. Len(b) \in Nat /\ Len(r) \in Nat /\ Len(b) + Len(r) = SizeUnits + H + A
  BY <1>1, LenProperties, ConcatProperties DEF Text
<1>4. ASSUME HasLength(b) PROVE SizeOf(b) = H
  <2>1. SubSeq(b, 1, SizeUnits) = LengthText(H)
    <3>1. SizeUnits \in 0 .. Len(b) /\ 1 \in 1 .. Len(b) + 1
      BY <1>1, <1>3, <1>4 DEF HasLength
    <3>2. SubSeq(b \o r, 1, SizeUnits) = SubSeq(b, 1, SizeUnits)
      BY <3>1, PieceOfPrefix DEF Text
    <3> QED
      BY <1>2, <3>2
  <2>2. H \in 0 .. MaxSize
    BY <1>1
  <2> HIDE DEF H, A
  <2> QED
    BY <2>1, <2>2, SizeIsRead
<1>5. ASSUME HasHeader(b)
      PROVE  /\ HeaderOf(b) = [ok |-> TRUE, target |-> Target(c), argsSize |-> A]
             /\ SizeOf(b) = H /\ FrameSize(b) = Len(Frame(c)) /\ H <= MaxHeader
  <2>1. SizeOf(b) = H /\ Len(b) >= SizeUnits + H /\ H <= MaxHeader
    BY <1>4, <1>5 DEF HasHeader
  <2>2. SubSeq(b, SizeUnits + 1, SizeUnits + H) = Header(c)
    <3>1. SizeUnits + 1 \in 1 .. Len(b) + 1 /\ SizeUnits + H \in SizeUnits + 1 - 1 .. Len(b)
      BY <1>1, <1>3, <2>1
    <3>2. b \in Seq(Symbol) /\ r \in Seq(Symbol)
      BY DEF Text
    <3>3. SubSeq(b \o r, SizeUnits + 1, SizeUnits + H)
            = SubSeq(b, SizeUnits + 1, SizeUnits + H)
      <4> HIDE DEF H
      <4> QED
        BY <3>1, <3>2, PieceOfPrefix
    <3> QED
      BY <1>2, <3>3
  <2>3. HeaderOf(b) = [ok |-> TRUE, target |-> Target(c), argsSize |-> A]
    BY <2>1, <2>2, CodecAssumption DEF HeaderOf
  <2>4. FrameSize(b) = Len(Frame(c))
    BY <1>1, <2>1, <2>3 DEF FrameSize
  <2> QED
    BY <2>1, <2>3, <2>4
<1>6. Refused(b) => TooLarge(c)
  BY <1>4, <1>5 DEF Refused, TooLarge
<1>7. ASSUME HasFrame(b)
      PROVE  /\ r = <<>> /\ AfterFrame(b) = <<>> /\ ~TooLarge(c)
             /\ HeaderOf(b).target = Target(c)
             /\ Known(c) => ArgsOf(b) = [ok |-> TRUE, request |-> Request(c)]
  <2>1. /\ HasHeader(b) /\ ~Refused(b) /\ Len(b) >= Len(Frame(c))
        /\ HeaderOf(b) = [ok |-> TRUE, target |-> Target(c), argsSize |-> A]
        /\ SizeOf(b) = H /\ FrameSize(b) = Len(Frame(c)) /\ H <= MaxHeader
    BY <1>5, <1>7 DEF HasFrame
  <2>2. Len(r) = 0 /\ Len(b) = Len(Frame(c))
    BY <1>1, <1>3, <2>1
  <2>3. r = <<>>
    BY <2>2, EmptySeq DEF Text
  <2>4. b = Frame(c)
    BY <2>3, ConcatEmptySeq DEF Text
  <2>5. AfterFrame(b) = <<>>
    BY <1>1, <2>1, <2>2, SubSeqEmpty DEF AfterFrame
  <2>6. ~TooLarge(c)
    BY <1>1, <2>1 DEF Refused, TooLarge
  <2>7. Known(c) => ArgsOf(b) = [ok |-> TRUE, request |-> Request(c)]
    <3>1. SubSeq(b, SizeUnits + SizeOf(b) + 1, FrameSize(b)) = Args(c)
      BY <1>1, <1>2, <2>1, <2>4
    <3>2. Known(c) => ReadArgs(Target(c), Args(c)) = [ok |-> TRUE, request |-> Request(c)]
      BY CodecAssumption
    <3> QED
      <4>1. HeaderOf(b).target = Target(c)
        BY <2>1
      <4>2. ArgsOf(b) = ReadArgs(Target(c), Args(c))
        BY <3>1, <4>1 DEF ArgsOf
      <4> QED
        BY <3>2, <4>2
  <2> QED
    BY <2>1, <2>3, <2>5, <2>6, <2>7
<1>8. ASSUME HasFrame(b) PROVE CanServe(b) <=> Known(c)
  BY <1>7, <1>8 DEF CanServe, Known
<1> QED
  BY <1>6, <1>7, <1>8 DEF CanServe, Known
-----------------------------------------------------------------------------
(* The invariant: where the frame of the last call, or the reply to it, is.  *)

Answers == {<<>>} \cup {<<Response(Target(c), Request(c))>> : c \in Calls}
LogEntry == [call : Calls, outcome : {"pending", "ok", "failed", "timeout"},
             response : Answers]
Executed == {[target |-> Target(c), request |-> Request(c)] : c \in Calls}

Busy == phase \in {"sending", "size", "body"}

Types ==
  /\ clientLong \in BOOLEAN /\ serverLong \in BOOLEAN /\ shut \in BOOLEAN
  /\ phase \in {"idle", "sending", "size", "body", "closed"}
  /\ want \in 0 .. MaxSize + SizeUnits
  /\ log \in Seq(LogEntry) /\ Len(log) <= MaxCalls /\ served \in Seq(Executed)
  /\ out \in Text /\ in \in Text /\ toServer \in Text /\ toClient \in Text /\ buffer \in Text
  /\ phase \in {"size", "body"} => Len(in) < want

LogInv ==
  /\ log = <<>> => phase = "idle"
  /\ Len(log) > 1 => clientLong
  /\ log # <<>> => /\ Busy <=> log[Len(log)].outcome = "pending"
                   /\ phase = "idle" => clientLong /\ log[Len(log)].outcome = "ok"

\* Between calls.
Idle ==
  /\ phase = "idle" /\ Len(served) = Len(log)
  /\ out = <<>> /\ in = <<>> /\ toServer = <<>> /\ toClient = <<>> /\ buffer = <<>>

\* The provider has not taken the frame: its pieces are where they were put, and
\* after CloseConnection the end of it may be lost.
Unread ==
  /\ log # <<>> /\ phase \in {"sending", "size", "closed"}
  /\ Len(served) = Len(log) - 1
  /\ in = <<>> /\ toClient = <<>>
  /\ phase = "sending" <=> out # <<>>
  /\ phase = "size" => want = SizeUnits
  /\ \E rest \in Text : /\ (buffer \o toServer) \o rest = Frame(Current)
                        /\ phase # "closed" => rest = out

Drained == out = <<>> /\ toServer = <<>> /\ buffer = <<>>

\* It has taken the frame and nothing comes back.
Gone ==
  /\ log # <<>> /\ phase \in {"size", "closed"} /\ Drained
  /\ in = <<>> /\ toClient = <<>>
  /\ Len(served) \in {Len(log) - 1, Len(log)}
  /\ phase = "size" =>
       /\ want = SizeUnits
       /\ \/ ~Known(Current) /\ Len(served) = Len(log) - 1
          \/ Known(Current) /\ ~Reply(Target(Current), Request(Current)).ok
          \/ shut /\ ~serverLong /\ Len(log) > 1

\* It has executed the call, and the reply is under way.
ReplyText == Reply(Target(Current), Request(Current)).text

Answered ==
  /\ log # <<>> /\ phase \in {"size", "body"} /\ Drained
  /\ Len(served) = Len(log)
  /\ Known(Current) /\ Reply(Target(Current), Request(Current)).ok
  /\ phase = "size" => want = SizeUnits /\ in \o toClient = ReplyFrame(ReplyText)
  /\ phase = "body" => want = Len(ReplyText) /\ in \o toClient = ReplyText

StreamInv == Idle \/ Unread \/ Gone \/ Answered

\* The provider shuts the connection down after an answer, or on a frame that is
\* too large, which then stays where it is.
ShutInv ==
  shut => (Unread /\ TooLarge(Current)) \/ (~serverLong /\ served # <<>>)

Inv == Types /\ LogInv /\ StreamInv /\ ShutInv /\ NoStuckFrame /\ FailsForAReason

LEMMA LastCall ==
  ASSUME Types, log # <<>>
  PROVE  /\ Len(log) \in Nat \ {0} /\ Len(log) \in 1 .. Len(log)
         /\ log[Len(log)] \in LogEntry /\ Current \in Calls
<1>1. Len(log) \in Nat \ {0}
  BY EmptySeq DEF Types
<1>2. log[Len(log)] \in LogEntry
  BY <1>1, ElementOfSeq DEF Types
<1> QED
  BY <1>1, <1>2 DEF LogEntry, Current

LEMMA EmptyTexts ==
  /\ <<>> \in Text /\ Len(<<>>) = 0
  /\ \A s \in Text : s \o <<>> = s /\ <<>> \o s = s /\ Len(s) \in Nat
  /\ \A s \in Text : s # <<>> => Len(s) > 0
  /\ \A s, t \in Text : s \o t \in Text /\ Len(s \o t) = Len(s) + Len(t)
  /\ \A s, t \in Text : s \o t = <<>> => s = <<>> /\ t = <<>>
BY EmptySeq, ConcatEmptySeq, ConcatProperties, ConcatEqualIffEmpty, LenProperties DEF Text

LEMMA Reassociate ==
  \A s, t, u \in Text : (s \o t) \o u = s \o (t \o u)
BY ConcatAssociative DEF Text

LEMMA NoFrameInNothing == ~HasFrame(<<>>)
BY CodecAssumption, EmptyTexts DEF HasFrame, HasHeader, HasLength

-----------------------------------------------------------------------------
LEMMA InitInv == Init => Inv
<1> SUFFICES ASSUME Init PROVE Inv
  OBVIOUS
<1>1. Types
  <2>1. 0 \in 0 .. MaxSize + SizeUnits /\ Len(<<>>) <= MaxCalls
    BY CodecAssumption, EmptyTexts
  <2>2. <<>> \in Seq(LogEntry) /\ <<>> \in Seq(Executed) /\ <<>> \in Text
    BY EmptySeq, EmptyTexts
  <2> QED
    BY <2>1, <2>2 DEF Init, Types
<1>2. Idle
  BY EmptyTexts DEF Init, Idle
<1>3. LogInv /\ ShutInv /\ NoStuckFrame /\ FailsForAReason
  BY NoFrameInNothing, EmptyTexts DEF Init, LogInv, ShutInv, NoStuckFrame, FailsForAReason
<1> QED
  BY <1>1, <1>2, <1>3 DEF Inv, StreamInv

LEMMA BeginStep ==
  ASSUME Inv, NEW c \in Calls, Begin(c) PROVE Inv'
<1>1. Idle /\ Types /\ phase = "idle"
  BY DEF Inv, StreamInv, Begin, Unread, Gone, Answered
<1>2. /\ Entry(c, "pending", <<>>) \in LogEntry /\ Entry(c, "pending", <<>>).outcome = "pending"
      /\ Entry(c, "pending", <<>>).call = c
  BY DEF Entry, LogEntry, Answers
<1>3. /\ log' \in Seq(LogEntry) /\ log' # <<>> /\ Len(log') = Len(log) + 1
      /\ \A i \in 1 .. Len(log) : log'[i] = log[i]
      /\ log'[Len(log) + 1] = Entry(c, "pending", <<>>)
  BY <1>1, <1>2, AppendProperties DEF Begin, Types
<1>4. /\ Len(log) \in Nat /\ DOMAIN log = 1 .. Len(log) /\ DOMAIN log' = 1 .. Len(log) + 1
      /\ log # <<>> => Len(log) # 0
  BY <1>1, <1>3, LenProperties, EmptySeq DEF Types
<1>5. Current' = c
  BY <1>2, <1>3 DEF Current
<1>6. Types'
  BY <1>1, <1>3, <1>4, FrameIsText, CodecAssumption DEF Types, Begin, serverVars
<1>7. LogInv'
  BY <1>1, <1>2, <1>3, <1>4 DEF Inv, LogInv, Begin, Busy
<1>8. Unread'
  <2>1. (buffer \o toServer) \o out' = Frame(c)
    BY <1>1, EmptyTexts, FrameIsText DEF Idle, Begin
  <2>2. out' # <<>> /\ out' \in Text
    BY FrameIsText DEF Begin
  <2>3. /\ phase' = "sending" /\ UNCHANGED <<buffer, toServer, in, toClient, served>>
        /\ Len(served) = Len(log)
    BY <1>1 DEF Begin, Idle, serverVars
  <2> QED
    BY <1>1, <1>3, <1>4, <1>5, <2>1, <2>2, <2>3 DEF Unread, Idle
<1>9. ShutInv'
  BY <1>1 DEF Inv, ShutInv, Unread, Begin, serverVars, Idle
<1>10. NoStuckFrame'
  BY DEF Inv, NoStuckFrame, Begin, serverVars
<1>11. FailsForAReason'
  BY <1>2, <1>3, <1>4 DEF Inv, FailsForAReason, Begin
<1> QED
  BY <1>6, <1>7, <1>8, <1>9, <1>10, <1>11 DEF Inv, StreamInv

LEMMA SendAllStep ==
  ASSUME Inv, NEW k \in 1 .. Len(out), SendAll(k) PROVE Inv'
<1>1. /\ Unread /\ Types /\ phase = "sending" /\ in = <<>>
      /\ UNCHANGED <<clientLong, serverLong, in, log, toClient, buffer, shut, served>>
  BY DEF Inv, StreamInv, SendAll, Idle, Gone, Answered, serverVars, Unread
<1>2. /\ out \in Text /\ toServer \in Text /\ buffer \in Text /\ Len(out) \in Nat
      /\ k \in 0 .. Len(out)
  BY <1>1, EmptyTexts DEF Types
<1>3. /\ SubSeq(out, 1, k) \in Text /\ out' \in Text
      /\ SubSeq(out, 1, k) \o out' = out /\ Len(out') = Len(out) - k
  BY <1>2, CutText DEF SendAll, Text
<1>4. toServer' = toServer \o SubSeq(out, 1, k) /\ toServer' \in Text
  BY <1>2, <1>3, EmptyTexts DEF SendAll
<1>5. /\ k = Len(out) => out' = <<>> /\ phase' = "size" /\ want' = SizeUnits
      /\ k # Len(out) => out' # <<>> /\ phase' = "sending" /\ want' = want
  <2>1. k = Len(out) => Len(out') = 0
    BY <1>2, <1>3
  <2>2. k # Len(out) => Len(out') # 0
    BY <1>2, <1>3
  <2>3. Len(out') = 0 <=> out' = <<>>
    BY <1>3, EmptyTexts
  <2> QED
    BY <1>1, <2>1, <2>2, <2>3 DEF SendAll
<1>6. Types'
  <2>1. phase' \in {"sending", "size"} /\ in' = <<>>
    BY <1>1, <1>5
  <2>2. want' \in 0 .. MaxSize + SizeUnits /\ (phase' = "size" => Len(in') < want')
    <3>1. /\ want \in 0 .. MaxSize + SizeUnits
          /\ SizeUnits \in Nat \ {0} /\ MaxSize \in Nat /\ Len(<<>>) = 0
      BY <1>1, CodecAssumption DEF Types
    <3> QED
      BY <1>1, <1>5, <2>1, <3>1
  <2> QED
    BY <1>1, <1>3, <1>4, <2>1, <2>2 DEF Types
<1>7. LogInv'
  BY <1>1, <1>5 DEF Inv, LogInv, Busy
<1>8. (buffer' \o toServer') \o out' = Frame(Current)
  <2>1. (buffer \o toServer) \o out = Frame(Current)
    BY <1>1 DEF Unread
  <2>2. buffer \o (toServer \o SubSeq(out, 1, k)) = (buffer \o toServer) \o SubSeq(out, 1, k)
    BY <1>2, <1>3, Reassociate
  <2>3. ((buffer \o toServer) \o SubSeq(out, 1, k)) \o out'
          = (buffer \o toServer) \o (SubSeq(out, 1, k) \o out')
    <3>1. buffer \o toServer \in Text
      BY <1>2, EmptyTexts
    <3> QED
      BY <1>3, <3>1, Reassociate
  <2> QED
    BY <1>1, <1>3, <1>4, <2>1, <2>2, <2>3
<1>9. Unread' /\ Current' = Current
  BY <1>1, <1>3, <1>5, <1>8 DEF Unread, Current
<1>10. ShutInv' /\ NoStuckFrame' /\ FailsForAReason'
  BY <1>1, <1>9 DEF Inv, ShutInv, NoStuckFrame, FailsForAReason
<1> QED
  BY <1>6, <1>7, <1>9, <1>10 DEF Inv, StreamInv
-----------------------------------------------------------------------------
(* The caller gets its reply, or gives up.                                   *)

LEMMA SettleStep ==
  ASSUME Types, log # <<>>, NEW outcome \in {"ok", "failed", "timeout"},
         NEW response \in Answers, Settle(outcome, response)
  PROVE  /\ log' \in Seq(LogEntry) /\ Len(log') = Len(log) /\ log' # <<>>
         /\ log'[Len(log)].outcome = outcome /\ log'[Len(log)].call = Current
         /\ \A i \in 1 .. Len(log) : i # Len(log) => log'[i] = log[i]
         /\ Current' = Current
<1>1. Len(log) \in Nat \ {0} /\ Len(log) \in 1 .. Len(log) /\ Current \in Calls
  BY LastCall
<1>2. Entry(Current, outcome, response) \in LogEntry
  BY <1>1 DEF Entry, LogEntry
<1>3. /\ log' \in Seq(LogEntry) /\ Len(log') = Len(log)
      /\ \A j \in 1 .. Len(log) :
           log'[j] = IF j = Len(log) THEN Entry(Current, outcome, response) ELSE log[j]
  BY <1>1, <1>2, ExceptSeq DEF Types, Settle
<1>4. log' # <<>>
  BY <1>1, <1>3, EmptySeq
<1> QED
  BY <1>1, <1>3, <1>4 DEF Entry, Current

\* A call ends: what FailsForAReason says of the others stays.
LEMMA ReasonKept ==
  ASSUME Inv, log # <<>>, NEW outcome \in {"ok", "failed", "timeout"},
         NEW response \in Answers, Settle(outcome, response),
         UNCHANGED <<clientLong, serverLong>>,
         outcome = "failed" =>
           Unanswerable(Current) \/ (clientLong /\ ~serverLong /\ Len(log) > 1)
  PROVE  FailsForAReason'
<1>1. /\ DOMAIN log' = 1 .. Len(log) /\ DOMAIN log = 1 .. Len(log)
      /\ log'[Len(log)].outcome = outcome /\ log'[Len(log)].call = Current
      /\ \A i \in 1 .. Len(log) : i # Len(log) => log'[i] = log[i]
  BY SettleStep, LenProperties DEF Inv, Types
<1>2. \A i \in DOMAIN log :
        log[i].outcome = "failed" =>
          Unanswerable(log[i].call) \/ (clientLong /\ ~serverLong /\ i > 1)
  BY DEF Inv, FailsForAReason
<1>3. ASSUME NEW i \in DOMAIN log', log'[i].outcome = "failed"
      PROVE  Unanswerable(log'[i].call) \/ (clientLong' /\ ~serverLong' /\ i > 1)
  BY <1>1, <1>2, <1>3
<1> QED
  BY <1>3 DEF FailsForAReason, Unanswerable, Known

LEMMA FailStep ==
  ASSUME Inv, Busy, NEW outcome \in {"failed", "timeout"}, Fail(outcome),
         UNCHANGED <<clientLong, serverLong, toServer, serverVars>>,
         outcome = "failed" =>
           Unanswerable(Current) \/ (clientLong /\ ~serverLong /\ Len(log) > 1)
  PROVE  Inv'
<1>1. /\ Types /\ log # <<>> /\ <<>> \in Answers /\ Settle(outcome, <<>>)
      /\ Unread \/ Gone \/ Answered
      /\ phase' = "closed" /\ out' = <<>> /\ in' = <<>> /\ want' = 0 /\ toClient' = <<>>
      /\ UNCHANGED <<buffer, shut, served>>
  BY DEF Inv, StreamInv, Busy, Idle, Unread, Gone, Answered, Answers, Fail, CloseConnection,
         serverVars
<1>2. /\ log' \in Seq(LogEntry) /\ Len(log') = Len(log) /\ log' # <<>>
      /\ log'[Len(log)].outcome = outcome /\ Current' = Current
  BY <1>1, SettleStep
<1>3. Types'
  BY <1>1, <1>2, CodecAssumption, EmptyTexts DEF Types
<1>4. LogInv'
  BY <1>1, <1>2 DEF Inv, LogInv, Busy
<1>5. Unread => Unread'
  <2> SUFFICES ASSUME Unread PROVE Unread'
    OBVIOUS
  <2>1. PICK rest \in Text : (buffer \o toServer) \o rest = Frame(Current)
    BY DEF Unread
  <2> QED
    BY <1>1, <1>2, <2>1 DEF Unread
<1>6. Gone \/ Answered => Gone'
  BY <1>1, <1>2, LastCall DEF Gone, Answered, Drained
<1>7. StreamInv' /\ ShutInv'
  BY <1>1, <1>2, <1>5, <1>6 DEF Inv, StreamInv, ShutInv, TooLarge
<1>8. NoStuckFrame'
  BY <1>1 DEF Inv, NoStuckFrame
<1>9. FailsForAReason'
  BY <1>1, ReasonKept
<1> QED
  BY <1>3, <1>4, <1>7, <1>8, <1>9 DEF Inv

\* A call that reads its own reply ends with the answer to its request.
LEMMA ReplyIsRead ==
  ASSUME Types, Answered
  PROVE  LET read == ReadReply(Current, ReplyText) IN
         /\ ReplyText \in Text /\ Len(ReplyText) \in 0 .. MaxSize
         /\ ~read.ok => Unanswerable(Current)
         /\ Len(ReplyText) > MaxReply => Unanswerable(Current)
         /\ read.ok => /\ read.response = Response(Target(Current), Request(Current))
                       /\ <<read.response>> \in Answers
<1>1. Current \in Calls
  BY LastCall DEF Answered
<1>2. Known(Current) /\ Reply(Target(Current), Request(Current)).ok
  BY DEF Answered
<1>3. ReplyText \in Seq(Unit) /\ Len(ReplyText) <= MaxSize
  BY <1>1, <1>2, CodecAssumption DEF ReplyText
<1>4. ReplyText \in Text /\ Len(ReplyText) \in 0 .. MaxSize
  BY <1>3, SeqMonotonic, LenProperties, CodecAssumption DEF Text, Symbol
<1>5. ReadReply(Current, ReplyText).ok =>
        ReadReply(Current, ReplyText).response = Response(Target(Current), Request(Current))
  BY <1>1, <1>2, CodecAssumption DEF ReplyText
<1>6. ~ReadReply(Current, ReplyText).ok \/ Len(ReplyText) > MaxReply => Unanswerable(Current)
  BY <1>2 DEF Unanswerable, ReplyText
<1> QED
  BY <1>1, <1>4, <1>5, <1>6 DEF Answers

LEMMA FinishStep ==
  ASSUME Inv, Answered, Finish(ReplyText, <<>>),
         UNCHANGED <<clientLong, serverLong, toServer, serverVars>>
  PROVE  Inv'
<1> DEFINE read == ReadReply(Current, ReplyText)
<1>1. /\ Types /\ Busy /\ log # <<>> /\ UNCHANGED <<buffer, shut, served>>
      /\ Drained /\ Len(served) = Len(log)
  BY DEF Inv, Busy, Answered, serverVars
<1>2. CASE ~read.ok /\ Fail("failed")
  BY <1>1, <1>2, ReplyIsRead, FailStep
<1>3. CASE read.ok /\ Settle("ok", <<read.response>>)
                   /\ \/ /\ clientLong
                         /\ phase' = "idle" /\ in' = <<>> /\ want' = 0
                         /\ toClient' = <<>> /\ UNCHANGED out
                      \/ ~clientLong /\ CloseConnection
  <2>1. <<read.response>> \in Answers
    BY <1>1, <1>3, ReplyIsRead
  <2> HIDE DEF read
  <2>2. /\ log' \in Seq(LogEntry) /\ Len(log') = Len(log) /\ log' # <<>>
        /\ log'[Len(log)].outcome = "ok" /\ Current' = Current
    BY <1>1, <1>3, <2>1, SettleStep
  <2>3. /\ phase' \in {"idle", "closed"} /\ (phase' = "idle" => clientLong)
        /\ out' = <<>> /\ in' = <<>> /\ want' = 0 /\ toClient' = <<>>
        /\ toServer' = <<>> /\ buffer' = <<>>
    BY <1>1, <1>3 DEF CloseConnection, Drained
  <2>4. Types'
    BY <1>1, <2>2, <2>3, CodecAssumption, EmptyTexts DEF Types
  <2>5. LogInv'
    BY <2>2, <2>3 DEF Inv, LogInv, Busy
  <2>6. StreamInv'
    BY <1>1, <2>2, <2>3 DEF StreamInv, Idle, Gone, Drained
  <2>7. ShutInv' /\ NoStuckFrame'
    <3>1. ~Unread
      BY <1>1, LastCall DEF Unread
    <3> QED
      BY <1>1, <3>1 DEF Inv, ShutInv, NoStuckFrame
  <2>8. FailsForAReason'
    BY <1>1, <1>3, <2>1, ReasonKept
  <2> QED
    BY <2>4, <2>5, <2>6, <2>7, <2>8 DEF Inv
<1> QED
  BY <1>2, <1>3 DEF Finish

LEMMA TimeOutStep == ASSUME Inv, TimeOut PROVE Inv'
BY FailStep DEF TimeOut, Busy

\* Two ways to cut a text in two.
LEMMA SameCut ==
  ASSUME NEW a \in Text, NEW b \in Text, NEW s \in Text, NEW t \in Text,
         a \o b = s \o t, Len(a) = Len(s)
  PROVE  a = s /\ b = t
<1>1. Len(a) \in Nat /\ Len(s) \in Nat
  BY EmptyTexts
<1>2. SubSeq(a \o b, 1, Len(a)) = a
  <2>1. SubSeq(a \o b, 1, Len(a)) = SubSeq(a, 1, Len(a))
    BY <1>1, PieceOfPrefix DEF Text
  <2> QED
    BY <2>1, SubSeqFull DEF Text
<1>3. SubSeq(s \o t, 1, Len(s)) = s
  <2>1. SubSeq(s \o t, 1, Len(s)) = SubSeq(s, 1, Len(s))
    BY <1>1, PieceOfPrefix DEF Text
  <2> QED
    BY <2>1, SubSeqFull DEF Text
<1>4. a = s
  BY <1>2, <1>3
<1>5. \A p, q, r \in Seq(Symbol) : p \o q = p \o r => q = r
  BY ConcatSimplifications
<1> QED
  BY <1>4, <1>5 DEF Text

\* What a recv that brings something brings: a part of the reply, its length, or
\* the end of it.
LEMMA WhatIsReceived ==
  ASSUME Inv, NEW k \in 1 .. Len(toClient), RecvAll(k)
  PROVE  /\ Types /\ Answered /\ Busy
         /\ UNCHANGED <<clientLong, serverLong, toServer, serverVars>>
         /\ Got(k) \in Text /\ Rest(k) \in Text /\ Got(k) \o Rest(k) = in \o toClient
         /\ \/ RecvPart(k)
            \/ Len(ReplyText) > MaxReply /\ Fail("failed")
            \/ Finish(ReplyText, <<>>)
            \/ /\ phase = "size" /\ Len(ReplyText) \in 1 .. MaxReply
               /\ phase' = "body" /\ want' = Len(ReplyText)
               /\ in' = <<>> /\ toClient' = ReplyText /\ UNCHANGED <<out, log>>
<1>1. Types /\ Answered /\ Busy /\ UNCHANGED <<clientLong, serverLong, toServer, serverVars>>
  <2>1. toClient # <<>>
    BY EmptyTexts
  <2> QED
    BY <2>1 DEF Inv, StreamInv, Idle, Unread, Gone, RecvAll, Busy
<1>2. /\ in \in Text /\ toClient \in Text /\ Len(toClient) \in Nat /\ k \in 0 .. Len(toClient)
  BY <1>1, EmptyTexts DEF Types
<1>3. /\ Got(k) \in Text /\ Rest(k) \in Text
      /\ Got(k) \o Rest(k) = in \o toClient
  <2>1. /\ SubSeq(toClient, 1, k) \in Text /\ Rest(k) \in Text
        /\ SubSeq(toClient, 1, k) \o Rest(k) = toClient
    BY <1>2, CutText DEF Rest, Text
  <2>2. Got(k) \in Text
    BY <1>2, <2>1, EmptyTexts DEF Got
  <2>3. (in \o SubSeq(toClient, 1, k)) \o Rest(k) = in \o (SubSeq(toClient, 1, k) \o Rest(k))
    BY <1>2, <2>1, Reassociate
  <2> QED
    BY <2>1, <2>2, <2>3 DEF Got
<1>4. ReplyText \in Text /\ Len(ReplyText) \in 0 .. MaxSize
  BY <1>1, ReplyIsRead
<1>5. CASE RecvSize(k)
  <2>1. phase = "size" /\ Len(Got(k)) = SizeUnits /\ Got(k) \o Rest(k) = ReplyFrame(ReplyText)
    BY <1>1, <1>3, <1>5 DEF RecvSize, Answered
  <2>2. /\ LengthText(Len(ReplyText)) \in Text
        /\ Len(LengthText(Len(ReplyText))) = SizeUnits
    BY <1>4, LengthIsText
  <2>3. Got(k) = LengthText(Len(ReplyText)) /\ Rest(k) = ReplyText
    BY <1>3, <1>4, <2>1, <2>2, SameCut DEF ReplyFrame
  <2>4. SizeOf(Got(k)) = Len(ReplyText)
    <3>1. SubSeq(Got(k), 1, SizeUnits) = Got(k)
      BY <1>3, <2>1, SubSeqFull DEF Text
    <3> QED
      BY <1>4, <2>3, <3>1, SizeIsRead
  <2>5. Len(ReplyText) = 0 => ReplyText = <<>>
    BY <1>4, EmptyTexts
  <2> QED
    BY <1>1, <1>3, <1>5, <2>1, <2>3, <2>4, <2>5 DEF RecvSize
<1>6. CASE RecvBody(k)
  <2>1. Len(Got(k)) = Len(ReplyText) /\ Got(k) \o Rest(k) = ReplyText
    BY <1>1, <1>3, <1>6 DEF RecvBody, Answered
  <2>2. ReplyText = ReplyText \o <<>> /\ <<>> \in Text
    BY <1>4, EmptyTexts
  <2>3. Got(k) = ReplyText /\ Rest(k) = <<>>
    BY <1>3, <1>4, <2>1, <2>2, SameCut
  <2> QED
    BY <1>1, <1>3, <1>6, <2>3 DEF RecvBody
<1> QED
  BY <1>1, <1>3, <1>5, <1>6 DEF RecvAll

LEMMA ReceiveStep ==
  ASSUME Inv, NEW k \in 1 .. Len(toClient), RecvAll(k) PROVE Inv'
<1>1. /\ Types /\ Answered /\ Busy /\ ~Unread
      /\ UNCHANGED <<clientLong, serverLong, toServer, buffer, shut, served>>
      /\ UNCHANGED serverVars
  <2>1. Types /\ Answered /\ Busy /\ UNCHANGED <<clientLong, serverLong, toServer, serverVars>>
    BY WhatIsReceived
  <2> QED
    BY <2>1, LastCall DEF Unread, Answered, serverVars
<1>2. Got(k) \in Text /\ Rest(k) \in Text /\ Got(k) \o Rest(k) = in \o toClient
  BY WhatIsReceived
<1>3. ShutInv' /\ NoStuckFrame'
  BY <1>1 DEF Inv, ShutInv, NoStuckFrame
<1>4. CASE RecvPart(k)
  <2>1. /\ in' = Got(k) /\ toClient' = Rest(k) /\ Len(Got(k)) < want
        /\ UNCHANGED <<phase, out, want, log>>
    BY <1>4 DEF RecvPart
  <2>2. Types' /\ LogInv' /\ FailsForAReason'
    BY <1>1, <1>2, <2>1 DEF Inv, Types, LogInv, Busy, FailsForAReason
  <2>3. Answered'
    BY <1>1, <1>2, <2>1 DEF Answered, Drained, Current, ReplyText
  <2> QED
    BY <1>3, <2>2, <2>3 DEF Inv, StreamInv
<1>5. CASE Len(ReplyText) > MaxReply /\ Fail("failed")
  BY <1>1, <1>5, ReplyIsRead, FailStep
<1>6. CASE Finish(ReplyText, <<>>)
  BY <1>1, <1>6, FinishStep
<1>7. CASE /\ phase = "size" /\ Len(ReplyText) \in 1 .. MaxReply
           /\ phase' = "body" /\ want' = Len(ReplyText)
           /\ in' = <<>> /\ toClient' = ReplyText /\ UNCHANGED <<out, log>>
  <2>1. ReplyText \in Text /\ Len(ReplyText) \in 0 .. MaxSize
    BY <1>1, ReplyIsRead
  <2>2. Types'
    BY <1>1, <1>7, <2>1, CodecAssumption, EmptyTexts DEF Types
  <2>3. LogInv' /\ FailsForAReason'
    BY <1>1, <1>7 DEF Inv, LogInv, Busy, FailsForAReason
  <2>4. Answered'
    BY <1>1, <1>7, <2>1, EmptyTexts DEF Answered, Drained, Current, ReplyText
  <2> QED
    BY <1>3, <2>2, <2>3, <2>4 DEF Inv, StreamInv
<1> QED
  BY <1>4, <1>5, <1>6, <1>7, WhatIsReceived

\* The caller sees the end of the connection only when there is a reason.
LEMMA RecvEndStep == ASSUME Inv, RecvEnd PROVE Inv'
<1>1. /\ Types /\ Busy /\ phase \in {"size", "body"} /\ shut /\ toClient = <<>>
      /\ Fail("failed") /\ UNCHANGED <<clientLong, serverLong, toServer, serverVars>>
      /\ Len(in) < want /\ log # <<>>
  BY DEF Inv, Types, RecvEnd, Busy, LogInv
<1>2. Len(log) \in Nat \ {0} /\ Len(served) \in Nat /\ (served # <<>> => Len(served) # 0)
  BY <1>1, LastCall, LenProperties, EmptySeq DEF Types
<1>3. Len(log) > 1 => clientLong
  BY DEF Inv, LogInv
<1>4. TooLarge(Current) => Unanswerable(Current)
  BY DEF TooLarge, Unanswerable
<1>5. (Unread /\ TooLarge(Current)) \/ (~serverLong /\ served # <<>>)
  BY <1>1 DEF Inv, ShutInv
<1>6. ~Answered
  <2> SUFFICES ASSUME Answered PROVE FALSE
    OBVIOUS
  <2>1. in \in Text /\ in \o toClient = in
    BY <1>1, EmptyTexts DEF Types
  <2>2. ReplyText \in Text /\ Len(ReplyText) \in 0 .. MaxSize
    BY <1>1, ReplyIsRead
  <2>3. Len(ReplyFrame(ReplyText)) = SizeUnits + Len(ReplyText)
    BY <2>2, LengthIsText, EmptyTexts DEF ReplyFrame
  <2>4. \/ want = SizeUnits /\ Len(in) = SizeUnits + Len(ReplyText)
        \/ want = Len(ReplyText) /\ Len(in) = Len(ReplyText)
    BY <1>1, <2>1, <2>3 DEF Answered
  <2> QED
    BY <1>1, <2>2, <2>4, CodecAssumption
<1>7. Unanswerable(Current) \/ (clientLong /\ ~serverLong /\ Len(log) > 1)
  <2>1. CASE Unread
    BY <1>2, <1>3, <1>4, <1>5, <2>1 DEF Unread
  <2>2. CASE Gone
    <3>1. Known(Current) /\ ~Reply(Target(Current), Request(Current)).ok => Unanswerable(Current)
      BY DEF Unanswerable
    <3> QED
      BY <1>1, <1>2, <1>3, <1>4, <1>5, <2>2, <3>1 DEF Gone
  <2> QED
    BY <1>1, <1>6, <2>1, <2>2 DEF Inv, StreamInv, Idle
<1> QED
  BY <1>1, <1>7, FailStep
-----------------------------------------------------------------------------
(* Units arrive at the provider.                                             *)

\* What OnMessage finds when k units arrive: the buffer is a beginning of the
\* frame of the last call.
LEMMA WhatArrives ==
  ASSUME Inv, NEW k \in 1 .. Len(toServer), Arrive(k)
  PROVE  LET b == buffer \o SubSeq(toServer, 1, k) IN
         /\ Unread /\ Types /\ b \in Text /\ toServer' \in Text
         /\ \E rest \in Text :
              /\ (b \o toServer') \o rest = Frame(Current)
              /\ b \o (toServer' \o rest) = Frame(Current)
              /\ toServer' \o rest \in Text
              /\ phase # "closed" => rest = out
<1> DEFINE part == SubSeq(toServer, 1, k)
<1>1. toServer # <<>>
  BY EmptyTexts
<1>2. Unread /\ Types
  BY <1>1 DEF Inv, StreamInv, Idle, Gone, Answered, Drained
<1>3. /\ toServer \in Text /\ buffer \in Text /\ Len(toServer) \in Nat
      /\ k \in 0 .. Len(toServer)
  BY <1>2, EmptyTexts DEF Types
<1>4. part \in Text /\ toServer' \in Text /\ part \o toServer' = toServer
  BY <1>3, CutText DEF Arrive, Text
<1> HIDE DEF part
<1>5. PICK rest \in Text : /\ (buffer \o toServer) \o rest = Frame(Current)
                           /\ phase # "closed" => rest = out
  BY <1>2 DEF Unread
<1>6. buffer \o part \in Text /\ toServer' \o rest \in Text
  BY <1>3, <1>4, EmptyTexts
<1>7. ((buffer \o part) \o toServer') \o rest = Frame(Current)
  <2>1. (buffer \o part) \o toServer' = buffer \o (part \o toServer')
    BY <1>3, <1>4, Reassociate
  <2> QED
    BY <1>4, <1>5, <2>1
<1>8. (buffer \o part) \o (toServer' \o rest) = Frame(Current)
  BY <1>4, <1>6, <1>7, Reassociate
<1> QED
  BY <1>2, <1>4, <1>5, <1>6, <1>7, <1>8 DEF part

\* The frame has not arrived as a whole, or is refused.
LEMMA FrameWaits ==
  ASSUME Inv, NEW k \in 1 .. Len(toServer), Arrive(k),
         ~HasFrame(buffer \o SubSeq(toServer, 1, k)),
         buffer' = buffer \o SubSeq(toServer, 1, k), UNCHANGED <<served, toClient>>,
         shut' = (shut \/ Refused(buffer \o SubSeq(toServer, 1, k)))
  PROVE  Inv'
<1>1. /\ Unread /\ Types /\ buffer' \in Text /\ toServer' \in Text
      /\ UNCHANGED <<clientLong, serverLong, phase, out, in, want, log, served, toClient>>
  BY WhatArrives DEF Arrive, clientVars
<1>2. PICK rest \in Text : /\ (buffer' \o toServer') \o rest = Frame(Current)
                           /\ buffer' \o (toServer' \o rest) = Frame(Current)
                           /\ toServer' \o rest \in Text
                           /\ phase # "closed" => rest = out
  BY WhatArrives
<1>3. Current \in Calls
  BY <1>1, LastCall DEF Unread
<1>4. Refused(buffer \o SubSeq(toServer, 1, k)) => TooLarge(Current)
  BY <1>1, <1>2, <1>3, PrefixIsRead
<1>5. shut' \in BOOLEAN
  BY <1>1 DEF Types, Refused
<1>6. Types'
  BY <1>1, <1>5 DEF Types
<1>7. LogInv' /\ FailsForAReason'
  BY <1>1 DEF Inv, LogInv, Busy, FailsForAReason
<1>8. Unread' /\ Current' = Current
  BY <1>1, <1>2 DEF Unread, Current
<1>9. ShutInv'
  BY <1>1, <1>4, <1>8 DEF Inv, ShutInv
<1>10. NoStuckFrame'
  <2>1. ~HasFrame(buffer')
    OBVIOUS
  <2> QED
    BY <2>1 DEF NoStuckFrame, HasFrame, HasHeader, HasLength, Refused, FrameSize, HeaderOf,
                SizeOf
<1> QED
  BY <1>6, <1>7, <1>8, <1>9, <1>10 DEF Inv, StreamInv

\* The provider takes a whole frame out of the buffer: it was all that was under
\* way, and the caller has sent it all.
LEMMA FrameTaken ==
  ASSUME Inv, NEW k \in 1 .. Len(toServer), Arrive(k),
         HasFrame(buffer \o SubSeq(toServer, 1, k)),
         buffer' = AfterFrame(buffer \o SubSeq(toServer, 1, k))
  PROVE  LET b == buffer \o SubSeq(toServer, 1, k) IN
         /\ Drained' /\ out = <<>> /\ phase \in {"size", "closed"} /\ Current \in Calls
         /\ (CanServe(b) <=> Known(Current)) /\ ~TooLarge(Current)
         /\ CanServe(b) => /\ HeaderOf(b).target = Target(Current)
                           /\ ArgsOf(b).request = Request(Current)
<1> DEFINE b == buffer \o SubSeq(toServer, 1, k)
<1>1. Unread /\ Types /\ b \in Text /\ toServer' \in Text /\ UNCHANGED out
  BY WhatArrives DEF Arrive, clientVars
<1>2. PICK rest \in Text : /\ b \o (toServer' \o rest) = Frame(Current)
                           /\ toServer' \o rest \in Text
                           /\ phase # "closed" => rest = out
  BY WhatArrives
<1>3. Current \in Calls
  BY <1>1, LastCall DEF Unread
<1>4. HasFrame(b)
  OBVIOUS
<1> HIDE DEF b
<1>5. /\ toServer' \o rest = <<>> /\ AfterFrame(b) = <<>> /\ ~TooLarge(Current)
      /\ (CanServe(b) <=> Known(Current))
      /\ CanServe(b) => /\ HeaderOf(b).target = Target(Current)
                        /\ ArgsOf(b).request = Request(Current)
  BY <1>1, <1>2, <1>3, <1>4, PrefixIsRead
<1>6. toServer' = <<>> /\ rest = <<>>
  BY <1>1, <1>5, EmptyTexts
<1>7. out = <<>> /\ phase \in {"size", "closed"}
  BY <1>1, <1>2, <1>6 DEF Unread
<1>8. buffer' = <<>>
  BY <1>5 DEF b
<1> QED
  BY <1>1, <1>3, <1>5, <1>6, <1>7, <1>8 DEF Drained, b

\* Whatever happens to the frame, the invariant holds if the stream is in order.
LEMMA TakenKeeps ==
  ASSUME Inv, NEW k \in 1 .. Len(toServer), Arrive(k), Drained', StreamInv', ShutInv',
         shut' \in BOOLEAN, served' \in Seq(Executed), toClient' \in Text
  PROVE  Inv'
<1>1. /\ Types /\ buffer' = <<>> /\ toServer' = <<>>
      /\ UNCHANGED <<clientLong, serverLong, phase, out, in, want, log>>
  BY DEF Inv, Arrive, clientVars, Drained
<1>2. Types'
  BY <1>1, EmptyTexts DEF Types
<1>3. LogInv' /\ FailsForAReason'
  BY <1>1 DEF Inv, LogInv, Busy, FailsForAReason
<1>4. NoStuckFrame'
  BY <1>1, NoFrameInNothing
     DEF NoStuckFrame, HasFrame, HasHeader, HasLength, Refused, FrameSize, HeaderOf, SizeOf
<1> QED
  BY <1>2, <1>3, <1>4 DEF Inv

LEMMA ArriveStep ==
  ASSUME Inv, NEW k \in 1 .. Len(toServer), Arrive(k) PROVE Inv'
<1> DEFINE b == buffer \o SubSeq(toServer, 1, k)
<1>1. Unread /\ Types
  BY WhatArrives
<1>2. /\ UNCHANGED <<clientLong, serverLong, phase, out, in, want, log>>
      /\ Current' = Current /\ in = <<>> /\ toClient = <<>> /\ log # <<>>
      /\ Len(served) = Len(log) - 1 /\ OnMessage(b)
      /\ phase = "size" => want = SizeUnits
  BY <1>1 DEF Arrive, clientVars, Current, Unread
<1>3. Len(log) \in Nat \ {0} /\ Len(served) \in Nat /\ (served # <<>> => Len(served) # 0)
  BY <1>1, <1>2, LastCall, LenProperties, EmptySeq DEF Types
<1>4. CASE Refused(b) /\ buffer' = b /\ shut' = TRUE /\ UNCHANGED <<served, toClient>>
  <2>1. ~HasFrame(b) /\ shut' = (shut \/ Refused(b))
    BY <1>4 DEF HasFrame
  <2> QED
    BY <1>4, <2>1, FrameWaits
<1>5. CASE /\ ~Refused(b) /\ ~HasFrame(b) /\ buffer' = b
           /\ UNCHANGED <<shut, served, toClient>>
  <2>1. shut' = (shut \/ Refused(b))
    BY <1>1, <1>5 DEF Types
  <2> QED
    BY <1>5, <2>1, FrameWaits
<1>6. CASE /\ HasFrame(b) /\ ~CanServe(b) /\ buffer' = AfterFrame(b)
           /\ UNCHANGED <<shut, served, toClient>>
  <2>1. /\ Drained' /\ phase \in {"size", "closed"} /\ ~Known(Current) /\ ~TooLarge(Current)
    BY <1>6, FrameTaken
  <2>2. Gone'
    BY <1>2, <1>6, <2>1 DEF Gone, Known
  <2>3. ShutInv'
    BY <1>2, <1>6, <2>1 DEF Inv, ShutInv
  <2> QED
    BY <1>1, <1>6, <2>1, <2>2, <2>3, TakenKeeps DEF StreamInv, Types
<1>7. CASE /\ CanServe(b) /\ buffer' = AfterFrame(b)
           /\ served' = Append(served, [target |-> HeaderOf(b).target,
                                        request |-> ArgsOf(b).request])
           /\ SendRpcResponse(Reply(HeaderOf(b).target, ArgsOf(b).request))
  <2> DEFINE reply == Reply(Target(Current), Request(Current))
  <2>1. /\ Drained' /\ phase \in {"size", "closed"} /\ Known(Current) /\ ~TooLarge(Current)
        /\ HeaderOf(b).target = Target(Current) /\ ArgsOf(b).request = Request(Current)
        /\ Current \in Calls
    BY <1>7, FrameTaken DEF CanServe
  <2>2. [target |-> HeaderOf(b).target, request |-> ArgsOf(b).request] \in Executed
    BY <2>1 DEF Executed
  <2>3. served' \in Seq(Executed) /\ served' # <<>> /\ Len(served') = Len(log)
    BY <1>1, <1>2, <1>3, <1>7, <2>2, AppendProperties DEF Types
  <2>4. /\ toClient' = IF reply.ok /\ ~shut /\ phase # "closed"
                         THEN ReplyFrame(reply.text) ELSE <<>>
        /\ shut' = (shut \/ ~serverLong)
        /\ reply.ok => ReplyFrame(reply.text) \in Text
    <3>1. reply.ok => ReplyFrame(reply.text) \in Text
      <4> SUFFICES ASSUME reply.ok PROVE ReplyFrame(reply.text) \in Text
        OBVIOUS
      <4>1. reply.text \in Seq(Unit) /\ Len(reply.text) <= MaxSize
        BY <2>1, CodecAssumption
      <4>2. reply.text \in Text /\ Len(reply.text) \in 0 .. MaxSize
        BY <4>1, SeqMonotonic, LenProperties, CodecAssumption DEF Text, Symbol
      <4>3. LengthText(Len(reply.text)) \in Text
        BY <4>2, LengthIsText
      <4> QED
        BY <4>2, <4>3, EmptyTexts DEF ReplyFrame
    <3> HIDE DEF b
    <3> QED
      BY <1>2, <1>7, <2>1, <3>1, EmptyTexts DEF SendRpcResponse
  <2> HIDE DEF b
  <2>5. shut => ~serverLong /\ Len(log) > 1
    BY <1>2, <1>3, <2>1 DEF Inv, ShutInv
  <2>6. /\ ReplyText' = reply.text /\ Known(Current)' /\ Len(served') = Len(log')
        /\ Reply(Target(Current), Request(Current))' = reply
    BY <1>2, <2>1, <2>3 DEF ReplyText, Known
  <2>7. StreamInv'
    <3>1. CASE reply.ok /\ ~shut /\ phase # "closed"
      <4>1. in' \o toClient' = ReplyFrame(reply.text)
        BY <1>2, <2>4, <3>1, EmptyTexts
      <4> QED
        BY <1>2, <2>1, <2>3, <2>6, <3>1, <4>1 DEF StreamInv, Answered
    <3>2. CASE ~(reply.ok /\ ~shut /\ phase # "closed")
      <4>1. toClient' = <<>>
        BY <2>4, <3>2
      <4> QED
        BY <1>2, <2>1, <2>3, <2>4, <2>5, <2>6, <3>2, <4>1 DEF StreamInv, Gone
    <3> QED
      BY <3>1, <3>2
  <2>8. ShutInv'
    BY <1>2, <2>3, <2>4, <2>5 DEF ShutInv
  <2>9. shut' \in BOOLEAN /\ toClient' \in Text
    BY <1>1, <2>4, EmptyTexts DEF Types
  <2> QED
    BY <2>1, <2>3, <2>7, <2>8, <2>9, TakenKeeps
<1> QED
  BY <1>2, <1>4, <1>5, <1>6, <1>7 DEF OnMessage

LEMMA NextInv == Inv /\ [Next]_vars => Inv'
<1> SUFFICES ASSUME Inv, [Next]_vars PROVE Inv'
  OBVIOUS
<1>1. CASE UNCHANGED vars
  BY <1>1 DEF Inv, Types, LogInv, StreamInv, ShutInv, Idle, Unread, Gone, Answered, Drained,
              Busy, Current, ReplyText, NoStuckFrame, FailsForAReason, vars, clientVars,
              serverVars
<1> QED
  BY <1>1, BeginStep, SendAllStep, ReceiveStep, RecvEndStep, TimeOutStep, ArriveStep
     DEF Next, Send, Receive, Deliver

LEMMA SpecInv == Spec => []Inv
BY InitInv, NextInv, PTL DEF Spec

-----------------------------------------------------------------------------
\* Every variable has its type, and RecvAll never waits for nothing.
THEOREM FramingTypes == Spec => []TypeOK
<1>1. Inv => TypeOK
  <2> SUFFICES ASSUME Inv PROVE TypeOK
    OBVIOUS
  <2>1. /\ Types /\ Len(log) \in Nat /\ DOMAIN log = 1 .. Len(log)
        /\ \A i \in 1 .. Len(log) : log[i] \in LogEntry
    BY ElementOfSeq, LenProperties DEF Inv, Types
  <2> QED
    BY <2>1, CodecAssumption DEF Types, TypeOK, LogEntry
<1> QED
  BY <1>1, SpecInv, PTL

\* Between two calls nothing of the last one is left at either end or under way.
THEOREM CallsLeaveNothing == Spec => []CleanBetweenCalls
<1>1. Inv => CleanBetweenCalls
  BY DEF Inv, StreamInv, Idle, Unread, Gone, Answered, CleanBetweenCalls
<1> QED
  BY <1>1, SpecInv, PTL

\* However the stream is cut, the one frame that OnMessage looks at is all that
\* the buffer can hold.
THEOREM NoFrameIsStuck == Spec => []NoStuckFrame
<1>1. Inv => NoStuckFrame
  BY DEF Inv
<1> QED
  BY <1>1, SpecInv, PTL

\* A call that does not time out fails for one of the known reasons only.
THEOREM FailuresHaveReasons == Spec => []FailsForAReason
<1>1. Inv => FailsForAReason
  BY DEF Inv
<1> QED
  BY <1>1, SpecInv, PTL

-----------------------------------------------------------------------------
(* Nobody waits for nothing.                                                 *)

\* A frame that is there as a whole is seen, or refused.
LEMMA WholeFrameIsSeen ==
  ASSUME NEW c \in Calls, ~TooLarge(c)
  PROVE  HasFrame(Frame(c))
<1> DEFINE H == Len(Header(c))
           A == Len(Args(c))
           b == Frame(c)
<1>1. /\ b \in Text /\ <<>> \in Text /\ b \o <<>> = b
      /\ Len(b) = SizeUnits + H + A /\ H \in 1 .. MaxSize /\ A \in Nat
      /\ Header(c) \in Text /\ Args(c) \in Text
  BY FrameIsText, EmptyTexts
<1>2. SizeUnits \in Nat \ {0} /\ MaxSize \in Nat /\ H \in 0 .. MaxSize
  BY <1>1, CodecAssumption
<1>3. LengthText(H) \in Text /\ Len(LengthText(H)) = SizeUnits
  BY <1>2, LengthIsText
<1>4. /\ SubSeq(b, 1, SizeUnits) = LengthText(H)
      /\ SubSeq(b, SizeUnits + 1, SizeUnits + H) = Header(c)
  <2>1. /\ LengthText(H) \in Seq(Symbol) /\ Header(c) \in Seq(Symbol)
        /\ Args(c) \in Seq(Symbol)
    BY <1>1, <1>3 DEF Text
  <2> QED
    BY <1>3, <2>1, ThreePieces DEF Frame
<1>5. SizeOf(b) = H
  BY <1>2, <1>4, SizeIsRead
<1>6. HeaderOf(b) = [ok |-> TRUE, target |-> Target(c), argsSize |-> A]
  BY <1>4, <1>5, CodecAssumption DEF HeaderOf
<1>7. ~Refused(b)
  BY <1>1, PrefixIsRead
<1>8. H <= MaxHeader
  BY <1>1, CodecAssumption DEF TooLarge
<1>9. Len(b) >= FrameSize(b)
  BY <1>1, <1>5, <1>6 DEF FrameSize
<1> HIDE DEF b, H, A
<1>10. HasHeader(b)
  BY <1>1, <1>2, <1>5, <1>8 DEF HasHeader, HasLength
<1> QED
  BY <1>7, <1>9, <1>10 DEF HasFrame, b

\* A frame that has arrived as a whole is not left to wait, and a reply is sent
\* as long as the caller reads.
THEOREM NobodyWaitsForNothing == Spec => []NoMutualWait
<1>1. Inv => NoMutualWait
  <2> SUFFICES ASSUME Inv, NEW c \in Calls, Known(c), ~Unanswerable(c), Waiting(c),
                      out = <<>>, toServer = <<>>, toClient = <<>>, ~shut
               PROVE  FALSE
    BY DEF NoMutualWait
  <2>1. Types /\ log # <<>> /\ Current = c /\ Busy
    BY DEF Inv, LogInv, Waiting, Current, Entry
  <2>2. CASE Idle
    BY <2>1, <2>2 DEF Idle, Busy
  <2>3. CASE Unread
    <3>1. phase # "closed" /\ buffer \in Text
      BY <2>1 DEF Busy, Types
    <3>2. buffer = Frame(c)
      <4>1. PICK rest \in Text : (buffer \o toServer) \o rest = Frame(Current) /\ rest = out
        BY <2>3, <3>1 DEF Unread
      <4> QED
        BY <2>1, <3>1, <4>1, EmptyTexts
    <3>3. ~TooLarge(c)
      BY DEF TooLarge, Unanswerable
    <3> QED
      BY <3>2, <3>3, WholeFrameIsSeen DEF Inv, NoStuckFrame
  <2>4. CASE Gone
    BY <2>1, <2>4 DEF Gone, Busy, Unanswerable
  <2>5. CASE Answered
    <3>1. /\ in \in Text /\ in \o toClient = in /\ Len(in) < want
          /\ ReplyText \in Text /\ Len(ReplyText) \in 0 .. MaxSize
      BY <2>1, <2>5, ReplyIsRead, EmptyTexts DEF Types, Answered
    <3>2. CASE phase = "size"
      <4>1. /\ LengthText(Len(ReplyText)) \in Text
            /\ Len(LengthText(Len(ReplyText))) = SizeUnits
        BY <3>1, LengthIsText
      <4>2. Len(ReplyFrame(ReplyText)) = SizeUnits + Len(ReplyText)
        BY <3>1, <4>1, EmptyTexts DEF ReplyFrame
      <4>3. want = SizeUnits /\ in = ReplyFrame(ReplyText)
        BY <2>5, <3>1, <3>2 DEF Answered
      <4> QED
        BY <3>1, <4>2, <4>3, CodecAssumption
    <3>3. CASE phase = "body"
      BY <2>5, <3>1, <3>3 DEF Answered
    <3> QED
      BY <2>5, <3>2, <3>3 DEF Answered
  <2> QED
    BY <2>2, <2>3, <2>4, <2>5 DEF Inv, StreamInv
<1> QED
  BY <1>1, SpecInv, PTL

-----------------------------------------------------------------------------
(* The connection implements RpcCalls.                                       *)

LEMMA BeginPromised ==
  ASSUME Inv, NEW c \in Calls, Begin(c) PROVE Promised!Next
BY DEF Inv, LogInv, Begin, serverVars, Entry, Promised!Next, Promised!Begin, Promised!Entry

LEMMA FailPromised ==
  ASSUME Inv, Busy, NEW outcome \in {"failed", "timeout"}, Fail(outcome), UNCHANGED serverVars
  PROVE  Promised!Next
<1>1. log # <<>> /\ log[Len(log)].outcome = "pending"
  BY DEF Inv, LogInv, Busy
<1> QED
  BY <1>1 DEF Fail, Settle, Entry, Current, serverVars, Promised!Next, Promised!Fail,
              Promised!Pending, Promised!Settle, Promised!Entry

\* The reply that is read is the answer to the call that waits for it, and the
\* call has been executed.
LEMMA FinishPromised ==
  ASSUME Inv, Answered, Finish(ReplyText, <<>>), UNCHANGED serverVars
  PROVE  Promised!Next
<1> DEFINE read == ReadReply(Current, ReplyText)
<1>1. Types /\ Busy /\ log # <<>> /\ log[Len(log)].outcome = "pending"
  BY DEF Inv, LogInv, Busy, Answered
<1>2. CASE Fail("failed")
  BY <1>1, <1>2, FailPromised
<1>3. CASE read.ok /\ Settle("ok", <<read.response>>)
  <2>1. read.response = Response(Target(Current), Request(Current))
    BY <1>1, <1>3, ReplyIsRead
  <2>2. Len(served) = Len(log) /\ served' = served
    BY DEF Answered, serverVars
  <2>3. log' = [log EXCEPT ![Len(log)] =
                  Entry(Current, "ok", <<Response(Target(Current), Request(Current))>>)]
    BY <1>3, <2>1 DEF Settle
  <2>4. Promised!Succeed
    BY <1>1, <2>2, <2>3 DEF Entry, Current, Promised!Succeed, Promised!Pending,
                            Promised!Settle, Promised!Entry
  <2> QED
    BY <2>4 DEF Promised!Next
<1> QED
  BY <1>2, <1>3 DEF Finish

LEMMA ReceivePromised ==
  ASSUME Inv, NEW k \in 1 .. Len(toClient), RecvAll(k)
  PROVE  Promised!Next \/ UNCHANGED <<log, served>>
<1>1. /\ Answered /\ Busy /\ UNCHANGED serverVars
      /\ \/ RecvPart(k)
         \/ Len(ReplyText) > MaxReply /\ Fail("failed")
         \/ Finish(ReplyText, <<>>)
         \/ UNCHANGED log
  BY WhatIsReceived
<1>2. RecvPart(k) => UNCHANGED log
  BY DEF RecvPart
<1>3. UNCHANGED served
  BY <1>1 DEF serverVars
<1> QED
  BY <1>1, <1>2, <1>3, FailPromised, FinishPromised

\* What the provider executes is what the caller of the last call passed.
LEMMA ArrivePromised ==
  ASSUME Inv, NEW k \in 1 .. Len(toServer), Arrive(k)
  PROVE  Promised!Next \/ UNCHANGED <<log, served>>
<1> DEFINE b == buffer \o SubSeq(toServer, 1, k)
<1>1. Unread /\ Types /\ log' = log /\ OnMessage(b)
  BY WhatArrives DEF Arrive, clientVars
<1>2. CASE /\ CanServe(b) /\ buffer' = AfterFrame(b)
           /\ served' = Append(served, [target |-> HeaderOf(b).target,
                                        request |-> ArgsOf(b).request])
  <2>1. /\ Known(Current) /\ HeaderOf(b).target = Target(Current)
        /\ ArgsOf(b).request = Request(Current)
    BY <1>2, FrameTaken DEF CanServe
  <2>2. /\ Len(served) < Len(log) /\ Len(served) + 1 = Len(log)
    BY <1>1, LastCall DEF Unread
  <2>3. served' = Append(served, [target |-> Target(Current), request |-> Request(Current)])
    BY <1>2, <2>1
  <2>4. Promised!Serve
    BY <1>1, <2>1, <2>2, <2>3 DEF Promised!Serve, Promised!Asked, Current, Known
  <2> QED
    BY <2>4 DEF Promised!Next
<1> QED
  BY <1>1, <1>2 DEF OnMessage

\* A connection between a channel and a provider keeps the promises of RpcCalls:
\* a call is executed at most once, on what its caller passed, and one that
\* succeeds was executed and returns the service's answer to it.
THEOREM ConnectionKeepsPromises == Spec => KeepsPromises
<1>1. Init => Promised!Init
  BY DEF Init, Promised!Init
<1>2. Inv /\ [Next]_vars => [Promised!Next]_(Promised!vars)
  <2> SUFFICES ASSUME Inv, [Next]_vars PROVE Promised!Next \/ UNCHANGED <<log, served>>
    BY DEF Promised!vars
  <2>1. ASSUME NEW c \in Calls, Begin(c) PROVE Promised!Next
    BY <2>1, BeginPromised
  <2>2. ASSUME NEW k \in 1 .. Len(out), SendAll(k) PROVE UNCHANGED <<log, served>>
    BY <2>2 DEF SendAll, serverVars
  <2>3. CASE RecvEnd \/ TimeOut
    BY <2>3, FailPromised DEF RecvEnd, TimeOut, Busy
  <2>4. CASE UNCHANGED vars
    BY <2>4 DEF vars, clientVars, serverVars
  <2> QED
    BY <2>1, <2>2, <2>3, <2>4, ReceivePromised, ArrivePromised
       DEF Next, Send, Receive, Deliver
<1> QED
  BY <1>1, <1>2, SpecInv, PTL DEF Spec, KeepsPromises, Promised!Spec

-----------------------------------------------------------------------------
(* The connection implements MessageConnection.                              *)

Seen == <<StageSeen, PlaceSeen, CallSeen, RequestSeen, ReplySeen>>

\* What is seen between calls and after CloseConnection.
LEMMA SeenAtRest ==
  /\ phase = "idle" => /\ PlaceSeen = "idle" /\ CallSeen = 0
                       /\ RequestSeen = <<>> /\ ReplySeen = <<>>
  /\ phase = "closed" => Seen = <<"closed", "idle", 0, <<>>, <<>>>>
BY DEF Seen, StageSeen, PlaceSeen, CallSeen, RequestSeen, ReplySeen

\* What is seen of a call.
LEMMA SeenOfCall ==
  ASSUME Busy
  PROVE  /\ StageSeen = IF shut THEN "shut" ELSE "open"
         /\ PlaceSeen = IF phase = "sending" THEN "send" ELSE phase
         /\ CallSeen = Len(log)
         /\ phase = "sending" => RequestSeen = <<>> /\ ReplySeen = <<>>
         /\ phase = "size" =>
              /\ RequestSeen = IF ~shut /\ buffer \o toServer # <<>>
                                 THEN <<Len(log)>> ELSE <<>>
              /\ ReplySeen = IF in \o toClient # <<>>
                               THEN << <<"size", Len(log)>>, <<"body", Len(log)>> >> ELSE <<>>
         /\ phase = "body" => RequestSeen = <<>> /\ ReplySeen = << <<"body", Len(log)>> >>
BY DEF Busy, StageSeen, PlaceSeen, CallSeen, RequestSeen, ReplySeen

LEMMA BeginSeen ==
  ASSUME Inv, NEW c \in Calls, Begin(c)
  PROVE  InMessages!Next
<1>1. /\ Types /\ Len(log) \in Nat /\ Len(log) < MaxCalls /\ MaxCalls \in Nat
  BY LenProperties, CodecAssumption DEF Inv, Types, Begin
<1>2. Len(log') = Len(log) + 1
  BY <1>1, LenProperties DEF Begin
<1>3. Len(log) + 1 \in 1 .. MaxCalls
  BY <1>1
<1>4. /\ PlaceSeen = "idle" /\ CallSeen = 0 /\ RequestSeen = <<>> /\ ReplySeen = <<>>
      /\ StageSeen = IF shut THEN "shut" ELSE "open"
  BY SeenAtRest DEF Begin, StageSeen
<1>5. /\ PlaceSeen' = "send" /\ CallSeen' = Len(log) + 1
      /\ RequestSeen' = <<>> /\ ReplySeen' = <<>>
      /\ StageSeen' = IF shut THEN "shut" ELSE "open"
  BY <1>2 DEF Begin, serverVars, StageSeen, PlaceSeen, CallSeen, RequestSeen, ReplySeen
<1>6. InMessages!Begin(Len(log) + 1)
  BY <1>4, <1>5 DEF InMessages!Begin, InMessages!Use
<1> QED
  BY <1>3, <1>6 DEF InMessages!Next

\* The request is under way once its last unit is sent.
LEMMA SendSeen ==
  ASSUME Inv, NEW k \in 1 .. Len(out), SendAll(k)
  PROVE  InMessages!Next \/ UNCHANGED Seen
<1>1. /\ Inv' /\ Unread /\ Busy /\ phase = "sending"
      /\ in = <<>> /\ toClient = <<>>
      /\ UNCHANGED <<in, log, toClient, buffer, shut>>
  BY SendAllStep
     DEF Inv, StreamInv, SendAll, Idle, Gone, Answered, serverVars, Unread, Busy
<1>2. CASE phase' = "sending"
  BY <1>1, <1>2 DEF Seen, StageSeen, PlaceSeen, CallSeen, RequestSeen, ReplySeen
<1>3. CASE phase' = "size"
  <2>1. Busy' /\ Types' /\ Unread' /\ out' = <<>> /\ Current' \in Calls
    <3>1. Busy' /\ Types' /\ StreamInv' /\ log' # <<>>
      BY <1>1, <1>3 DEF Busy, Inv, Unread
    <3>2. Len(served) = Len(log) - 1 /\ served' = served /\ log' = log
      BY <1>1 DEF Unread, SendAll, serverVars
    <3>3. Unread'
      <4>1. CASE Gone'
        <5>1. buffer' \o toServer' = <<>> /\ toServer' = <<>>
          BY <4>1, EmptyTexts DEF Gone, Drained
        <5>2. /\ toServer \in Text /\ out \in Text /\ Len(out) \in Nat
          BY <1>1, EmptyTexts DEF Inv, Types
        <5>3. SubSeq(out, 1, k) \in Text /\ Len(SubSeq(out, 1, k)) = k
          BY <5>2, CutText DEF Text
        <5>4. toServer' = toServer \o SubSeq(out, 1, k)
          BY DEF SendAll
        <5> QED
          BY <5>1, <5>2, <5>3, <5>4, EmptyTexts
      <4>2. CASE Answered'
        BY <3>2, <4>2, <1>1, LastCall DEF Answered, Inv, Unread
      <4>3. CASE Idle'
        BY <1>3, <4>3 DEF Idle
      <4> QED
        BY <3>1, <4>1, <4>2, <4>3 DEF StreamInv
    <3>4. Current \in Calls /\ Current' = Current
      BY <1>1, LastCall DEF Inv, Unread, Current
    <3> QED
      BY <1>3, <3>1, <3>3, <3>4 DEF Unread
  <2>2. buffer' \o toServer' # <<>>
    <3>1. PICK rest \in Text : (buffer' \o toServer') \o rest = Frame(Current') /\ rest = <<>>
      BY <1>3, <2>1 DEF Unread, Frame
    <3>2. buffer' \o toServer' \in Text /\ Frame(Current') # <<>>
      BY <2>1, EmptyTexts, FrameIsText DEF Types
    <3> QED
      BY <3>1, <3>2, EmptyTexts
  <2>3. /\ StageSeen = IF shut THEN "shut" ELSE "open"
        /\ PlaceSeen = "send" /\ CallSeen = Len(log)
        /\ RequestSeen = <<>> /\ ReplySeen = <<>>
    BY <1>1, SeenOfCall
  <2>4. /\ StageSeen' = IF shut THEN "shut" ELSE "open"
        /\ PlaceSeen' = "size" /\ CallSeen' = Len(log)
        /\ RequestSeen' = IF shut THEN <<>> ELSE <<Len(log)>>
        /\ ReplySeen' = <<>>
    <3>1. in' \o toClient' = <<>>
      BY <1>1, EmptyTexts
    <3> QED
      BY <1>1, <1>3, <2>2, <3>1
         DEF StageSeen, PlaceSeen, CallSeen, RequestSeen, ReplySeen
  <2>5. InMessages!Send
    BY <2>3, <2>4 DEF InMessages!Send
  <2> QED
    BY <2>5 DEF InMessages!Next
<1> QED
  BY <1>1, <1>2, <1>3 DEF SendAll

LEMMA FailSeen ==
  ASSUME Inv, Busy, NEW outcome, Fail(outcome)
  PROVE  InMessages!Next
<1>1. StageSeen # "closed"
  BY SeenOfCall DEF Busy
<1>2. Seen' = <<"closed", "idle", 0, <<>>, <<>>>>
  BY DEF Fail, CloseConnection, Seen, StageSeen, PlaceSeen, CallSeen, RequestSeen, ReplySeen
<1>3. InMessages!Close
  BY <1>1, <1>2 DEF Seen, InMessages!Close
<1> QED
  BY <1>3 DEF InMessages!Next

\* What a call that reads its reply sees.
LEMMA ReplyIsSeen ==
  ASSUME Types, Answered
  PROVE  /\ Busy /\ StageSeen # "closed" /\ PlaceSeen = phase /\ CallSeen = Len(log)
         /\ RequestSeen = <<>>
         /\ phase = "size" =>
              /\ in \o toClient # <<>>
              /\ ReplySeen = << <<"size", Len(log)>>, <<"body", Len(log)>> >>
         /\ phase = "body" => ReplySeen = << <<"body", Len(log)>> >>
<1>1. Busy /\ phase \in {"size", "body"}
  BY DEF Answered, Busy
<1>2. buffer \o toServer = <<>>
  BY EmptyTexts DEF Answered, Drained
<1>3. ASSUME phase = "size" PROVE in \o toClient # <<>>
  <2>1. ReplyText \in Text /\ Len(ReplyText) \in 0 .. MaxSize
    BY ReplyIsRead
  <2>2. /\ LengthText(Len(ReplyText)) \in Text
        /\ Len(LengthText(Len(ReplyText))) = SizeUnits
    BY <2>1, LengthIsText
  <2>3. LengthText(Len(ReplyText)) # <<>>
    BY <2>2, CodecAssumption, EmptyTexts
  <2> QED
    BY <1>3, <2>1, <2>2, <2>3, EmptyTexts DEF Answered, ReplyFrame
<1> QED
  BY <1>1, <1>2, <1>3, SeenOfCall

LEMMA ReceiveSeen ==
  ASSUME Inv, NEW k \in 1 .. Len(toClient), RecvAll(k)
  PROVE  InMessages!Next \/ UNCHANGED Seen
<1>1. /\ Types /\ Answered /\ Busy /\ UNCHANGED serverVars /\ UNCHANGED toServer
      /\ Got(k) \o Rest(k) = in \o toClient
      /\ \/ RecvPart(k)
         \/ Fail("failed")
         \/ Finish(ReplyText, <<>>)
         \/ /\ phase = "size" /\ Len(ReplyText) \in 1 .. MaxReply
            /\ phase' = "body" /\ UNCHANGED log
  BY WhatIsReceived
<1>2. UNCHANGED <<buffer, shut>>
  BY <1>1 DEF serverVars
<1>3. CASE RecvPart(k)
  <2>1. in' \o toClient' = in \o toClient /\ UNCHANGED <<phase, log>>
    BY <1>1, <1>3 DEF RecvPart
  <2> QED
    BY <1>1, <1>2, <2>1 DEF Seen, StageSeen, PlaceSeen, CallSeen, RequestSeen, ReplySeen
<1>4. CASE Fail("failed")
  BY <1>1, <1>4, FailSeen
<1>5. CASE Finish(ReplyText, <<>>) /\ ~Fail("failed")
  <2>1. CASE phase' = "idle" /\ clientLong
    <3>1. /\ StageSeen' = StageSeen /\ PlaceSeen' = "idle" /\ CallSeen' = 0
          /\ RequestSeen' = <<>> /\ ReplySeen' = <<>>
      BY <1>1, <1>2, <2>1 DEF Busy, StageSeen, PlaceSeen, CallSeen, RequestSeen, ReplySeen
    <3>2. InMessages!RecvAll
      BY <1>1, <3>1, ReplyIsSeen DEF Answered, InMessages!RecvAll, InMessages!ReplyTo
    <3> QED
      BY <3>2 DEF InMessages!Next
  <2>2. CASE CloseConnection
    <3>1. Seen' = <<"closed", "idle", 0, <<>>, <<>>>>
      BY <2>2 DEF CloseConnection, Seen, StageSeen, PlaceSeen, CallSeen, RequestSeen, ReplySeen
    <3>2. InMessages!Close
      BY <1>1, <3>1, ReplyIsSeen DEF Seen, InMessages!Close
    <3> QED
      BY <3>2 DEF InMessages!Next
  <2> QED
    BY <1>5, <2>1, <2>2 DEF Finish
<1>6. CASE phase = "size" /\ phase' = "body" /\ UNCHANGED log
  <2>1. /\ StageSeen' = StageSeen /\ PlaceSeen' = "body" /\ CallSeen' = CallSeen
        /\ RequestSeen' = <<>> /\ ReplySeen' = << <<"body", Len(log)>> >>
    BY <1>2, <1>6 DEF StageSeen, PlaceSeen, CallSeen, RequestSeen, ReplySeen
  <2>2. InMessages!RecvSize
    <3>1. /\ PlaceSeen = "size" /\ CallSeen = Len(log) /\ RequestSeen = <<>>
          /\ ReplySeen = << <<"size", Len(log)>>, <<"body", Len(log)>> >>
      BY <1>1, <1>6, ReplyIsSeen
    <3>2. ReplySeen = InMessages!ReplyTo(CallSeen)
      BY <3>1 DEF InMessages!ReplyTo
    <3>3. ReplySeen' = Tail(ReplySeen)
      BY <2>1, <3>1
    <3> QED
      BY <2>1, <3>1, <3>2, <3>3 DEF InMessages!RecvSize
  <2> QED
    BY <2>2 DEF InMessages!Next
<1> QED
  BY <1>1, <1>3, <1>4, <1>5, <1>6

LEMMA ArriveSeen ==
  ASSUME Inv, NEW k \in 1 .. Len(toServer), Arrive(k)
  PROVE  InMessages!Next \/ UNCHANGED Seen
<1> DEFINE b == buffer \o SubSeq(toServer, 1, k)
<1>1. /\ Unread /\ Types /\ OnMessage(b) /\ UNCHANGED <<phase, in, log>>
      /\ in = <<>> /\ toClient = <<>> /\ log # <<>>
      /\ phase \in {"sending", "size", "closed"} /\ in \o toClient = <<>>
  BY WhatArrives, EmptyTexts DEF Arrive, clientVars, Unread
<1>2. /\ b \o toServer' = buffer \o toServer
      /\ toServer # <<>> /\ buffer \o toServer # <<>>
  <2>1. /\ toServer \in Text /\ buffer \in Text /\ Len(toServer) \in Nat
        /\ k \in 0 .. Len(toServer) /\ toServer # <<>>
    BY <1>1, EmptyTexts DEF Types
  <2>2. /\ SubSeq(toServer, 1, k) \in Text /\ toServer' \in Text
        /\ SubSeq(toServer, 1, k) \o toServer' = toServer
    BY <2>1, CutText DEF Arrive, Text
  <2>3. b \o toServer' = buffer \o (SubSeq(toServer, 1, k) \o toServer')
    BY <2>1, <2>2, Reassociate
  <2>4. buffer \o toServer # <<>>
    BY <2>1, EmptyTexts
  <2> QED
    BY <2>1, <2>2, <2>3, <2>4
<1>3. phase \in {"sending", "size"} =>
        /\ StageSeen = (IF shut THEN "shut" ELSE "open")
        /\ PlaceSeen = (IF phase = "sending" THEN "send" ELSE "size")
        /\ CallSeen = Len(log) /\ ReplySeen = <<>>
        /\ RequestSeen = IF phase = "size" /\ ~shut THEN <<Len(log)>> ELSE <<>>
  BY <1>1, <1>2, SeenOfCall DEF Busy
<1>4. phase \in {"sending", "size"} =>
        /\ StageSeen' = (IF shut' THEN "shut" ELSE "open")
        /\ PlaceSeen' = (IF phase = "sending" THEN "send" ELSE "size")
        /\ CallSeen' = Len(log)
        /\ RequestSeen' = IF phase = "size" /\ ~shut' /\ buffer' \o toServer' # <<>>
                            THEN <<Len(log)>> ELSE <<>>
        /\ ReplySeen' = IF phase = "size" /\ in' \o toClient' # <<>>
                          THEN << <<"size", Len(log)>>, <<"body", Len(log)>> >> ELSE <<>>
  BY <1>1 DEF StageSeen, PlaceSeen, CallSeen, RequestSeen, ReplySeen
<1>5. CASE phase = "closed"
  BY <1>1, <1>5 DEF Seen, StageSeen, PlaceSeen, CallSeen, RequestSeen, ReplySeen
<1>6. ASSUME phase # "closed", UNCHANGED toClient,
             shut' = shut, buffer' = b
      PROVE  UNCHANGED Seen
  <2>1. phase \in {"sending", "size"} /\ in' \o toClient' = <<>>
    BY <1>1, <1>6
  <2>2. buffer' \o toServer' # <<>>
    BY <1>2, <1>6
  <2> QED
    BY <1>3, <1>4, <1>6, <2>1, <2>2 DEF Seen
<1>7. ASSUME phase # "closed", UNCHANGED toClient, ~shut, shut'
      PROVE  InMessages!Next
  <2>1. phase \in {"sending", "size"} /\ in' \o toClient' = <<>>
    BY <1>1, <1>7
  <2>2. InMessages!HangUp
    BY <1>3, <1>4, <1>7, <2>1 DEF InMessages!HangUp
  <2> QED
    BY <2>2 DEF InMessages!Next
<1>8. CASE Refused(b) /\ buffer' = b /\ shut' = TRUE /\ UNCHANGED toClient
  BY <1>1, <1>5, <1>6, <1>7, <1>8 DEF Types
<1>9. CASE ~HasFrame(b) /\ buffer' = b /\ UNCHANGED <<shut, toClient>>
  BY <1>5, <1>6, <1>9
<1>10. ASSUME HasFrame(b), buffer' = AfterFrame(b)
       PROVE  /\ phase \in {"size", "closed"} /\ (CanServe(b) <=> Known(Current))
              /\ phase = "size" => RequestSeen' = <<>>
              /\ CanServe(b) => /\ HeaderOf(b).target = Target(Current)
                                /\ ArgsOf(b).request = Request(Current)
                                /\ Current \in Calls
  <2>1. /\ Drained' /\ phase \in {"size", "closed"} /\ (CanServe(b) <=> Known(Current))
        /\ CanServe(b) => /\ HeaderOf(b).target = Target(Current)
                          /\ ArgsOf(b).request = Request(Current)
        /\ Current \in Calls
    BY <1>10, FrameTaken DEF b
  <2>2. buffer' \o toServer' = <<>>
    BY <2>1, EmptyTexts DEF Drained
  <2> QED
    BY <1>4, <2>1, <2>2
<1>11. CASE HasFrame(b) /\ buffer' = AfterFrame(b) /\ UNCHANGED <<shut, toClient>>
  <2>1. phase \in {"size", "closed"} /\ (phase = "size" => RequestSeen' = <<>>)
    BY <1>10, <1>11
  <2>2. in' \o toClient' = <<>>
    BY <1>1, <1>11
  <2>3. CASE phase = "size" /\ ~shut
    <3>1. RequestSeen = <<Len(log)>> /\ <<Len(log)>> # <<>>
      BY <1>3, <2>3
    <3>2. InMessages!KeepSilent
      BY <1>3, <1>4, <1>11, <2>1, <2>2, <2>3, <3>1 DEF InMessages!KeepSilent
    <3> QED
      BY <3>2 DEF InMessages!Next
  <2>4. CASE phase = "size" /\ shut
    BY <1>3, <1>4, <1>11, <2>1, <2>2, <2>4 DEF Seen
  <2> QED
    BY <1>5, <2>1, <2>3, <2>4
<1>12. CASE /\ CanServe(b) /\ buffer' = AfterFrame(b)
            /\ SendRpcResponse(Reply(HeaderOf(b).target, ArgsOf(b).request))
  <2> DEFINE reply == Reply(Target(Current), Request(Current))
  <2>1. /\ phase \in {"size", "closed"} /\ (phase = "size" => RequestSeen' = <<>>)
        /\ Current \in Calls /\ Known(Current)
        /\ SendRpcResponse(reply)
    BY <1>10, <1>12 DEF CanServe
  <2>2. reply.ok \in BOOLEAN
    BY <2>1, CodecAssumption
  <2>3. CASE phase = "size" /\ shut
    <3>1. toClient' = toClient /\ shut' = TRUE /\ in' \o toClient' = <<>>
      BY <1>1, <2>1, <2>3 DEF SendRpcResponse
    <3> QED
      BY <1>3, <1>4, <2>1, <2>3, <3>1 DEF Seen
  <2>4. CASE phase = "size" /\ ~shut /\ reply.ok
    <3>1. ReplyFrame(reply.text) \in Text /\ ReplyFrame(reply.text) # <<>>
      <4>1. reply.text \in Seq(Unit) /\ Len(reply.text) <= MaxSize
        BY <2>1, <2>4, CodecAssumption
      <4>2. reply.text \in Text /\ Len(reply.text) \in 0 .. MaxSize
        BY <4>1, SeqMonotonic, LenProperties, CodecAssumption DEF Text, Symbol
      <4>3. /\ LengthText(Len(reply.text)) \in Text
            /\ Len(LengthText(Len(reply.text))) = SizeUnits
        BY <4>2, LengthIsText
      <4>4. LengthText(Len(reply.text)) # <<>>
        BY <4>3, CodecAssumption, EmptyTexts
      <4> QED
        BY <4>2, <4>3, <4>4, EmptyTexts DEF ReplyFrame
    <3>2. toClient' = toClient \o ReplyFrame(reply.text)
      BY <2>1, <2>4 DEF SendRpcResponse
    <3>3. in' \o toClient' # <<>>
      BY <1>1, <3>1, <3>2, EmptyTexts
    <3>4. InMessages!Answer
      BY <1>3, <1>4, <2>1, <2>4, <3>3 DEF InMessages!Answer, InMessages!ReplyTo
    <3> QED
      BY <3>4 DEF InMessages!Next
  <2>5. CASE phase = "size" /\ ~shut /\ ~reply.ok
    <3>1. toClient' = toClient /\ shut' = ~serverLong
      BY <2>1, <2>5 DEF SendRpcResponse
    <3>2. CASE shut'
      BY <1>7, <2>5, <3>1, <3>2
    <3>3. CASE ~shut'
      <4>1. in' \o toClient' = <<>>
        BY <1>1, <3>1
      <4>2. RequestSeen = <<Len(log)>> /\ <<Len(log)>> # <<>>
        BY <1>3, <2>5
      <4>3. InMessages!KeepSilent
        BY <1>3, <1>4, <2>1, <2>5, <3>3, <4>1, <4>2 DEF InMessages!KeepSilent
      <4> QED
        BY <4>3 DEF InMessages!Next
    <3> QED
      BY <3>2, <3>3
  <2> HIDE DEF reply
  <2> QED
    BY <1>5, <2>1, <2>2, <2>3, <2>4, <2>5
<1> HIDE DEF b
<1> QED
  BY <1>1, <1>8, <1>9, <1>11, <1>12 DEF OnMessage

\* A connection between a channel and a provider is one of whole messages: each
\* step of the stream is a step of MessageConnection or leaves it as it is.
THEOREM StreamKeepsMessages == Spec => KeepsMessages
<1>1. Init => InMessages!Init
  BY DEF Init, InMessages!Init, StageSeen, PlaceSeen, CallSeen, RequestSeen, ReplySeen
<1>2. Inv /\ [Next]_vars => [InMessages!Next]_(InMessages!vars)
  <2> SUFFICES ASSUME Inv, [Next]_vars PROVE InMessages!Next \/ UNCHANGED Seen
    BY DEF InMessages!vars, Seen
  <2>1. ASSUME NEW c \in Calls, Begin(c) PROVE InMessages!Next
    BY <2>1, BeginSeen
  <2>2. CASE RecvEnd \/ TimeOut
    BY <2>2, FailSeen DEF RecvEnd, TimeOut, Busy
  <2>3. CASE UNCHANGED vars
    BY <2>3 DEF vars, clientVars, serverVars, Seen, StageSeen, PlaceSeen, CallSeen,
                RequestSeen, ReplySeen
  <2> QED
    BY <2>1, <2>2, <2>3, SendSeen, ReceiveSeen, ArriveSeen DEF Next, Send, Receive, Deliver
<1> QED
  BY <1>1, <1>2, SpecInv, PTL DEF Spec, KeepsMessages, InMessages!Spec
=============================================================================

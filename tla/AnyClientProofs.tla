--------------------------- MODULE AnyClientProofs ---------------------------
(***************************************************************************)
(* Proofs about the agent's side of a connection: what it does for a       *)
(* client, and in which order it answers, whatever the client sends, with  *)
(* or without a key, and for any number of requests and of pushed records. *)
(***************************************************************************)
EXTENDS AnyClient, SequenceTheorems, TLAPS

(* What is sent. *)

Commands == {ask[1] : ask \in Asks}
Args == {ask[2] : ask \in Asks}
Errors == {"", "failed", "handshakeRequired", authRequired, "unsupportedCommand",
           "unsupportedIPCVersion", "duplicateHandshake", "invalidAuthToken"}

Wish == {[command |-> ask[1], arg |-> ask[2]] : ask \in Asks}
Frame == [frame : {"header", "body"}, command : Commands, seq : Nat, arg : Args \cup {"none"}]
Answer == [frame : {"header", "body"}, seq : Nat, error : Errors \cup {"answer", "record", "done"}]

\* A header that the body of its request follows.
HasMore(x) == x.frame = "header" /\ x.command \notin Bodiless

\* A frame of one of the requests a.
Sent(x, a) ==
    /\ x.seq \in DOMAIN a
    /\ \/ x = Header(a[x.seq].command, x.seq)
       \/ /\ a[x.seq].command \notin Bodiless
          /\ x = Body(a[x.seq].command, x.seq, a[x.seq].arg)

\* What is sent after it.
Follows(x, y) == IF HasMore(x) THEN y.frame = "body" /\ y.seq = x.seq
                               ELSE y.frame = "header" /\ y.seq = x.seq + 1

\* The last requests of a, one after the other, the first perhaps without
\* its header.
Queue(q, a) ==
    /\ \A i \in DOMAIN q : Sent(q[i], a)
    /\ \A i \in DOMAIN q : i < Len(q) => Follows(q[i], q[i + 1])
    /\ q # <<>> => ~ HasMore(q[Len(q)]) /\ q[Len(q)].seq = Len(a)

\* The first of them, or the next one to be asked.
First(q, a) == IF q = <<>> THEN Len(a) + 1 ELSE Head(q).seq

\* Its header is gone already.
Beheaded(q) == q # <<>> /\ Head(q).frame = "body"

-----------------------------------------------------------------------------
(* The inductive invariant. *)

Types ==
    /\ requests \in Seq(Frame)
    /\ responses \in Seq(Answer)
    /\ asked \in Seq(Wish)
    /\ link \subseteq {"agent"}

\* The next request to be answered.
Upcoming == First(requests, asked)

\* It is without its header if that was refused for want of a key.
Refused ==
    Beheaded(requests) =>
        /\ Guarded /\ ~ didAuth /\ version # 0
        /\ reqHeader = Header(asked[Upcoming].command, Upcoming)
        /\ reqHeader.command \notin {"handshake", "auth"}

\* What was answered: requests before the next one, or the refused one.
Earlier ==
    \A i \in Answers :
        \/ responses[i].seq < Upcoming
        \/ /\ Beheaded(requests)
           /\ responses[i].seq = Upcoming /\ responses[i].error = authRequired

\* Before request n there was a handshake, and a key after it.
Greeted(n) == \E j \in 1..n - 1 : asked[j] = [command |-> "handshake", arg |-> "supported"]
Keyed(n) == \E j, k \in 1..n - 1 : /\ j < k
                                   /\ asked[j] = [command |-> "handshake", arg |-> "supported"]
                                   /\ asked[k] = [command |-> "auth", arg |-> "right"]

\* What the session knows of its client it was told before.
Told == /\ version # 0 => Greeted(Upcoming)
        /\ didAuth => Keyed(Upcoming)

\* Answers are about requests.
Asked == \A i \in Answers : responses[i].seq \in DOMAIN asked

Inv ==
    /\ Types /\ Asked /\ AnswersInOrder /\ NothingUnauthorised
    /\ link = {} => Queue(requests, asked) /\ Refused /\ Earlier /\ Told

-----------------------------------------------------------------------------
(* The queue of requests. *)

\* The first frame, and what is left without it.
LEMMA FirstFrame ==
  ASSUME NEW a \in Seq(Wish), NEW q \in Seq(Frame), q # <<>>, Queue(q, a)
  PROVE  /\ Head(q) \in Frame /\ Sent(Head(q), a) /\ First(q, a) = Head(q).seq
         /\ Head(q).seq \in DOMAIN a /\ Head(q).command = a[Head(q).seq].command
         /\ Tail(q) \in Seq(Frame) /\ Queue(Tail(q), a)
  <1>1. /\ Head(q) = q[1] /\ Head(q) \in Frame /\ 1 \in DOMAIN q /\ Len(q) \in Nat /\ Len(q) >= 1
        /\ DOMAIN q = 1..Len(q) /\ Tail(q) \in Seq(Frame) /\ Len(Tail(q)) = Len(q) - 1
        /\ DOMAIN Tail(q) = 1..Len(q) - 1
    BY EmptySeq, LenProperties, HeadTailProperties
  <1>2. \A i \in DOMAIN Tail(q) : i + 1 \in DOMAIN q /\ Tail(q)[i] = q[i + 1]
    BY <1>1, HeadTailProperties
  <1>3. Sent(Head(q), a)
    BY <1>1 DEF Queue
  <1>4. Head(q).seq \in DOMAIN a /\ Head(q).command = a[Head(q).seq].command
    BY <1>3 DEF Sent, Header, Body
  <1>5. Queue(Tail(q), a)
    <2>1. \A i \in DOMAIN Tail(q) : Sent(Tail(q)[i], a)
      BY <1>2 DEF Queue
    <2>2. ASSUME NEW i \in DOMAIN Tail(q), i < Len(Tail(q)) PROVE Follows(Tail(q)[i], Tail(q)[i + 1])
      <3>1. /\ i \in Nat /\ i + 1 \in DOMAIN Tail(q) /\ i + 1 \in DOMAIN q /\ i + 1 < Len(q)
        BY <1>1, <2>2
      <3>2. Tail(q)[i] = q[i + 1] /\ Tail(q)[i + 1] = q[(i + 1) + 1]
        BY <1>2, <3>1
      <3> QED BY <3>1, <3>2 DEF Queue
    <2>3. ASSUME Tail(q) # <<>> PROVE Tail(q)[Len(Tail(q))] = q[Len(q)]
      <3>1. Len(Tail(q)) \in DOMAIN Tail(q) /\ Len(Tail(q)) + 1 = Len(q)
        BY <1>1, <2>3, EmptySeq
      <3> QED BY <1>2, <3>1
    <2>4. Tail(q) # <<>> => ~ HasMore(Tail(q)[Len(Tail(q))]) /\ Tail(q)[Len(Tail(q))].seq = Len(a)
      BY <2>3 DEF Queue
    <2> QED BY <2>1, <2>2, <2>4 DEF Queue
  <1> QED BY <1>1, <1>3, <1>4, <1>5 DEF First

\* What follows the first frame.
LEMMA SecondFrame ==
  ASSUME NEW a \in Seq(Wish), NEW q \in Seq(Frame), q # <<>>, Queue(q, a)
  PROVE  \/ /\ Tail(q) = <<>> /\ ~ HasMore(Head(q)) /\ Head(q).seq = Len(a)
         \/ /\ Tail(q) # <<>> /\ Head(Tail(q)) = q[2]
            /\ Follows(Head(q), q[2]) /\ Sent(q[2], a)
  <1>1. /\ Head(q) = q[1] /\ 1 \in DOMAIN q /\ Len(q) \in Nat /\ Len(q) >= 1 /\ DOMAIN q = 1..Len(q)
        /\ Tail(q) \in Seq(Frame) /\ Len(Tail(q)) = Len(q) - 1
    BY EmptySeq, LenProperties, HeadTailProperties
  <1>2. CASE Len(q) = 1
    <2>1. Tail(q) = <<>>
      <3>1. Len(Tail(q)) = 0
        BY <1>1, <1>2
      <3> QED BY <1>1, <3>1, EmptySeq
    <2> QED BY <1>1, <1>2, <2>1 DEF Queue
  <1>3. CASE Len(q) > 1
    <2>1. Len(Tail(q)) >= 1 /\ 1 \in 1..Len(Tail(q))
      BY <1>1, <1>3
    <2>2. Tail(q) # <<>>
      BY <2>1, EmptySeq
    <2>3. Tail(q)[1] = q[1 + 1]
      BY <2>1, HeadTailProperties
    <2>4. 2 \in DOMAIN q /\ Head(Tail(q)) = q[2]
      BY <1>1, <1>3, <2>2, <2>3
    <2>5. \A i \in DOMAIN q : i < Len(q) => Follows(q[i], q[i + 1])
      BY DEF Queue
    <2>6. 1 \in DOMAIN q /\ 1 < Len(q) /\ 1 + 1 = 2
      BY <1>1, <1>3
    <2>7. Follows(q[1], q[2])
      BY <2>5, <2>6
    <2>8. Sent(q[2], a)
      BY <2>4 DEF Queue
    <2> QED BY <1>1, <2>2, <2>4, <2>7, <2>8
  <1> QED BY <1>1, <1>2, <1>3

\* After the header of a request with a body comes that body.
LEMMA BodyNext ==
  ASSUME NEW a \in Seq(Wish), NEW q \in Seq(Frame), q # <<>>, Queue(q, a), HasMore(Head(q))
  PROVE  /\ Tail(q) # <<>> /\ Head(Tail(q)) = q[2] /\ Beheaded(Tail(q)) /\ ~ HasMore(q[2])
         /\ First(Tail(q), a) = Head(q).seq
         /\ q[2] = Body(a[Head(q).seq].command, Head(q).seq, a[Head(q).seq].arg)
  <1>1. Tail(q) # <<>> /\ Head(Tail(q)) = q[2] /\ q[2].frame = "body" /\ q[2].seq = Head(q).seq /\ Sent(q[2], a)
    BY SecondFrame DEF Follows
  <1>2. q[2] = Body(a[Head(q).seq].command, Head(q).seq, a[Head(q).seq].arg)
    BY <1>1 DEF Sent, Header
  <1> QED BY <1>1, <1>2 DEF First, Beheaded, HasMore

\* After any other frame comes the header of the next request.
LEMMA HeaderNext ==
  ASSUME NEW a \in Seq(Wish), NEW q \in Seq(Frame), q # <<>>, Queue(q, a), ~ HasMore(Head(q))
  PROVE  First(Tail(q), a) = Head(q).seq + 1 /\ ~ Beheaded(Tail(q))
  BY SecondFrame DEF First, Beheaded, Follows

\* A request that is read as a whole.
LEMMA WholeRequest ==
  ASSUME NEW a \in Seq(Wish), NEW q \in Seq(Frame), q # <<>>, Queue(q, a), Head(q).frame = "header",
         NEW left, left = IF Head(q).command \in Bodiless THEN Tail(q) ELSE Tail(Tail(q))
  PROVE  left \in Seq(Frame) /\ Queue(left, a) /\ First(left, a) = Head(q).seq + 1 /\ ~ Beheaded(left)
  <1>1. Tail(q) \in Seq(Frame) /\ Queue(Tail(q), a)
    BY FirstFrame
  <1>2. CASE Head(q).command \in Bodiless
    BY <1>1, <1>2, HeaderNext DEF HasMore
  <1>3. CASE Head(q).command \notin Bodiless
    <2>1. /\ Tail(q) # <<>> /\ Head(Tail(q)).seq = Head(q).seq /\ ~ HasMore(Head(Tail(q)))
      BY <1>3, BodyNext DEF HasMore, First
    <2> QED BY <1>1, <1>3, <2>1, FirstFrame, HeaderNext
  <1> QED BY <1>2, <1>3

-----------------------------------------------------------------------------
(* The answers. *)

\* What a sequence is with more at its end.
LEMMA Longer ==
  ASSUME NEW S, NEW p \in Seq(S), NEW g \in Seq(S), NEW m \in Nat, m = Len(p), NEW k \in {1, 2}, k = Len(g)
  PROVE  /\ p \o g \in Seq(S) /\ Len(p \o g) = m + k /\ DOMAIN p = 1..m /\ DOMAIN (p \o g) = 1..(m + k)
         /\ \A i \in 1..m : (p \o g)[i] = p[i]
         /\ (p \o g)[m + 1] = g[1]
         /\ k = 2 => (p \o g)[m + 2] = g[2]
  <1>1. /\ p \o g \in Seq(S) /\ Len(p \o g) = m + k
        /\ \A i \in 1..(m + k) : (p \o g)[i] = IF i <= m THEN p[i] ELSE g[i - m]
    BY ConcatProperties
  <1>2. DOMAIN p = 1..m /\ DOMAIN (p \o g) = 1..(m + k)
    BY <1>1, LenProperties
  <1> DEFINE r == p \o g
  <1> HIDE DEF r
  <1>3. \A i \in 1..(m + k) : r[i] = IF i <= m THEN p[i] ELSE g[i - m]
    BY <1>1 DEF r
  <1>4. \A i \in 1..m : r[i] = p[i]
    <2>1. \A i \in 1..m : i \in 1..(m + k) /\ i <= m
      OBVIOUS
    <2> QED BY <1>3, <2>1
  <1>5. r[m + 1] = g[1]
    <2>1. m + 1 \in 1..(m + k) /\ ~ m + 1 <= m /\ (m + 1) - m = 1
      OBVIOUS
    <2> QED BY <1>3, <2>1
  <1>6. ASSUME k = 2 PROVE r[m + 2] = g[2]
    <2>1. m + 2 \in 1..(m + k) /\ ~ m + 2 <= m /\ (m + 2) - m = 2
      BY <1>6
    <2> QED BY <1>3, <2>1
  <1> QED BY <1>1, <1>2, <1>4, <1>5, <1>6 DEF r

\* Two frames.
LEMMA Pair ==
  ASSUME NEW x \in Answer, NEW y \in Answer
  PROVE  /\ <<x>> \o <<y>> \in Seq(Answer) /\ Len(<<x>> \o <<y>>) = 2
         /\ (<<x>> \o <<y>>)[1] = x /\ (<<x>> \o <<y>>)[2] = y
  OBVIOUS

\* Answers among frames, and what becomes of them as a header is sent, and
\* perhaps a body with it.
AnswersIn(r) == {i \in DOMAIN r : /\ r[i].frame = "header"
                                  /\ i < Len(r) => r[i + 1].error \notin {"record", "done"}}

\* With a header the sequence has one more answer, unless a record follows it.
LEMMA OneMore ==
  ASSUME NEW p \in Seq(Answer), NEW r \in Seq(Answer), NEW m \in Nat, Len(p) = m, DOMAIN p = 1..m,
         \A i \in 1..m : r[i] = p[i],
         r[m + 1].frame = "header", r[m + 1].error \notin {"record", "done"},
         \/ Len(r) = m + 1 /\ DOMAIN r = 1..m + 1
         \/ Len(r) = m + 2 /\ DOMAIN r = 1..m + 2 /\ r[m + 2].frame = "body"
  PROVE  \/ /\ Len(r) = m + 1 \/ r[m + 2].error \notin {"record", "done"}
            /\ AnswersIn(r) = AnswersIn(p) \cup {m + 1}
         \/ /\ Len(r) # m + 1 /\ r[m + 2].error \in {"record", "done"}
            /\ AnswersIn(r) = AnswersIn(p)
  <1>1. \A i \in 1..m : i \in AnswersIn(r) <=> i \in AnswersIn(p)
    <2> TAKE i \in 1..m
    <2>1. CASE i < m
      BY <2>1 DEF AnswersIn
    <2>2. CASE i = m
      BY <2>2 DEF AnswersIn
    <2> QED BY <2>1, <2>2
  <1>2. CASE Len(r) = m + 1
    <2>1. m + 1 \in AnswersIn(r) /\ DOMAIN r = 1..m \cup {m + 1}
      BY <1>2 DEF AnswersIn
    <2> QED BY <1>1, <1>2, <2>1 DEF AnswersIn
  <1>3. CASE Len(r) = m + 2
    <2>1. DOMAIN r = 1..m \cup {m + 1, m + 2} /\ m + 2 \notin AnswersIn(r) /\ m + 2 # m + 1
      BY <1>3 DEF AnswersIn
    <2>2. m + 1 \in AnswersIn(r) <=> r[m + 2].error \notin {"record", "done"}
      BY <1>3 DEF AnswersIn
    <2> QED BY <1>1, <1>3, <2>1, <2>2 DEF AnswersIn
  <1> QED BY <1>2, <1>3

\* A header alone is an answer, and one with a body is, unless that is a record.
LEMMA Sending ==
  ASSUME NEW p \in Seq(Answer), NEW g \in Seq(Answer),
         g[1].frame = "header", g[1].error \notin {"record", "done"},
         Len(g) = 1 \/ (Len(g) = 2 /\ g[2].frame = "body")
  PROVE  /\ p \o g \in Seq(Answer) /\ (p \o g)[Len(p) + 1] = g[1]
         /\ AnswersIn(p) \subseteq 1..Len(p) /\ \A i \in 1..Len(p) : (p \o g)[i] = p[i]
         /\ Len(g) = 1 \/ g[2].error \notin {"record", "done"} =>
               AnswersIn(p \o g) = AnswersIn(p) \cup {Len(p) + 1}
         /\ Len(g) = 2 /\ g[2].error \in {"record", "done"} => AnswersIn(p \o g) = AnswersIn(p)
  <1>1. PICK k \in {1, 2} : k = Len(g)
    OBVIOUS
  <1>2. PICK m \in Nat : m = Len(p)
    BY LenProperties
  <1>3. /\ p \o g \in Seq(Answer) /\ Len(p \o g) = m + k /\ DOMAIN p = 1..m /\ DOMAIN (p \o g) = 1..(m + k)
        /\ (p \o g)[m + 1] = g[1] /\ (k = 2 => (p \o g)[m + 2] = g[2]) /\ \A i \in 1..m : (p \o g)[i] = p[i]
    BY <1>1, <1>2, Longer
  <1> DEFINE r == p \o g
  <1> HIDE DEF r
  <1>4. /\ Len(p) = m /\ r \in Seq(Answer) /\ r[m + 1].frame = "header" /\ r[m + 1].error \notin {"record", "done"}
        /\ DOMAIN p = 1..m /\ \A i \in 1..m : r[i] = p[i]
        /\ \/ Len(r) = m + 1 /\ DOMAIN r = 1..m + 1
           \/ Len(r) = m + 2 /\ DOMAIN r = 1..m + 2 /\ r[m + 2].frame = "body"
    BY <1>1, <1>2, <1>3 DEF r
  <1>5. \/ /\ Len(r) = m + 1 \/ r[m + 2].error \notin {"record", "done"}
           /\ AnswersIn(r) = AnswersIn(p) \cup {m + 1}
        \/ /\ Len(r) # m + 1 /\ r[m + 2].error \in {"record", "done"}
           /\ AnswersIn(r) = AnswersIn(p)
    BY <1>4, OneMore, Zenon
  <1>6. m + 1 # m + 2 /\ AnswersIn(p) \subseteq 1..m
    BY <1>3 DEF AnswersIn
  <1> QED BY <1>1, <1>2, <1>3, <1>5, <1>6 DEF r

\* An answer comes after the other answers, which stay what they were.
LEMMA Answering ==
  ASSUME responses \in Seq(Answer), NEW seq \in Nat, NEW error \in Errors,
         NEW more, more = <<>> \/ more = Record(seq, "answer"),
         responses' = responses \o (Response(seq, error) \o more)
  PROVE  \E n \in Nat :
            /\ responses' \in Seq(Answer) /\ Answers' = Answers \cup {n}
            /\ responses'[n] = [frame |-> "header", seq |-> seq, error |-> error]
            /\ \A i \in Answers : i \in Nat /\ i < n /\ responses'[i] = responses[i]
  <1> DEFINE x == [frame |-> "header", seq |-> seq, error |-> error]
             y == [frame |-> "body", seq |-> seq, error |-> "answer"]
             g == Response(seq, error) \o more
  <1>1. x \in Answer /\ y \in Answer
    BY DEF Answer
  <1>2. x.frame = "header" /\ x.error \notin {"record", "done"} /\ y.frame = "body" /\ y.error \notin {"record", "done"}
    BY DEF Errors, authRequired
  <1>3. Response(seq, error) = <<x>> /\ Record(seq, "answer") = <<y>>
    BY DEF Response, Record
  <1> HIDE DEF x, y
  <1>4. g \in Seq(Answer) /\ g[1] = x /\ (Len(g) = 1 \/ (Len(g) = 2 /\ g[2] = y))
    <2>1. CASE more = <<>>
      <3>1. g = <<x>>
        BY <1>1, <1>3, <2>1
      <3> HIDE DEF g
      <3> QED BY <1>1, <3>1
    <2>2. CASE more = Record(seq, "answer")
      <3>1. g = <<x>> \o <<y>>
        BY <1>3, <2>2
      <3> QED BY <1>1, <3>1, Pair
    <2> QED BY <2>1, <2>2
  <1>5. responses' = responses \o g /\ responses' \in Seq(Answer)
    BY <1>4, ConcatProperties
  <1> HIDE DEF g
  <1>6. PICK m \in Nat : m = Len(responses)
    BY LenProperties
  <1> HIDE DEF x
  <1>7. /\ responses'[m + 1] = x
        /\ AnswersIn(responses) \subseteq 1..m /\ \A i \in 1..m : responses'[i] = responses[i]
        /\ AnswersIn(responses') = AnswersIn(responses) \cup {m + 1}
    <2>1. /\ g[1].frame = "header" /\ g[1].error \notin {"record", "done"}
          /\ Len(g) = 1 \/ (Len(g) = 2 /\ g[2].frame = "body")
          /\ Len(g) = 1 \/ g[2].error \notin {"record", "done"}
      BY <1>2, <1>4
    <2>2. /\ (responses \o g)[Len(responses) + 1] = g[1]
          /\ AnswersIn(responses) \subseteq 1..Len(responses)
          /\ \A i \in 1..Len(responses) : (responses \o g)[i] = responses[i]
          /\ AnswersIn(responses \o g) = AnswersIn(responses) \cup {Len(responses) + 1}
      BY <1>4, <2>1, Sending, Zenon
    <2> QED BY <1>4, <1>5, <1>6, <2>2
  <1>8. Answers = AnswersIn(responses) /\ Answers' = AnswersIn(responses')
    BY DEF Answers, AnswersIn
  <1>9. \A i \in 1..m : i \in Nat /\ i < m + 1
    OBVIOUS
  <1>10. \A i \in Answers : i \in Nat /\ i < m + 1 /\ responses'[i] = responses[i]
    BY <1>7, <1>8, <1>9
  <1>11. m + 1 \in Nat /\ Answers' = Answers \cup {m + 1}
    BY <1>7, <1>8
  <1> QED BY <1>5, <1>7, <1>10, <1>11 DEF x

\* A record is no answer.
LEMMA Pushing ==
  ASSUME responses \in Seq(Answer), NEW seq \in Nat, NEW type \in {"record", "done"},
         responses' = responses \o (Response(seq, "") \o Record(seq, type))
  PROVE  /\ responses' \in Seq(Answer) /\ Answers' = Answers
         /\ \A i \in Answers : responses'[i] = responses[i]
  <1> DEFINE x == [frame |-> "header", seq |-> seq, error |-> ""]
             y == [frame |-> "body", seq |-> seq, error |-> type]
             g == Response(seq, "") \o Record(seq, type)
  <1>1. x \in Answer /\ y \in Answer
    BY DEF Answer, Errors
  <1>2. x.frame = "header" /\ x.error \notin {"record", "done"} /\ y.frame = "body" /\ y.error \in {"record", "done"}
    OBVIOUS
  <1>3. Response(seq, "") = <<x>> /\ Record(seq, type) = <<y>>
    BY DEF Response, Record
  <1> HIDE DEF x, y
  <1>4. g \in Seq(Answer) /\ g[1] = x /\ Len(g) = 2 /\ g[2] = y
    <2>1. g = <<x>> \o <<y>>
      BY <1>3
    <2> HIDE DEF g
    <2> QED BY <1>1, <2>1, Pair
  <1>5. responses' = responses \o g /\ responses' \in Seq(Answer)
    BY <1>4, ConcatProperties
  <1> HIDE DEF g
  <1>6. PICK m \in Nat : m = Len(responses)
    BY LenProperties
  <1>7. /\ AnswersIn(responses) \subseteq 1..m
        /\ \A i \in 1..m : responses'[i] = responses[i]
        /\ AnswersIn(responses') = AnswersIn(responses)
    <2>1. /\ g[1].frame = "header" /\ g[1].error \notin {"record", "done"}
          /\ Len(g) = 1 \/ (Len(g) = 2 /\ g[2].frame = "body")
          /\ Len(g) = 2 /\ g[2].error \in {"record", "done"}
      BY <1>2, <1>4
    <2>2. /\ AnswersIn(responses) \subseteq 1..Len(responses)
          /\ \A i \in 1..Len(responses) : (responses \o g)[i] = responses[i]
          /\ AnswersIn(responses \o g) = AnswersIn(responses)
      BY <1>4, <2>1, Sending, Zenon
    <2> QED BY <1>5, <1>6, <2>2
  <1>8. Answers = AnswersIn(responses) /\ Answers' = AnswersIn(responses')
    BY DEF Answers, AnswersIn
  <1> QED BY <1>5, <1>7, <1>8

-----------------------------------------------------------------------------
(* Answering a request. *)

\* The invariant without what it says of a connection that goes on.
Base == Types /\ Asked /\ AnswersInOrder /\ NothingUnauthorised

\* What the handshake and the key were is known for later requests, too.
LEMMA Later ==
  ASSUME NEW n \in Nat
  PROVE  (Greeted(n) => Greeted(n + 1)) /\ (Keyed(n) => Keyed(n + 1))
  <1>1. 1..n - 1 \subseteq 1..(n + 1) - 1
    OBVIOUS
  <1> QED BY <1>1 DEF Greeted, Keyed

\* An answer to the upcoming request comes in order, and if it is that the
\* request was carried out, the client has shown its key before.
LEMMA Serving ==
  ASSUME Inv, link = {}, UNCHANGED asked, Upcoming \in DOMAIN asked,
         requests' \in Seq(Frame), link' \subseteq {"agent"},
         NEW error \in Errors, NEW more, more = <<>> \/ more = Record(Upcoming, "answer"),
         responses' = responses \o (Response(Upcoming, error) \o more),
         Beheaded(requests) => error = authRequired,
         Guarded /\ asked[Upcoming].command \notin {"handshake", "auth"}
            /\ error \notin {authRequired, "handshakeRequired"} => didAuth
  PROVE  /\ Base'
         /\ \A i \in Answers' : \/ responses'[i].seq < Upcoming
                                \/ /\ responses'[i].seq = Upcoming
                                   /\ error = authRequired => responses'[i].error = authRequired
  <1>1. /\ Types /\ Asked /\ AnswersInOrder /\ NothingUnauthorised /\ Earlier /\ Told
        /\ responses \in Seq(Answer) /\ asked \in Seq(Wish)
    BY DEF Inv, Types
  <1>2. Upcoming \in Nat /\ \A n \in DOMAIN asked : n \in Nat
    BY <1>1, LenProperties
  <1>3. PICK n \in Nat :
           /\ responses' \in Seq(Answer) /\ Answers' = Answers \cup {n}
           /\ responses'[n] = [frame |-> "header", seq |-> Upcoming, error |-> error]
           /\ \A i \in Answers : i \in Nat /\ i < n /\ responses'[i] = responses[i]
    BY <1>1, <1>2, Answering
  <1>4. responses'[n].seq = Upcoming /\ responses'[n].error = error
    BY <1>3
  <1>5. \A i \in Answers : responses[i].seq \in Nat
    BY <1>1, <1>2 DEF Asked
  <1>6. \A i \in Answers : \/ responses[i].seq < Upcoming
                           \/ /\ responses[i].seq = Upcoming /\ responses[i].error = authRequired
                              /\ error = authRequired
    BY <1>1 DEF Earlier
  <1>7. Types'
    BY <1>1, <1>3 DEF Types
  <1>8. Asked'
    BY <1>1, <1>3, <1>4 DEF Asked
  <1>9. AnswersInOrder'
    <2> SUFFICES ASSUME NEW i \in Answers', NEW j \in Answers', i < j
                 PROVE  \/ responses'[i].seq < responses'[j].seq
                        \/ /\ responses'[i].seq = responses'[j].seq
                           /\ responses'[i].error = authRequired /\ responses'[j].error = authRequired
      BY DEF AnswersInOrder
    <2>1. CASE i \in Answers /\ j \in Answers
      BY <1>1, <1>3, <2>1 DEF AnswersInOrder
    <2>2. CASE i \in Answers /\ j = n
      BY <1>3, <1>4, <1>6, <2>2
    <2>3. i # n
      <3>1. \A k \in Answers' : k \in Nat /\ ~ n < k
        BY <1>3
      <3> QED BY <3>1
    <2> QED BY <1>3, <2>1, <2>2, <2>3
  <1>10. NothingUnauthorised'
    <2> SUFFICES ASSUME Guarded, NEW i \in Answers',
                        asked[responses'[i].seq].command \notin {"handshake", "auth"},
                        responses'[i].error \notin {authRequired, "handshakeRequired"}
                 PROVE  Keyed(responses'[i].seq)
      BY DEF NothingUnauthorised, Keyed
    <2>1. CASE i \in Answers
      BY <1>1, <1>3, <2>1 DEF NothingUnauthorised, Keyed
    <2>2. CASE i = n
      BY <1>1, <1>4, <2>2 DEF Told
    <2> QED BY <1>3, <2>1, <2>2
  <1>11. \A i \in Answers' : \/ responses'[i].seq < Upcoming
                             \/ /\ responses'[i].seq = Upcoming
                                /\ error = authRequired => responses'[i].error = authRequired
    BY <1>3, <1>4, <1>6
  <1> QED BY <1>7, <1>8, <1>9, <1>10, <1>11 DEF Base

\* A request that passes the checks is the upcoming one, with its header.
LEMMA Admission ==
  ASSUME Inv, NEW command, Admitted(command)
  PROVE  /\ link = {} /\ requests # <<>> /\ Head(requests).frame = "header" /\ ~ Beheaded(requests)
         /\ Decoded = Head(requests) /\ ReqSeq = Upcoming /\ Upcoming \in DOMAIN asked
         /\ asked[Upcoming].command = command /\ Head(requests).command = command
         /\ version # 0 \/ command = "handshake"
         /\ Guarded => didAuth \/ command \in {"auth", "handshake"}
  <1>1. link = {} /\ requests # <<>> /\ Decoded.command = command
    BY DEF Admitted, Inv, Types
  <1>2. /\ requests \in Seq(Frame) /\ asked \in Seq(Wish) /\ Queue(requests, asked) /\ Refused
    BY <1>1 DEF Inv, Types
  <1>3. /\ Head(requests) \in Frame /\ Upcoming = Head(requests).seq /\ Upcoming \in DOMAIN asked
        /\ Head(requests).command = asked[Upcoming].command
    BY <1>1, <1>2, FirstFrame DEF Upcoming
  <1>4. /\ version # 0 \/ command = "handshake"
        /\ Guarded => didAuth \/ command \in {"auth", "handshake"}
    BY DEF Admitted
  <1>5. ~ Beheaded(requests)
    <2> SUFFICES ASSUME Beheaded(requests) PROVE FALSE
      OBVIOUS
    <2>1. Guarded /\ ~ didAuth /\ reqHeader.command \notin {"handshake", "auth"}
      BY <1>2 DEF Refused
    <2>2. Decoded = reqHeader
      BY DEF Decoded, Beheaded
    <2> QED BY <1>1, <1>4, <2>1, <2>2
  <1>6. Head(requests).frame = "header"
    BY <1>1, <1>3, <1>5 DEF Beheaded, Frame
  <1>7. Decoded = Head(requests)
    BY <1>6 DEF Decoded
  <1> QED BY <1>1, <1>3, <1>4, <1>5, <1>6, <1>7 DEF ReqSeq

\* A handler reads the whole request and answers it.  What the session knows
\* afterwards is what it has been told until then.
LEMMA Handling ==
  ASSUME Inv, UNCHANGED asked, NEW command, Admitted(command),
         IF command \in Bodiless THEN NoBody ELSE ReadBody,
         NEW error \in Errors, error # authRequired,
         NEW more, more = <<>> \/ more = Record(ReqSeq, "answer"),
         Send(Response(ReqSeq, error) \o more),
         link' = link \/ link' = link \cup {"agent"},
         version' # 0 => Greeted(Upcoming + 1),
         didAuth' => Keyed(Upcoming + 1)
  PROVE  Inv'
  <1>1. /\ link = {} /\ requests # <<>> /\ Head(requests).frame = "header" /\ ~ Beheaded(requests)
        /\ ReqSeq = Upcoming /\ Upcoming \in DOMAIN asked
        /\ asked[Upcoming].command = command /\ Head(requests).command = command
        /\ Guarded => didAuth \/ command \in {"auth", "handshake"}
    BY Admission
  <1>2. /\ requests \in Seq(Frame) /\ asked \in Seq(Wish) /\ Queue(requests, asked)
        /\ \A n \in DOMAIN asked : n \in Nat
    BY <1>1, LenProperties DEF Inv, Types
  <1>3. requests' = IF Head(requests).command \in Bodiless THEN Tail(requests) ELSE Tail(Tail(requests))
    BY <1>1 DEF NoBody, ReadBody
  <1>4. /\ requests' \in Seq(Frame) /\ Queue(requests', asked)
        /\ First(requests', asked) = Head(requests).seq + 1 /\ ~ Beheaded(requests')
    BY <1>1, <1>2, <1>3, WholeRequest
  <1>5. Upcoming = Head(requests).seq /\ Upcoming' = Upcoming + 1 /\ Upcoming \in Nat
    BY <1>1, <1>2, <1>4, FirstFrame DEF Upcoming
  <1>6. responses' = responses \o (Response(Upcoming, error) \o more) /\ link' \subseteq {"agent"}
    BY <1>1 DEF Send
  <1>7. /\ Base'
        /\ \A i \in Answers' : responses'[i].seq < Upcoming \/ responses'[i].seq = Upcoming
    BY <1>1, <1>4, <1>6, Serving
  <1>8. Earlier'
    <2>1. \A i \in Answers' : responses'[i].seq \in Nat
      BY <1>2, <1>7 DEF Base, Asked
    <2>2. \A i \in Answers' : responses'[i].seq < Upcoming + 1
      BY <1>5, <1>7, <2>1
    <2> QED BY <1>5, <2>2 DEF Earlier
  <1>9. Queue(requests, asked)' /\ Refused' /\ Told'
    BY <1>4, <1>5 DEF Refused, Told, Greeted, Keyed
  <1> QED BY <1>7, <1>8, <1>9 DEF Inv, Base

-----------------------------------------------------------------------------
(* The steps. *)

\* The session knows no more of its client than before.
LEMMA KnowsNoMore ==
  ASSUME Inv, link = {}, Upcoming \in Nat, version' = version, didAuth' = didAuth, UNCHANGED asked
  PROVE  (version' # 0 => Greeted(Upcoming + 1)) /\ (didAuth' => Keyed(Upcoming + 1))
  BY Later DEF Inv, Told

\* Handlers that leave handshake and key alone.
LEMMA PlainStep ==
  ASSUME Inv, UNCHANGED <<asked, version, didAuth>>, NEW command, Admitted(command),
         IF command \in Bodiless THEN NoBody ELSE ReadBody,
         NEW error \in Errors \ {authRequired},
         NEW more, more = <<>> \/ more = Record(ReqSeq, "answer"),
         Send(Response(ReqSeq, error) \o more),
         link' = link \/ link' = link \cup {"agent"}
  PROVE  Inv'
  <1>1. link = {} /\ Upcoming \in DOMAIN asked /\ asked \in Seq(Wish)
    BY Admission DEF Inv, Types
  <1>2. Upcoming \in Nat
    BY <1>1, LenProperties
  <1>3. (version' # 0 => Greeted(Upcoming + 1)) /\ (didAuth' => Keyed(Upcoming + 1))
    BY <1>1, <1>2, KnowsNoMore
  <1> QED BY <1>3, Handling

\* An answer without a body.
LEMMA BareAnswer ==
  ASSUME Inv, UNCHANGED <<asked, version, didAuth>>, NEW command, Admitted(command),
         IF command \in Bodiless THEN NoBody ELSE ReadBody,
         NEW error \in Errors \ {authRequired}, Send(Response(ReqSeq, error)),
         link' = link \/ link' = link \cup {"agent"}
  PROVE  Inv'
  <1>1. Response(ReqSeq, error) \o <<>> = Response(ReqSeq, error)
    BY DEF Response
  <1>2. Send(Response(ReqSeq, error) \o <<>>)
    BY <1>1
  <1> QED BY <1>2, PlainStep

\* The three shapes of handlers, for commands without and with a body.
LEMMA ShapesStep ==
  ASSUME Inv, UNCHANGED asked, NEW command, NEW errors \in SUBSET {"", "failed"}
  PROVE  /\ command \notin Bodiless /\ Acts(command, errors) => Inv'
         /\ command \notin Bodiless /\ Exchanges(command, errors) => Inv'
         /\ command \in Bodiless /\ Tells(command, errors) => Inv'
  <1>0. "" \in Errors \ {authRequired} /\ "failed" \in Errors \ {authRequired}
    BY DEF Errors, authRequired
  <1>1. ASSUME command \notin Bodiless, Acts(command, errors) PROVE Inv'
    <2>1. PICK error \in errors : Send(Response(ReqSeq, error))
      BY <1>1 DEF Acts
    <2>2. Admitted(command) /\ ReadBody /\ UNCHANGED <<link, version, didAuth>>
      BY <1>1 DEF Acts, same
    <2> QED BY <1>0, <1>1, <2>1, <2>2, BareAnswer
  <1>2. ASSUME command \notin Bodiless, Exchanges(command, errors) PROVE Inv'
    <2>1. PICK error \in errors : Send(Response(ReqSeq, error) \o Record(ReqSeq, "answer"))
      BY <1>2 DEF Exchanges
    <2>2. Admitted(command) /\ ReadBody /\ UNCHANGED <<link, version, didAuth>>
      BY <1>2 DEF Exchanges, same
    <2> QED BY <1>0, <1>2, <2>1, <2>2, PlainStep
  <1>3. ASSUME command \in Bodiless, Tells(command, errors) PROVE Inv'
    <2>1. PICK error \in errors : Send(Response(ReqSeq, error) \o Record(ReqSeq, "answer"))
      BY <1>3 DEF Tells
    <2>2. Admitted(command) /\ NoBody /\ UNCHANGED <<link, version, didAuth>>
      BY <1>3 DEF Tells, same
    <2> QED BY <1>0, <1>3, <2>1, <2>2, PlainStep
  <1> QED BY <1>1, <1>2, <1>3

\* The body that a handler reads is that of its request.
LEMMA BodyRead ==
  ASSUME Inv, NEW command, command \notin Bodiless, Admitted(command)
  PROVE  Arg = asked[Upcoming].arg /\ asked[Upcoming] = [command |-> command, arg |-> Arg]
         /\ \E ask \in Asks : asked[Upcoming] = [command |-> ask[1], arg |-> ask[2]]
  <1>1. /\ link = {} /\ requests # <<>> /\ Head(requests).frame = "header"
        /\ Upcoming \in DOMAIN asked
        /\ asked[Upcoming].command = command /\ Head(requests).command = command
    BY Admission
  <1>2. requests \in Seq(Frame) /\ asked \in Seq(Wish) /\ Queue(requests, asked)
    BY <1>1 DEF Inv, Types
  <1>3. Head(requests).seq = Upcoming
    BY <1>1, <1>2, FirstFrame DEF Upcoming
  <1>4. requests[2] = Body(asked[Upcoming].command, Upcoming, asked[Upcoming].arg)
    BY <1>1, <1>2, <1>3, BodyNext DEF HasMore
  <1>5. Arg = asked[Upcoming].arg
    BY <1>4 DEF Arg, Body
  <1>6. asked[Upcoming] \in Wish
    BY <1>1, <1>2, ElementOfSeq, LenProperties
  <1>7. PICK ask \in Asks : asked[Upcoming] = [command |-> ask[1], arg |-> ask[2]]
    BY <1>6 DEF Wish
  <1> QED BY <1>1, <1>5, <1>7

\* A handshake that succeeds named a version that is supported.
LEMMA HandshakeStep == ASSUME Inv, UNCHANGED asked, handleHandshake PROVE Inv'
  <1>1. Admitted("handshake") /\ ReadBody /\ UNCHANGED <<link, didAuth>> /\ "handshake" \notin Bodiless
    BY DEF handleHandshake, Bodiless
  <1>2. CASE \E error \in Errors \ {authRequired} : Send(Response(ReqSeq, error)) /\ UNCHANGED version
    BY <1>1, <1>2, BareAnswer
  <1>3. CASE Arg # "unsupported" /\ version' = 1 /\ Send(Response(ReqSeq, ""))
    <2>1. link = {} /\ Upcoming \in DOMAIN asked /\ asked \in Seq(Wish)
      BY <1>1, Admission DEF Inv, Types
    <2>2. Upcoming \in Nat /\ Upcoming >= 1
      BY <2>1, LenProperties
    <2>3. /\ asked[Upcoming] = [command |-> "handshake", arg |-> Arg]
          /\ \E ask \in Asks : asked[Upcoming] = [command |-> ask[1], arg |-> ask[2]]
      BY <1>1, BodyRead
    <2>4. Arg = "supported"
      <3>1. PICK ask \in Asks : asked[Upcoming] = [command |-> ask[1], arg |-> ask[2]]
        BY <2>3
      <3>2. ask[1] = "handshake" /\ ask[2] = Arg
        BY <2>3, <3>1
      <3> QED BY <1>3, <3>2, AsksAssumption
    <2>5. Upcoming \in 1..(Upcoming + 1) - 1
      BY <2>2
    <2>6. Greeted(Upcoming + 1)
      BY <2>3, <2>4, <2>5 DEF Greeted
    <2>7. didAuth' => Keyed(Upcoming + 1)
      BY <1>1, <2>1, <2>2, Later DEF Inv, Told
    <2>8. "" \in Errors /\ "" # authRequired
      BY DEF Errors, authRequired
    <2>9. Response(ReqSeq, "") \o <<>> = Response(ReqSeq, "")
      BY DEF Response
    <2>10. Send(Response(ReqSeq, "") \o <<>>)
      BY <1>3, <2>9
    <2> QED BY <1>1, <2>6, <2>7, <2>8, <2>10, Handling
  <1>4. {"unsupportedIPCVersion", "duplicateHandshake"} \subseteq Errors \ {authRequired}
    BY DEF Errors, authRequired
  <1> QED BY <1>2, <1>3, <1>4 DEF handleHandshake

\* The key is shown after a handshake, or the session would not get here.
LEMMA AuthStep == ASSUME Inv, UNCHANGED asked, handleAuth PROVE Inv'
  <1>1. Admitted("auth") /\ ReadBody /\ UNCHANGED <<link, version>> /\ "auth" \notin Bodiless
    BY DEF handleAuth, Bodiless
  <1>2. CASE \E error \in Errors \ {authRequired} : Send(Response(ReqSeq, error)) /\ UNCHANGED didAuth
    BY <1>1, <1>2, BareAnswer
  <1>3. CASE Arg = "right" /\ didAuth' = TRUE /\ Send(Response(ReqSeq, ""))
    <2>1. link = {} /\ Upcoming \in DOMAIN asked /\ asked \in Seq(Wish) /\ version # 0
      BY <1>1, Admission DEF Inv, Types
    <2>2. Upcoming \in Nat /\ Upcoming >= 1
      BY <2>1, LenProperties
    <2>3. asked[Upcoming] = [command |-> "auth", arg |-> "right"]
      BY <1>1, <1>3, BodyRead
    <2>4. Greeted(Upcoming) /\ Greeted(Upcoming + 1)
      BY <2>1, <2>2, Later DEF Inv, Told
    <2>5. Keyed(Upcoming + 1)
      <3>1. PICK j \in 1..Upcoming - 1 : asked[j] = [command |-> "handshake", arg |-> "supported"]
        BY <2>4 DEF Greeted
      <3>2. j \in 1..(Upcoming + 1) - 1 /\ Upcoming \in 1..(Upcoming + 1) - 1 /\ j < Upcoming
        BY <2>2
      <3> QED BY <2>3, <3>1, <3>2 DEF Keyed
    <2>8. "" \in Errors /\ "" # authRequired
      BY DEF Errors, authRequired
    <2>9. Response(ReqSeq, "") \o <<>> = Response(ReqSeq, "")
      BY DEF Response
    <2>10. Send(Response(ReqSeq, "") \o <<>>)
      BY <1>3, <2>9
    <2> QED BY <1>1, <2>4, <2>5, <2>8, <2>10, Handling
  <1>4. "invalidAuthToken" \in Errors \ {authRequired}
    BY DEF Errors, authRequired
  <1> QED BY <1>2, <1>3, <1>4 DEF handleAuth

\* The agent is asked before the handshake, and ends the connection.
LEMMA UngreetedStep == ASSUME Inv, UNCHANGED asked, handshakeRequired PROVE Inv'
  <1>1. /\ link = {} /\ requests # <<>> /\ version = 0 /\ requests' = Tail(requests) /\ link' = {"agent"}
        /\ Send(Response(ReqSeq, "handshakeRequired"))
    BY DEF handshakeRequired, Hangup, Inv, Types
  <1>2. requests \in Seq(Frame) /\ asked \in Seq(Wish) /\ Queue(requests, asked) /\ ~ Beheaded(requests)
    BY <1>1 DEF Inv, Types, Refused
  <1>3. Head(requests) \in Frame /\ Upcoming = Head(requests).seq /\ Upcoming \in DOMAIN asked
        /\ requests' \in Seq(Frame)
    BY <1>1, <1>2, FirstFrame DEF Upcoming
  <1>4. ReqSeq = Upcoming
    BY <1>1, <1>2, <1>3 DEF ReqSeq, Decoded, Beheaded, Frame
  <1>5. responses' = responses \o (Response(Upcoming, "handshakeRequired") \o <<>>)
    <2>1. Response(Upcoming, "handshakeRequired") \o <<>> = Response(Upcoming, "handshakeRequired")
      BY DEF Response
    <2> QED BY <1>1, <1>4, <2>1 DEF Send
  <1>6. "handshakeRequired" \in Errors
    BY DEF Errors
  <1>7. Base'
    BY <1>1, <1>2, <1>3, <1>5, <1>6, Serving
  <1> QED BY <1>1, <1>7 DEF Inv, Base

\* A request is refused for want of a key: its header, or its body, which is
\* taken for another request with the same number.
LEMMA RefuseStep == ASSUME Inv, UNCHANGED asked, refuse PROVE Inv'
  <1>1. /\ link = {} /\ requests # <<>> /\ version # 0 /\ Guarded /\ ~ didAuth
        /\ Decoded.command \notin {"auth", "handshake"}
        /\ requests' = Tail(requests) /\ reqHeader' = Decoded
        /\ Send(Response(ReqSeq, authRequired)) /\ UNCHANGED <<link, version, didAuth>>
    BY DEF refuse, Inv, Types
  <1>2. requests \in Seq(Frame) /\ asked \in Seq(Wish) /\ Queue(requests, asked) /\ Refused /\ Told
        /\ \A n \in DOMAIN asked : n \in Nat
    BY <1>1, LenProperties DEF Inv, Types
  <1>3. /\ Head(requests) \in Frame /\ Upcoming = Head(requests).seq /\ Upcoming \in DOMAIN asked
        /\ Sent(Head(requests), asked)
        /\ requests' \in Seq(Frame) /\ Queue(requests', asked)
    BY <1>1, <1>2, FirstFrame DEF Upcoming
  <1>4. Decoded = Header(asked[Upcoming].command, Upcoming) /\ ReqSeq = Upcoming
    <2>1. CASE Head(requests).frame = "header"
      <3>1. Head(requests) = Header(asked[Upcoming].command, Upcoming)
        BY <1>3, <2>1 DEF Sent, Body
      <3> QED BY <2>1, <3>1 DEF Decoded, ReqSeq, Header
    <2>2. CASE Head(requests).frame # "header"
      <3>1. Beheaded(requests)
        BY <1>1, <1>3, <2>2 DEF Beheaded, Frame
      <3>2. Decoded = Header(asked[Upcoming].command, Upcoming)
        BY <1>2, <2>2, <3>1 DEF Refused, Decoded
      <3> QED BY <3>2 DEF ReqSeq, Header
    <2> QED BY <2>1, <2>2
  <1>5. responses' = responses \o (Response(Upcoming, authRequired) \o <<>>)
    <2>1. Response(Upcoming, authRequired) \o <<>> = Response(Upcoming, authRequired)
      BY DEF Response
    <2> QED BY <1>1, <1>4, <2>1 DEF Send
  <1>6. authRequired \in Errors /\ link' \subseteq {"agent"}
    BY <1>1 DEF Errors
  <1>7. /\ Base'
        /\ \A i \in Answers' : \/ responses'[i].seq < Upcoming
                               \/ responses'[i].seq = Upcoming /\ responses'[i].error = authRequired
    BY <1>1, <1>2, <1>3, <1>5, <1>6, Serving
  <1>8. \A i \in Answers' : responses'[i].seq \in Nat
    BY <1>2, <1>7 DEF Base, Asked
  <1>9. CASE HasMore(Head(requests))
    <2>1. Upcoming' = Upcoming /\ Beheaded(requests')
      BY <1>1, <1>2, <1>3, <1>9, BodyNext DEF Upcoming
    <2>2. Earlier' /\ Told'
      BY <1>1, <1>2, <1>7, <2>1 DEF Earlier, Told, Greeted, Keyed
    <2>3. Refused'
      BY <1>1, <1>4, <2>1 DEF Refused, Upcoming, Header
    <2> QED BY <1>3, <1>7, <2>2, <2>3 DEF Inv, Base
  <1>10. CASE ~ HasMore(Head(requests))
    <2>1. Upcoming' = Upcoming + 1 /\ ~ Beheaded(requests') /\ Upcoming \in Nat
      BY <1>1, <1>2, <1>3, <1>10, HeaderNext DEF Upcoming
    <2>2. \A i \in Answers' : responses'[i].seq < Upcoming + 1
      BY <1>7, <1>8, <2>1
    <2>3. Earlier'
      BY <2>1, <2>2 DEF Earlier
    <2>4. Told'
      BY <1>1, <1>2, <2>1, Later DEF Told, Greeted, Keyed
    <2> QED BY <1>3, <1>7, <2>1, <2>3, <2>4 DEF Inv, Base, Refused
  <1> QED BY <1>9, <1>10

\* Nothing is answered.
LEMMA QuietStep ==
  ASSUME Inv, UNCHANGED <<asked, responses>>, requests' \in Seq(Frame), link' \subseteq {"agent"},
         \/ link' # {}
         \/ UNCHANGED <<requests, link, version, didAuth, reqHeader>>
  PROVE  Inv'
  <1>1. Base'
    BY DEF Inv, Base, Types, Asked, AnswersInOrder, NothingUnauthorised, Answers
  <1>2. CASE link' # {}
    BY <1>1, <1>2 DEF Inv, Base
  <1>3. CASE UNCHANGED <<requests, link, version, didAuth, reqHeader>>
    <2>1. Upcoming' = Upcoming /\ Answers' = Answers
      BY <1>3 DEF Upcoming, Answers
    <2>2. link' = {} => Queue(requests, asked)' /\ Refused' /\ Earlier' /\ Told'
      BY <1>3, <2>1 DEF Inv, Refused, Earlier, Told, Greeted, Keyed
    <2> QED BY <1>1, <2>2 DEF Inv, Base
  <1> QED BY <1>2, <1>3

\* Sequence numbers are numbers.
LEMMA Numbered == \A s \in Seq64 : s \in Nat
  BY MaxRequestsAssumption

\* A record is pushed.
LEMMA PushStep ==
  ASSUME Inv, UNCHANGED <<asked, requests, link, version, didAuth, reqHeader>>, link = {},
         NEW s \in Seq64, NEW type \in {"record", "done"},
         Send(Response(s, "") \o Record(s, type))
  PROVE  Inv'
  <1>1. s \in Nat /\ responses \in Seq(Answer)
    BY Numbered DEF Inv, Types
  <1>2. /\ responses' \in Seq(Answer) /\ Answers' = Answers
        /\ \A i \in Answers : responses'[i] = responses[i]
    BY <1>1, Pushing DEF Send
  <1>3. Upcoming' = Upcoming
    BY DEF Upcoming
  <1>4. Types' /\ Asked'
    BY <1>2 DEF Inv, Types, Asked
  <1>5. AnswersInOrder'
    BY <1>2 DEF Inv, AnswersInOrder
  <1>6. NothingUnauthorised'
    <2> SUFFICES ASSUME Guarded, NEW i \in Answers',
                        asked[responses'[i].seq].command \notin {"handshake", "auth"},
                        responses'[i].error \notin {authRequired, "handshakeRequired"}
                 PROVE  Keyed(responses'[i].seq)
      BY DEF NothingUnauthorised, Keyed
    <2> QED BY <1>2 DEF Inv, NothingUnauthorised, Keyed
  <1>7. Queue(requests, asked)' /\ Refused' /\ Earlier' /\ Told'
    BY <1>2, <1>3 DEF Inv, Refused, Earlier, Told, Greeted, Keyed
  <1> QED BY <1>4, <1>5, <1>6, <1>7 DEF Inv

\* A request joins the others at the end, with its body if it has one.
Grown(a, w, b, q, m, r) ==
    /\ b = Append(a, w) /\ Len(q) = m
    /\ r \in Seq(Frame) /\ \A i \in 1..m : r[i] = q[i]
    /\ r[m + 1] = Header(w.command, Len(a) + 1)
    /\ \/ Len(r) = m + 1 /\ w.command \in Bodiless
       \/ /\ Len(r) = m + 2 /\ w.command \notin Bodiless
          /\ r[m + 2] = Body(w.command, Len(a) + 1, w.arg)

\* They stay a queue, and begin as before.
LEMMA QueueGrows ==
  ASSUME NEW a \in Seq(Wish), NEW w \in Wish, NEW b, NEW q \in Seq(Frame), NEW r, NEW m \in Nat,
         Queue(q, a), Grown(a, w, b, q, m, r)
  PROVE  Queue(r, b) /\ First(r, b) = First(q, a) /\ (Beheaded(r) <=> Beheaded(q))
  <1> USE DEF Grown
  <1>0. PICK k \in {1, 2} : /\ Len(r) = m + k
                            /\ k = 1 => w.command \in Bodiless
                            /\ k = 2 => /\ w.command \notin Bodiless
                                        /\ r[m + 2] = Body(w.command, Len(a) + 1, w.arg)
    <2>1. 1 \in {1, 2} /\ 2 \in {1, 2} /\ 1 # 2
      OBVIOUS
    <2> QED BY <2>1
  <1>1. PICK n \in Nat : n = Len(a)
    BY LenProperties
  <1>2. /\ DOMAIN a = 1..n /\ b \in Seq(Wish) /\ DOMAIN b = 1..(n + 1) /\ Len(b) = n + 1
        /\ b[n + 1] = w /\ \A i \in 1..n : b[i] = a[i]
    BY <1>1, AppendProperties, LenProperties
  <1>3. DOMAIN q = 1..m /\ DOMAIN r = 1..(m + k) /\ r # <<>> /\ (q = <<>> <=> m = 0)
    BY <1>0, LenProperties, EmptySeq
  <1>4. \A x : Sent(x, a) => Sent(x, b)
    BY <1>2 DEF Sent
  <1>5. n + 1 \in DOMAIN b
    BY <1>2
  <1>6. Sent(r[m + 1], b) /\ (k = 2 => Sent(r[m + 2], b))
    BY <1>0, <1>1, <1>2, <1>5 DEF Sent, Header, Body
  <1>7. \A i \in DOMAIN r : Sent(r[i], b)
    <2>1. \A i \in 1..m : Sent(r[i], b)
      BY <1>3, <1>4 DEF Queue
    <2>2. \A i \in 1..(m + k) : i \in 1..m \/ i = m + 1 \/ (k = 2 /\ i = m + 2)
      OBVIOUS
    <2> QED BY <1>3, <1>6, <2>1, <2>2
  <1>8. m # 0 => ~ HasMore(q[m]) /\ q[m].seq = n
    BY <1>1, <1>3 DEF Queue
  <1>9. ASSUME NEW i \in DOMAIN r, i < Len(r) PROVE Follows(r[i], r[i + 1])
    <2>1. CASE i < m
      <3>1. i \in DOMAIN q /\ i \in 1..m /\ i + 1 \in 1..m
        BY <1>3, <2>1
      <3>2. Follows(q[i], q[i + 1])
        BY <2>1, <3>1 DEF Queue
      <3> QED BY <3>1, <3>2
    <2>2. CASE i = m
      <3>1. m # 0 /\ m \in 1..m
        BY <1>3, <2>2
      <3>2. r[m] = q[m] /\ r[i + 1] = Header(w.command, n + 1)
        BY <1>1, <2>2, <3>1
      <3> QED BY <1>8, <2>2, <3>1, <3>2 DEF Follows, Header
    <2>3. CASE i = m + 1
      <3>1. k = 2 /\ i + 1 = m + 2
        BY <1>0, <1>3, <1>9, <2>3
      <3> QED BY <1>0, <2>3, <3>1 DEF Follows, HasMore, Header, Body
    <2> QED BY <1>0, <1>3, <1>9, <2>1, <2>2, <2>3
  <1>10. ~ HasMore(r[Len(r)]) /\ r[Len(r)].seq = Len(b)
    <2>1. CASE k = 1
      BY <1>0, <1>1, <1>2, <2>1 DEF HasMore, Header
    <2>2. CASE k = 2
      BY <1>0, <1>1, <1>2, <2>2 DEF HasMore, Body
    <2> QED BY <2>1, <2>2
  <1>11. Queue(r, b)
    BY <1>7, <1>9, <1>10 DEF Queue
  <1>12. First(r, b) = First(q, a) /\ (Beheaded(r) <=> Beheaded(q))
    <2>1. CASE m = 0
      <3>1. Head(r) = Header(w.command, n + 1) /\ q = <<>>
        BY <1>1, <1>3, <2>1
      <3> QED BY <1>1, <1>3, <3>1 DEF First, Beheaded, Header
    <2>2. CASE m # 0
      <3>1. 1 \in 1..m /\ q # <<>> /\ Head(r) = r[1] /\ Head(q) = q[1]
        BY <1>3, <2>2
      <3> QED BY <1>3, <3>1 DEF First, Beheaded
    <2> QED BY <2>1, <2>2
  <1> QED BY <1>11, <1>12

\* Another request is sent.
LEMMA AskStep == ASSUME Inv, NEW ask \in Asks, Ask(ask[1], ask[2]) PROVE Inv'
  <1> DEFINE w == [command |-> ask[1], arg |-> ask[2]]
             n == Len(asked)
             h == Header(ask[1], n + 1)
             c == Body(ask[1], n + 1, ask[2])
             more == IF ask[1] \in Bodiless THEN <<>> ELSE <<c>>
  <1>1. /\ link = {} /\ asked' = Append(asked, w) /\ requests' = (requests \o <<h>>) \o more
        /\ UNCHANGED <<responses, link, version, didAuth, reqHeader>>
    BY DEF Ask
  <1>2. requests \in Seq(Frame) /\ asked \in Seq(Wish) /\ Queue(requests, asked) /\ w \in Wish
    BY <1>1 DEF Inv, Types, Wish
  <1>3. n \in Nat /\ asked' \in Seq(Wish) /\ Len(asked') = n + 1
        /\ DOMAIN asked = 1..n /\ DOMAIN asked' = 1..(n + 1) /\ \A i \in 1..n : asked'[i] = asked[i]
    BY <1>1, <1>2, AppendProperties, LenProperties
  <1>4. h \in Frame /\ c \in Frame
    BY <1>3 DEF Frame, Commands, Args, Header, Body
  <1>5. /\ w.command = ask[1] /\ w.arg = ask[2]
    OBVIOUS
  <1> HIDE DEF w, n, h, c
  <1>6. PICK m \in Nat : m = Len(requests)
    BY <1>2, LenProperties
  <1>7. Len(requests) = m
    BY <1>6
  <1> DEFINE q1 == requests \o <<h>>
  <1>8. /\ q1 \in Seq(Frame) /\ Len(q1) = m + 1 /\ q1[m + 1] = h /\ \A i \in 1..m : q1[i] = requests[i]
    <2> DEFINE g == <<h>>
    <2>1. g \in Seq(Frame) /\ Len(g) = 1 /\ g[1] = h
      BY <1>4
    <2> HIDE DEF g
    <2>2. requests \o g \in Seq(Frame) /\ Len(requests \o g) = m + 1
          /\ (requests \o g)[m + 1] = g[1] /\ \A i \in 1..m : (requests \o g)[i] = requests[i]
      BY <1>2, <1>6, <2>1, Longer
    <2> QED BY <2>1, <2>2 DEF g
  <1> HIDE DEF q1
  <1>9. Grown(asked, w, asked', requests, m, requests')
    <2>1. CASE ask[1] \in Bodiless
      <3>1. requests' = q1
        BY <1>1, <1>8, <2>1 DEF q1
      <3>2. /\ requests' \in Seq(Frame) /\ \A i \in 1..m : requests'[i] = requests[i]
            /\ requests'[m + 1] = Header(w.command, Len(asked) + 1)
            /\ Len(requests') = m + 1 /\ w.command \in Bodiless
        BY <1>5, <1>8, <2>1, <3>1 DEF n, h
      <3> QED BY <1>1, <1>7, <3>2 DEF Grown
    <2>2. CASE ask[1] \notin Bodiless
      <3> DEFINE g == <<c>>
      <3>1. g \in Seq(Frame) /\ Len(g) = 1 /\ g[1] = c
        BY <1>4
      <3>2. requests' = q1 \o g
        BY <1>1, <2>2 DEF q1
      <3> HIDE DEF g
      <3>3. requests' \in Seq(Frame) /\ Len(requests') = (m + 1) + 1
            /\ requests'[(m + 1) + 1] = c /\ \A i \in 1..(m + 1) : requests'[i] = q1[i]
        BY <1>8, <3>1, <3>2, Longer
      <3>4. Len(requests') = m + 2 /\ requests'[m + 2] = c /\ requests'[m + 1] = h
            /\ \A i \in 1..m : requests'[i] = requests[i]
        BY <1>8, <3>3
      <3>5. /\ requests'[m + 1] = Header(w.command, Len(asked) + 1)
            /\ requests'[m + 2] = Body(w.command, Len(asked) + 1, w.arg) /\ w.command \notin Bodiless
        BY <1>5, <2>2, <3>4 DEF n, h, c
      <3> QED BY <1>1, <1>7, <3>3, <3>4, <3>5 DEF Grown
    <2> QED BY <2>1, <2>2
  <1>10. Queue(requests', asked') /\ First(requests', asked') = Upcoming /\ requests' \in Seq(Frame)
        /\ (Beheaded(requests') <=> Beheaded(requests))
    <2>1. /\ Queue(requests', asked') /\ First(requests', asked') = First(requests, asked)
          /\ (Beheaded(requests') <=> Beheaded(requests))
      BY <1>2, <1>6, <1>9, QueueGrows
    <2> QED BY <1>9, <2>1 DEF Grown, Upcoming
  <1>11. Upcoming' = Upcoming
    BY <1>10 DEF Upcoming
  <1>12. Upcoming \in Nat /\ (Beheaded(requests) => Upcoming \in DOMAIN asked) /\ Upcoming - 1 <= n
    <2>1. CASE requests = <<>>
      BY <1>3, <2>1 DEF Upcoming, First, Beheaded, n
    <2>2. CASE requests # <<>>
      <3>1. Upcoming \in DOMAIN asked
        BY <1>2, <2>2, FirstFrame DEF Upcoming
      <3> QED BY <1>3, <3>1
    <2> QED BY <2>1, <2>2
  <1>13. Answers' = Answers /\ Refused /\ Earlier /\ Told /\ Types /\ Asked
    BY <1>1 DEF Inv, Answers
  <1>14. Types' /\ Asked'
    BY <1>1, <1>3, <1>10, <1>13 DEF Types, Asked
  <1>15. Refused' /\ Earlier'
    BY <1>1, <1>3, <1>10, <1>11, <1>12, <1>13 DEF Refused, Earlier
  <1>16. \A j \in 1..Upcoming - 1 : asked'[j] = asked[j]
    BY <1>3, <1>12
  <1>17. Told'
    BY <1>1, <1>11, <1>13, <1>16 DEF Told, Greeted, Keyed
  <1>18. AnswersInOrder'
    BY <1>1, <1>13 DEF Inv, AnswersInOrder
  <1>19. NothingUnauthorised'
    <2> SUFFICES ASSUME Guarded, NEW i \in Answers,
                        asked'[responses[i].seq].command \notin {"handshake", "auth"},
                        responses[i].error \notin {authRequired, "handshakeRequired"}
                 PROVE  Keyed(responses[i].seq)'
      BY <1>1, <1>13 DEF NothingUnauthorised, Keyed
    <2>1. responses[i].seq \in 1..n
      BY <1>3, <1>13 DEF Asked
    <2>2. Keyed(responses[i].seq)
      BY <1>3, <2>1 DEF Inv, NothingUnauthorised, Keyed
    <2>3. \A j \in 1..responses[i].seq - 1 : asked'[j] = asked[j]
      BY <1>3, <2>1
    <2> QED BY <1>1, <2>2, <2>3 DEF Keyed
  <1> QED BY <1>10, <1>14, <1>15, <1>17, <1>18, <1>19 DEF Inv

\* Two frames are taken off the front.
LEMMA TwoGone ==
  ASSUME NEW q \in Seq(Frame), Len(q) > 1
  PROVE  Tail(Tail(q)) \in Seq(Frame)
  <1>1. q # <<>>
    OBVIOUS
  <1>2. Tail(q) \in Seq(Frame) /\ Len(Tail(q)) = Len(q) - 1 /\ Len(q) \in Nat
    BY <1>1, HeadTailProperties, LenProperties
  <1>3. Len(Tail(q)) # 0
    BY <1>2
  <1>4. Tail(q) # <<>>
    BY <1>2, <1>3, EmptySeq
  <1> QED BY <1>2, <1>4, HeadTailProperties

\* What the session does.
LEMMA SessionStep == ASSUME Inv, SessionNext, UNCHANGED asked PROVE Inv'
  <1> USE DEF same, Bodiless
  <1>0. /\ {"", "failed", "unsupportedCommand"} \subseteq Errors \ {authRequired}
        /\ requests \in Seq(Frame) /\ link \subseteq {"agent"}
    BY DEF Errors, authRequired, Inv, Types
  <1>1. ASSUME NEW command, Subscribe(command, "open") \/ Subscribe(command, "monitor")
                                \/ Subscribe(command, "query"),
               command \notin Bodiless
        PROVE  Inv'
    <2>1. /\ Admitted(command) /\ ReadBody /\ UNCHANGED <<link, version, didAuth>>
          /\ Send(Response(ReqSeq, "failed")) \/ Send(Response(ReqSeq, ""))
      BY <1>1 DEF Subscribe
    <2> QED BY <1>0, <1>1, <2>1, BareAnswer
  <1>2. CASE handshakeRequired
    BY <1>2, UngreetedStep
  <1>3. CASE refuse
    BY <1>3, RefuseStep
  <1>4. CASE decodeFailed
    <2>1. requests' \in Seq(Frame) /\ link' = link \cup {"agent"} /\ UNCHANGED responses
      BY <1>4 DEF decodeFailed, Hangup
    <2> QED BY <1>0, <2>1, QuietStep
  <1>5. CASE unsupportedCommand
    <2>1. /\ Admitted("unknown") /\ NoBody /\ Send(Response(ReqSeq, "unsupportedCommand"))
          /\ link' = link \cup {"agent"} /\ UNCHANGED <<version, didAuth>>
      BY <1>5 DEF unsupportedCommand, Hangup
    <2> QED BY <1>0, <2>1, BareAnswer
  <1>6. CASE handleHandshake
    BY <1>6, HandshakeStep
  <1>7. CASE handleAuth
    BY <1>7, AuthStep
  <1>8. CASE handleEvent \/ handleForceLeave \/ handleTags \/ handleRespond \/ handleUpdateRouters
    BY <1>8, ShapesStep DEF handleEvent, handleForceLeave, handleTags, handleRespond, handleUpdateRouters,
        MayFail, NeverFails
  <1>9. CASE handleJoin \/ handleInstallKey \/ handleUseKey \/ handleRemoveKey \/ handleGetCoordinate
    BY <1>9, ShapesStep DEF handleJoin, handleInstallKey, handleUseKey, handleRemoveKey, handleGetCoordinate,
        MayFail, NeverFails
  <1>10. CASE handleListKeys \/ handleStats \/ handleListMicroApps \/ handleListRouters
    BY <1>10, ShapesStep DEF handleListKeys, handleStats, handleListMicroApps, handleListRouters,
        MayFail, NeverFails
  <1>11. CASE handleMembers
    <2>1. CASE Tells("members", NeverFails) \/ Exchanges("members-filtered", NeverFails)
      BY <2>1, ShapesStep DEF NeverFails
    <2>2. CASE filterFails
      <3>1. ReadBody /\ link' = link \cup {"agent"} /\ UNCHANGED responses
        BY <2>2 DEF filterFails, Hangup
      <3>2. Len(requests) > 1 /\ Len(requests) \in Nat
        BY <1>0, <3>1, LenProperties DEF ReadBody
      <3>3. Tail(Tail(requests)) \in Seq(Frame)
        BY <1>0, <3>2, TwoGone
      <3>4. requests' \in Seq(Frame)
        BY <3>1, <3>3 DEF ReadBody
      <3> QED BY <1>0, <3>1, <3>4, QuietStep
    <2> QED BY <1>11, <2>1, <2>2 DEF handleMembers
  <1>12. CASE handleLeave
    <2>1. /\ Admitted("leave") /\ NoBody /\ UNCHANGED <<link, version, didAuth>>
          /\ Send(Response(ReqSeq, "")) \/ Send(Response(ReqSeq, "failed"))
      BY <1>12 DEF handleLeave, MayFail
    <2> QED BY <1>0, <2>1, BareAnswer
  <1>13. CASE handleStream \/ handleMonitor \/ handleQuery
    BY <1>1, <1>13 DEF handleStream, handleMonitor, handleQuery
  <1>14. CASE handleStop
    <2>1. /\ Admitted("stop") /\ ReadBody /\ UNCHANGED <<link, version, didAuth>>
          /\ Send(Response(ReqSeq, ""))
      BY <1>14 DEF handleStop
    <2> QED BY <1>0, <2>1, BareAnswer
  <1>15. ASSUME NEW s \in Seq64, sendRecord(s) \/ sendDone(s) PROVE Inv'
    <2>1. /\ link = {} /\ UNCHANGED <<requests, link, version, didAuth, reqHeader>>
          /\ Send(Response(s, "") \o Record(s, "record")) \/ Send(Response(s, "") \o Record(s, "done"))
      BY <1>15 DEF sendRecord, sendDone
    <2> QED BY <2>1, PushStep
  <1>16. CASE Shutdown
    <2>1. link' = link \cup {"agent"} /\ UNCHANGED <<requests, responses>>
      BY <1>16 DEF Shutdown, Hangup
    <2> QED BY <1>0, <2>1, QuietStep
  <1> QED
    BY <1>2, <1>3, <1>4, <1>5, <1>6, <1>7, <1>8, <1>9, <1>10, <1>11, <1>12, <1>13, <1>14, <1>15, <1>16
    DEF SessionNext, handleRequest

-----------------------------------------------------------------------------
(* The theorems. *)

LEMMA Invariant == Spec => []Inv
  <1>1. Init => Inv
    <2> SUFFICES ASSUME Init PROVE Inv
      OBVIOUS
    <2>1. requests = <<>> /\ responses = <<>> /\ asked = <<>> /\ link = {} /\ version = 0 /\ didAuth = FALSE
      BY DEF Init, SessionInit
    <2>2. Answers = {} /\ Types
      BY <2>1 DEF Answers, Types
    <2> QED
      BY <2>1, <2>2 DEF Inv, Asked, AnswersInOrder, NothingUnauthorised, Queue, Refused, Earlier, Told, Beheaded
  <1>2. Inv /\ [Next]_vars => Inv'
    <2> SUFFICES ASSUME Inv, [Next]_vars PROVE Inv'
      OBVIOUS
    <2>1. CASE \E ask \in Asks : Ask(ask[1], ask[2])
      BY <2>1, AskStep
    <2>2. CASE SessionNext /\ UNCHANGED asked
      BY <2>2, SessionStep
    <2>3. CASE UNCHANGED vars
      <3>1. UNCHANGED <<asked, responses, requests, link, version, didAuth, reqHeader>>
        BY <2>3 DEF vars
      <3>2. requests' \in Seq(Frame) /\ link' \subseteq {"agent"}
        BY <3>1 DEF Inv, Types
      <3> QED BY <3>1, <3>2, QuietStep
    <2> QED BY <2>1, <2>2, <2>3 DEF Next
  <1> QED BY <1>1, <1>2, PTL DEF Spec

\* Requests are answered in the order in which they were sent, each once,
\* but for a request that is refused for want of a key, whose body may be
\* refused as another request: handleRequest decodes, serves and answers one
\* request after the other, and the records that the goroutines of streams,
\* monitors and queries push in between are no answers.
THEOREM AnsweredInOrder == Spec => []AnswersInOrder
  <1>1. Inv => AnswersInOrder
    BY DEF Inv
  <1> QED BY <1>1, Invariant, PTL

\* On an agent with an authKey no command but handshake and auth is carried
\* out for a client that has not completed a handshake and then shown the
\* right key: the checks at the head of handleRequest, for requests of any
\* kind and number, sent without waiting for an answer.
THEOREM OnlyWithKey == Spec => []NothingUnauthorised
  <1>1. Inv => NothingUnauthorised
    BY DEF Inv
  <1> QED BY <1>1, Invariant, PTL

=============================================================================

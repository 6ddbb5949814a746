----------------------------- MODULE FlowProofs -----------------------------
(***************************************************************************)
(* Proofs about Flow, for ranges of any length, requests of any size, and   *)
(* executors of any depth.                                                  *)
(*                                                                         *)
(* That demand is respected needs to know that the jobs, running and        *)
(* waiting, have no more left to send than was requested and not sent yet;  *)
(* that what was requested arrives, that they have no less, until the flow  *)
(* is stopped or its receiver done.                                         *)
(* That values arrive in order needs to know that what is in via's strand   *)
(* continues what the consumer has got, that starting() is alone until it   *)
(* arrives, and that whoever says done has stopped the flow or has sent all *)
(* of the range.                                                            *)
(***************************************************************************)
EXTENDS Flow, TLAPS

-----------------------------------------------------------------------------
(* The inductive invariant *)

\* f[i] is what the first i jobs of q have left to send.
Sums(q, f) ==
  /\ f \in [0..Len(q) -> Nat]
  /\ f[0] = 0
  /\ \A i \in 1..Len(q) : f[i] = f[i - 1] + q[i].remaining

\* g[i] is what the jobs of q after the first i have left to send.
Rests(q, g) ==
  /\ g \in [0..Len(q) -> Nat]
  /\ g[Len(q)] = 0
  /\ \A i \in 1..Len(q) : g[i - 1] = g[i] + q[i].remaining

\* The jobs of st and qu together have at most k values left to send, or exactly k.  (Jobs
\* leave st at its end and qu at its head: the sums are written so that either is a step.)
Owes(st, qu, k, exact) ==
  \E f, g :
    /\ Sums(st, f) /\ Rests(qu, g)
    /\ f[Len(st)] + g[0] <= k
    /\ exact => f[Len(st)] + g[0] = k

JobsIn(st, qu, S) ==
  /\ \A i \in 1..Len(st) : st[i].job \in S
  /\ \A i \in 1..Len(qu) : qu[i].job \in S

\* The receiver that the source calls is done.
SourceDone == IF useVia THEN via.done ELSE fr.done

\* The source has every reason to send what it was asked for.
Wanted == ~stop /\ ~SourceDone

\* What was requested and not sent is still to be sent by a job: at most that, and all of
\* it as long as it is wanted.
Demand == Owes(stack, queue, asked - c, Wanted)

\* The source has called starting().
Begun == IF useVia THEN via.started ELSE fr.started

\* Before, there is at most the job that will.
NotBegun ==
  ~Begun =>
    /\ ~fr.started /\ ~via.done /\ lost = "none" /\ posted = <<>>
    /\ Len(stack) + Len(queue) <= 1
    /\ JobsIn(stack, queue, {"starting"})
    /\ phase # "submitted" => stack = <<>> /\ queue = <<>>

\* After, there is no such job.
HasBegun == Begun => phase = "submitted" /\ JobsIn(stack, queue, {"request", "finish", "end"})

\* Until the consumer is started it has asked for nothing, and only starting() is on its way.
NotStarted ==
  ~fr.started =>
    /\ asked = 0 /\ c = 0 /\ got = <<>> /\ ~held /\ ~stop /\ ~up /\ ~fr.done /\ ~via.done
    /\ JobsIn(stack, queue, {"starting", "end"})
    /\ Len(posted) <= 1
    /\ \A i \in 1..Len(posted) : posted[i].signal = "starting" /\ lost = "none"

\* A job that completes the consumer was submitted by what stopped the flow.
Finishing == ~stop => JobsIn(stack, queue, {"starting", "request", "end"})

\* via is used or not.
Route ==
  /\ useVia => limit = 0
  /\ useVia /\ fr.started => via.started
  /\ ~useVia => posted = <<>> /\ ~via.started /\ ~via.done /\ lost = "none"
  /\ ~fr.dead /\ (via.dead => lost = "starting" /\ ~fr.started)

\* What via forwards: values, then at most one completion, which is there until the
\* consumer gets it or via loses it.
Posted ==
  fr.started =>
    /\ \A i \in 1..Len(posted) :
         /\ posted[i].signal # "starting"
         /\ i < Len(posted) \/ ~via.done => posted[i].signal = "value"
    /\ ~fr.done =>
         /\ ~via.done => Len(got) + Len(posted) = c
         /\ \A i \in 1..Len(posted) :
              /\ posted[i].signal = "value" => posted[i].value = Len(got) + i
              /\ posted[i].signal = "done" => Len(got) + i = c + 1 /\ (stop \/ c = Length)
         /\ via.done /\ lost = "none" => posted # <<>> /\ posted[Len(posted)].signal # "value"

Flags == fr.done <=> Ended(fr)

FlowInv ==
  /\ TypeOK /\ Demand /\ NotBegun /\ HasBegun /\ NotStarted /\ Finishing /\ Route
  /\ Posted /\ Flags /\ EachOnceInOrder
-----------------------------------------------------------------------------
(* Sequences of jobs *)

LEMMA Appended ==
  ASSUME NEW T, NEW q \in Seq(T), NEW j \in T
  PROVE  /\ Append(q, j) \in Seq(T) /\ Len(Append(q, j)) = Len(q) + 1
         /\ Append(q, j)[Len(q) + 1] = j
         /\ \A i \in 1..Len(q) : Append(q, j)[i] = q[i]
<1> QED
  OBVIOUS

LEMMA TailOf ==
  ASSUME NEW T, NEW q \in Seq(T), q # <<>>
  PROVE  /\ Tail(q) \in Seq(T) /\ Len(Tail(q)) = Len(q) - 1 /\ Len(q) \in Nat \ {0}
         /\ Head(q) = q[1] /\ Head(q) \in T
         /\ \A i \in 1..(Len(q) - 1) : Tail(q)[i] = q[i + 1]
<1> QED
  OBVIOUS

LEMMA FrontOf ==
  ASSUME NEW T, NEW q \in Seq(T), q # <<>>
  PROVE  /\ Front(q) \in Seq(T) /\ Len(Front(q)) = Len(q) - 1 /\ Len(q) \in Nat \ {0}
         /\ Last(q) = q[Len(q)] /\ Last(q) \in T
         /\ \A i \in 1..(Len(q) - 1) : Front(q)[i] = q[i]
<1>1. Len(q) \in Nat \ {0}
  OBVIOUS
<1>2. /\ Front(q) \in Seq(T) /\ Len(Front(q)) = Len(q) - 1
      /\ \A i \in 1..(Len(q) - 1) : Front(q)[i] = q[i]
  <2>1. PICK n \in Nat : n = Len(q) - 1
    BY <1>1
  <2>2. /\ SubSeq(q, 1, n) \in Seq(T) /\ Len(SubSeq(q, 1, n)) = n
        /\ \A i \in 1..n : SubSeq(q, 1, n)[i] = q[i]
    BY <1>1, <2>1
  <2> QED
    BY <2>1, <2>2 DEF Front
<1>3. Last(q) = q[Len(q)] /\ Last(q) \in T
  BY <1>1 DEF Last
<1> QED
  BY <1>1, <1>2, <1>3

\* Taking the first item of via's strand.
LEMMA RemovedFirst ==
  ASSUME NEW T, NEW q \in Seq(T), q # <<>>
  PROVE  RemoveAt(q, 1) = Tail(q)
<1>1. Len(q) \in Nat \ {0}
  OBVIOUS
<1>2. SubSeq(q, 1, 0) = <<>>
  BY <1>1
<1>3. SubSeq(q, 2, Len(q)) = Tail(q)
  <2>1. /\ SubSeq(q, 2, Len(q)) \in Seq(T) /\ Len(SubSeq(q, 2, Len(q))) = Len(q) - 1
        /\ \A i \in 1..(Len(q) - 1) : SubSeq(q, 2, Len(q))[i] = q[i + 1]
    BY <1>1
  <2>2. /\ Tail(q) \in Seq(T) /\ Len(Tail(q)) = Len(q) - 1
        /\ \A i \in 1..(Len(q) - 1) : Tail(q)[i] = q[i + 1]
    BY TailOf
  <2> QED
    BY <2>1, <2>2
<1>4. <<>> \o Tail(q) = Tail(q)
  OBVIOUS
<1> QED
  BY <1>1, <1>2, <1>3, <1>4 DEF RemoveAt

LEMMA JobFields ==
  ASSUME NEW j \in Job
  PROVE  j.remaining \in Nat /\ j.remaining \in 0..MaxAsk
         /\ j.job \in {"starting", "request", "finish", "end"}
         /\ (j.job # "request" => j.remaining = 0)
<1>1. CASE j \in [job : {"request"}, remaining : 0..MaxAsk]
  BY <1>1, FlowAssumption
<1>2. CASE j \in [job : {"starting", "finish", "end"}, remaining : {0}]
  BY <1>2, FlowAssumption
<1> QED
  BY <1>1, <1>2 DEF Job

LEMMA JobMade ==
  ASSUME NEW rem \in 0..MaxAsk, NEW job \in {"starting", "request", "finish", "end"},
         job # "request" => rem = 0
  PROVE  NewJob(job, rem) \in Job /\ NewJob(job, rem).job = job
         /\ NewJob(job, rem).remaining = rem
<1> QED
  BY DEF NewJob, Job

\* Jobs that are waiting or running, one more.
LEMMA SumsAppend ==
  ASSUME NEW q \in Seq(Job), NEW j \in Job, NEW f, Sums(q, f)
  PROVE  \E g : Sums(Append(q, j), g) /\ g[Len(q) + 1] = f[Len(q)] + j.remaining
<1>1. Len(q) \in Nat /\ j.remaining \in Nat
  BY JobFields
<1>2. PICK g : g = [i \in 0..(Len(q) + 1) |-> IF i <= Len(q) THEN f[i] ELSE f[Len(q)] + j.remaining]
  OBVIOUS
<1>3. f \in [0..Len(q) -> Nat] /\ f[0] = 0
  BY DEF Sums
<1>4. g \in [0..(Len(q) + 1) -> Nat] /\ g[0] = 0 /\ g[Len(q) + 1] = f[Len(q)] + j.remaining
  <2>1. PICK n \in Nat : n = Len(q)
    BY <1>1
  <2>2. \A i \in 0..n : f[i] \in Nat
    BY <1>3, <2>1
  <2>3. f[n] \in Nat /\ f[n] + j.remaining \in Nat
    BY <1>1, <2>1, <2>2
  <2>4. \A i \in 0..(n + 1) : i <= n => i \in 0..n
    BY <2>1
  <2> QED
    BY <1>2, <1>3, <2>1, <2>2, <2>3, <2>4
<1>5. \A i \in 1..Len(q) : g[i] = g[i - 1] + Append(q, j)[i].remaining
  <2> TAKE i \in 1..Len(q)
  <2>1. g[i] = f[i] /\ g[i - 1] = f[i - 1]
    BY <1>1, <1>2
  <2>2. f[i] = f[i - 1] + q[i].remaining
    BY DEF Sums
  <2> QED
    BY <2>1, <2>2, Appended
<1>6. g[Len(q) + 1] = g[Len(q)] + Append(q, j)[Len(q) + 1].remaining
  BY <1>1, <1>2, <1>4, Appended
<1>7. Sums(Append(q, j), g)
  BY <1>1, <1>4, <1>5, <1>6, Appended DEF Sums
<1> QED
  BY <1>4, <1>7

LEMMA SumsFront ==
  ASSUME NEW q \in Seq(Job), q # <<>>, NEW f, Sums(q, f)
  PROVE  /\ \E g : Sums(Front(q), g) /\ g[Len(q) - 1] = f[Len(q) - 1]
         /\ f[Len(q)] = f[Len(q) - 1] + Last(q).remaining
<1>1. Len(q) \in Nat \ {0}
  BY FrontOf
<1>2. PICK g : g = [i \in 0..(Len(q) - 1) |-> f[i]]
  OBVIOUS
<1>3. g \in [0..(Len(q) - 1) -> Nat] /\ g[0] = 0 /\ g[Len(q) - 1] = f[Len(q) - 1]
  BY <1>1, <1>2 DEF Sums
<1>4. \A i \in 1..(Len(q) - 1) : g[i] = g[i - 1] + Front(q)[i].remaining
  <2> TAKE i \in 1..(Len(q) - 1)
  <2>1. g[i] = f[i] /\ g[i - 1] = f[i - 1]
    BY <1>1, <1>2
  <2>2. f[i] = f[i - 1] + q[i].remaining
    BY <1>1 DEF Sums
  <2> QED
    BY <2>1, <2>2, FrontOf
<1>5. Sums(Front(q), g)
  BY <1>3, <1>4, FrontOf DEF Sums
<1>6. f[Len(q)] = f[Len(q) - 1] + Last(q).remaining
  <2>1. Len(q) \in 1..Len(q)
    BY <1>1
  <2>2. Last(q) = q[Len(q)]
    BY FrontOf
  <2> QED
    BY <2>1, <2>2 DEF Sums
<1> QED
  BY <1>3, <1>5, <1>6

LEMMA RestsAppend ==
  ASSUME NEW q \in Seq(Job), NEW j \in Job, NEW g, Rests(q, g)
  PROVE  \E h : Rests(Append(q, j), h) /\ h[0] = g[0] + j.remaining
<1>1. Len(q) \in Nat /\ j.remaining \in Nat
  BY JobFields
<1>2. PICK h : h = [i \in 0..(Len(q) + 1) |-> IF i <= Len(q) THEN g[i] + j.remaining ELSE 0]
  OBVIOUS
<1>3. g \in [0..Len(q) -> Nat] /\ g[Len(q)] = 0
  BY DEF Rests
<1>4. h \in [0..(Len(q) + 1) -> Nat] /\ h[Len(q) + 1] = 0 /\ h[0] = g[0] + j.remaining
  BY <1>1, <1>2, <1>3
<1>5. \A i \in 1..Len(q) : h[i - 1] = h[i] + Append(q, j)[i].remaining
  <2> TAKE i \in 1..Len(q)
  <2>1. h[i] = g[i] + j.remaining /\ h[i - 1] = g[i - 1] + j.remaining
    BY <1>1, <1>2
  <2>2. g[i - 1] = g[i] + q[i].remaining /\ g[i] \in Nat
    BY <1>3 DEF Rests
  <2>3. q[i] \in Job /\ q[i].remaining \in Nat
    BY JobFields
  <2>4. h[i - 1] = h[i] + q[i].remaining
    BY <1>1, <2>1, <2>2, <2>3
  <2> QED
    BY <2>4, Appended
<1>6. h[Len(q)] = h[Len(q) + 1] + Append(q, j)[Len(q) + 1].remaining
  <2>1. h[Len(q)] = j.remaining
    BY <1>1, <1>2, <1>3
  <2> QED
    BY <1>1, <1>4, <2>1, Appended
<1>7. Rests(Append(q, j), h)
  <2>1. Len(Append(q, j)) = Len(q) + 1
    BY Appended
  <2>2. \A i \in 1..(Len(q) + 1) : h[i - 1] = h[i] + Append(q, j)[i].remaining
    BY <1>1, <1>5, <1>6
  <2> QED
    BY <1>4, <2>1, <2>2 DEF Rests
<1> QED
  BY <1>4, <1>7

LEMMA RestsTail ==
  ASSUME NEW q \in Seq(Job), q # <<>>, NEW g, Rests(q, g)
  PROVE  \E h : Rests(Tail(q), h) /\ g[0] = h[0] + Head(q).remaining
<1>1. Len(q) \in Nat \ {0}
  BY TailOf
<1>2. PICK h : h = [i \in 0..(Len(q) - 1) |-> g[i + 1]]
  OBVIOUS
<1>3. g \in [0..Len(q) -> Nat] /\ g[Len(q)] = 0
  BY DEF Rests
<1>4. h \in [0..(Len(q) - 1) -> Nat] /\ h[Len(q) - 1] = 0 /\ h[0] = g[1]
  BY <1>1, <1>2, <1>3
<1>5. g[0] = g[1] + q[1].remaining
  <2>1. 1 \in 1..Len(q) /\ 1 - 1 = 0
    BY <1>1
  <2> QED
    BY <2>1 DEF Rests
<1>6. \A i \in 1..(Len(q) - 1) : h[i - 1] = h[i] + Tail(q)[i].remaining
  <2> TAKE i \in 1..(Len(q) - 1)
  <2>1. h[i] = g[i + 1] /\ h[i - 1] = g[i]
    BY <1>1, <1>2
  <2>2. i + 1 \in 1..Len(q) /\ (i + 1) - 1 = i
    BY <1>1
  <2>3. g[i] = g[i + 1] + q[i + 1].remaining
    BY <2>2 DEF Rests
  <2> QED
    BY <2>1, <2>3, TailOf
<1>7. Rests(Tail(q), h)
  BY <1>4, <1>6, TailOf DEF Rests
<1> QED
  BY <1>4, <1>5, <1>7, TailOf

\* What two sums are.
LEMMA SumsNat ==
  ASSUME NEW st \in Seq(Job), NEW qu \in Seq(Job), NEW f, NEW g, Sums(st, f), Rests(qu, g)
  PROVE  f[Len(st)] \in Nat /\ g[0] \in Nat
<1>1. Len(st) \in 0..Len(st) /\ 0 \in 0..Len(qu)
  OBVIOUS
<1>2. f \in [0..Len(st) -> Nat] /\ g \in [0..Len(qu) -> Nat]
  BY DEF Sums, Rests
<1> QED
  BY <1>1, <1>2

LEMMA OwesBound ==
  ASSUME NEW st \in Seq(Job), NEW qu \in Seq(Job), NEW k \in Int, NEW exact \in BOOLEAN,
         Owes(st, qu, k, exact)
  PROVE  k >= 0
<1>1. PICK f, g : Sums(st, f) /\ Rests(qu, g) /\ f[Len(st)] + g[0] <= k
  BY DEF Owes
<1>2. f[Len(st)] \in Nat /\ g[0] \in Nat
  BY <1>1, SumsNat
<1> QED
  BY <1>1, <1>2

\* Without jobs nothing is left to send.
LEMMA OwesNone ==
  ASSUME NEW k \in Int, Owes(<<>>, <<>>, k, TRUE)
  PROVE  k = 0
<1>1. PICK f, g : Sums(<<>>, f) /\ Rests(<<>>, g) /\ f[Len(<<>>)] + g[0] = k
  BY DEF Owes
<1>2. f[0] = 0 /\ g[Len(<<>>)] = 0 /\ Len(<<>>) = 0
  BY <1>1 DEF Sums, Rests
<1> QED
  BY <1>1, <1>2

LEMMA OwesAtMost ==
  ASSUME NEW st \in Seq(Job), NEW qu \in Seq(Job), NEW k \in Int, NEW exact \in BOOLEAN,
         Owes(st, qu, k, exact), NEW m \in Int, NEW exact2 \in BOOLEAN, k <= m,
         exact2 => exact /\ k = m
  PROVE  Owes(st, qu, m, exact2)
<1>1. PICK f, g : /\ Sums(st, f) /\ Rests(qu, g) /\ f[Len(st)] + g[0] <= k
                  /\ exact => f[Len(st)] + g[0] = k
  BY DEF Owes
<1>2. f[Len(st)] \in Nat /\ g[0] \in Nat
  BY <1>1, SumsNat
<1>3. f[Len(st)] + g[0] <= m
  BY <1>1, <1>2
<1>4. exact2 => f[Len(st)] + g[0] = m
  BY <1>1
<1> QED
  BY <1>1, <1>3, <1>4 DEF Owes

LEMMA OwesMoreStack ==
  ASSUME NEW st \in Seq(Job), NEW qu \in Seq(Job), NEW k \in Int, NEW exact \in BOOLEAN,
         Owes(st, qu, k, exact), NEW j \in Job
  PROVE  Owes(Append(st, j), qu, k + j.remaining, exact)
<1>1. PICK f, g : /\ Sums(st, f) /\ Rests(qu, g) /\ f[Len(st)] + g[0] <= k
                  /\ exact => f[Len(st)] + g[0] = k
  BY DEF Owes
<1>2. PICK h : Sums(Append(st, j), h) /\ h[Len(st) + 1] = f[Len(st)] + j.remaining
  BY <1>1, SumsAppend
<1>3. f[Len(st)] \in Nat /\ g[0] \in Nat /\ j.remaining \in Nat
  BY <1>1, SumsNat, JobFields
<1>4. Len(Append(st, j)) = Len(st) + 1
  BY Appended
<1>5. /\ h[Len(st) + 1] + g[0] <= k + j.remaining
      /\ exact => h[Len(st) + 1] + g[0] = k + j.remaining
  BY <1>1, <1>2, <1>3
<1> QED
  BY <1>1, <1>2, <1>4, <1>5 DEF Owes

LEMMA OwesMoreQueue ==
  ASSUME NEW st \in Seq(Job), NEW qu \in Seq(Job), NEW k \in Int, NEW exact \in BOOLEAN,
         Owes(st, qu, k, exact), NEW j \in Job
  PROVE  Owes(st, Append(qu, j), k + j.remaining, exact)
<1>1. PICK f, g : /\ Sums(st, f) /\ Rests(qu, g) /\ f[Len(st)] + g[0] <= k
                  /\ exact => f[Len(st)] + g[0] = k
  BY DEF Owes
<1>2. PICK h : Rests(Append(qu, j), h) /\ h[0] = g[0] + j.remaining
  BY <1>1, RestsAppend
<1>3. f[Len(st)] \in Nat /\ g[0] \in Nat /\ j.remaining \in Nat
  BY <1>1, SumsNat, JobFields
<1>4. /\ f[Len(st)] + h[0] <= k + j.remaining
      /\ exact => f[Len(st)] + h[0] = k + j.remaining
  BY <1>1, <1>2, <1>3
<1> QED
  BY <1>1, <1>2, <1>4 DEF Owes

LEMMA OwesFront ==
  ASSUME NEW st \in Seq(Job), NEW qu \in Seq(Job), NEW k \in Int, NEW exact \in BOOLEAN,
         Owes(st, qu, k, exact), st # <<>>
  PROVE  Owes(Front(st), qu, k - Last(st).remaining, exact)
<1>1. PICK f, g : /\ Sums(st, f) /\ Rests(qu, g) /\ f[Len(st)] + g[0] <= k
                  /\ exact => f[Len(st)] + g[0] = k
  BY DEF Owes
<1>2. /\ \E h : Sums(Front(st), h) /\ h[Len(st) - 1] = f[Len(st) - 1]
      /\ f[Len(st)] = f[Len(st) - 1] + Last(st).remaining
  BY <1>1, SumsFront
<1>3. PICK h : Sums(Front(st), h) /\ h[Len(st) - 1] = f[Len(st) - 1]
  BY <1>2
<1>4. Len(Front(st)) = Len(st) - 1 /\ Len(st) - 1 \in 0..Len(st)
  BY FrontOf
<1>5. f[Len(st) - 1] \in Nat /\ g[0] \in Nat
  <2>1. f \in [0..Len(st) -> Nat]
    BY <1>1 DEF Sums
  <2> QED
    BY <1>1, <1>4, <2>1, SumsNat
<1>6. Last(st).remaining \in Nat
  <2>1. Last(st) \in Job
    BY FrontOf
  <2> QED
    BY <2>1, JobFields
<1>7. /\ h[Len(st) - 1] + g[0] <= k - Last(st).remaining
      /\ exact => h[Len(st) - 1] + g[0] = k - Last(st).remaining
  BY <1>1, <1>2, <1>3, <1>5, <1>6
<1> QED
  BY <1>1, <1>3, <1>4, <1>7 DEF Owes

LEMMA OwesNothing == Owes(<<>>, <<>>, 0, TRUE)
<1>1. PICK f : f = [i \in 0..0 |-> 0]
  OBVIOUS
<1>2. f \in [0..0 -> Nat] /\ f[0] = 0
  BY <1>1
<1>3. Sums(<<>>, f)
  BY <1>2 DEF Sums
<1>4. Rests(<<>>, f)
  BY <1>2 DEF Rests
<1> QED
  BY <1>2, <1>3, <1>4 DEF Owes

LEMMA OwesNext ==
  ASSUME NEW qu \in Seq(Job), NEW k \in Int, NEW exact \in BOOLEAN,
         Owes(<<>>, qu, k, exact), qu # <<>>
  PROVE  Owes(<<Head(qu)>>, Tail(qu), k, exact)
<1>1. PICK f, g : /\ Sums(<<>>, f) /\ Rests(qu, g) /\ f[0] + g[0] <= k
                  /\ exact => f[0] + g[0] = k
  BY DEF Owes
<1>2. PICK h : Rests(Tail(qu), h) /\ g[0] = h[0] + Head(qu).remaining
  BY <1>1, RestsTail
<1>3. Head(qu) \in Job /\ Head(qu).remaining \in Nat /\ Tail(qu) \in Seq(Job)
  <2>1. Head(qu) \in Job /\ Tail(qu) \in Seq(Job)
    BY TailOf
  <2> QED
    BY <2>1, JobFields
<1>4. f[0] = 0 /\ h[0] \in Nat
  <2>1. <<>> \in Seq(Job)
    OBVIOUS
  <2> QED
    BY <1>1, <1>2, <1>3, <2>1, SumsNat DEF Sums
<1>5. /\ f[0] + h[0] <= k - Head(qu).remaining
      /\ exact => f[0] + h[0] = k - Head(qu).remaining
  BY <1>1, <1>2, <1>3, <1>4
<1>6. Owes(<<>>, Tail(qu), k - Head(qu).remaining, exact)
  BY <1>1, <1>2, <1>5 DEF Owes
<1>7. Owes(Append(<<>>, Head(qu)), Tail(qu), (k - Head(qu).remaining) + Head(qu).remaining, exact)
  <2>1. k - Head(qu).remaining \in Int /\ <<>> \in Seq(Job)
    BY <1>3
  <2> QED
    BY <1>3, <1>6, <2>1, OwesMoreStack
<1>8. Append(<<>>, Head(qu)) = <<Head(qu)>>
  BY <1>3
<1>9. (k - Head(qu).remaining) + Head(qu).remaining = k
  BY <1>3
<1> QED
  BY <1>7, <1>8, <1>9

-----------------------------------------------------------------------------
(* The kinds of jobs *)

LEMMA JobsInAppend ==
  ASSUME NEW st \in Seq(Job), NEW qu \in Seq(Job), NEW S, JobsIn(st, qu, S),
         NEW j \in Job, j.job \in S
  PROVE  JobsIn(Append(st, j), qu, S) /\ JobsIn(st, Append(qu, j), S)
<1>1. \A i \in 1..Len(Append(st, j)) : Append(st, j)[i].job \in S
  <2> TAKE i \in 1..Len(Append(st, j))
  <2>1. i \in 1..Len(st) \/ i = Len(st) + 1
    BY Appended
  <2> QED
    BY <2>1, Appended DEF JobsIn
<1>2. \A i \in 1..Len(Append(qu, j)) : Append(qu, j)[i].job \in S
  <2> TAKE i \in 1..Len(Append(qu, j))
  <2>1. i \in 1..Len(qu) \/ i = Len(qu) + 1
    BY Appended
  <2> QED
    BY <2>1, Appended DEF JobsIn
<1> QED
  BY <1>1, <1>2 DEF JobsIn

LEMMA JobsInFront ==
  ASSUME NEW st \in Seq(Job), st # <<>>, NEW qu, NEW S, JobsIn(st, qu, S)
  PROVE  JobsIn(Front(st), qu, S) /\ Last(st).job \in S
<1>1. \A i \in 1..Len(Front(st)) : i \in 1..Len(st) /\ Front(st)[i] = st[i]
  BY FrontOf
<1>2. Len(st) \in Nat \ {0} /\ Last(st) = st[Len(st)]
  BY FrontOf
<1>3. Len(st) \in 1..Len(st)
  BY <1>2
<1> QED
  BY <1>1, <1>2, <1>3 DEF JobsIn

LEMMA JobsInNext ==
  ASSUME NEW st, NEW qu \in Seq(Job), qu # <<>>, NEW S, JobsIn(st, qu, S)
  PROVE  JobsIn(<<Head(qu)>>, Tail(qu), S)
<1>1. \A i \in 1..Len(Tail(qu)) : i + 1 \in 1..Len(qu) /\ Tail(qu)[i] = qu[i + 1]
  BY TailOf
<1>2. 1 \in 1..Len(qu) /\ Head(qu) = qu[1]
  BY TailOf
<1>3. \A i \in 1..Len(<<Head(qu)>>) : <<Head(qu)>>[i] = qu[1]
  BY <1>2
<1> QED
  BY <1>1, <1>2, <1>3 DEF JobsIn

Later   == {"request", "finish", "end"}
Earlier == {"starting", "request", "end"}

\* The jobs left when the innermost one calls out, after cc values.
Ready(base, cc, exact) ==
  /\ base \in Seq(Job) /\ Len(base) <= limit + 1
  /\ Owes(base, queue, asked - cc, exact)
  /\ JobsIn(base, queue, Later)
  /\ ~stop => JobsIn(base, queue, Earlier)

\* The innermost job goes on as another one.
LEMMA RestEffect ==
  ASSUME FlowInv, stack # <<>>, NEW job \in {"end", "request"},
         NEW rem \in 0..Top.remaining, job = "end" => rem = 0
  PROVE  /\ Rest(job, rem) \in Seq(Job) /\ Len(Rest(job, rem)) = Len(stack)
         /\ Owes(Rest(job, rem), queue, ((asked - c) - Top.remaining) + rem, Wanted)
         /\ JobsIn(stack, queue, Later) => JobsIn(Rest(job, rem), queue, Later)
         /\ JobsIn(stack, queue, Earlier) => JobsIn(Rest(job, rem), queue, Earlier)
<1>1. stack \in Seq(Job) /\ queue \in Seq(Job) /\ asked - c \in Int /\ Wanted \in BOOLEAN
  BY DEF FlowInv, TypeOK, Wanted
<1>2. Top \in Job /\ Top.remaining \in 0..MaxAsk /\ Front(stack) \in Seq(Job)
      /\ Len(Front(stack)) = Len(stack) - 1 /\ Len(stack) \in Nat
  BY <1>1, FrontOf, JobFields DEF Top
<1>3. PICK j : j = NewJob(job, rem)
  OBVIOUS
<1>4. rem \in 0..MaxAsk
  BY <1>2, FlowAssumption
<1>5. j \in Job /\ j.job = job /\ j.remaining = rem
  BY <1>3, <1>4, JobMade
<1>6. Rest(job, rem) = Append(Front(stack), j)
  BY <1>3 DEF Rest
<1>7. Owes(Front(stack), queue, (asked - c) - Top.remaining, Wanted)
  BY <1>1, OwesFront DEF FlowInv, Demand, Top
<1>8. (asked - c) - Top.remaining \in Int
  BY <1>1, <1>2
<1>9. Owes(Append(Front(stack), j), queue, ((asked - c) - Top.remaining) + rem, Wanted)
  BY <1>1, <1>2, <1>5, <1>7, <1>8, OwesMoreStack
<1>10. ASSUME NEW S, job \in S, JobsIn(stack, queue, S)
       PROVE  JobsIn(Append(Front(stack), j), queue, S)
  <2>1. JobsIn(Front(stack), queue, S)
    BY <1>1, <1>10, JobsInFront
  <2> QED
    BY <1>1, <1>2, <1>5, <1>10, <2>1, JobsInAppend
<1>11. job \in Later /\ job \in Earlier
  BY DEF Later, Earlier
<1>12. Append(Front(stack), j) \in Seq(Job) /\ Len(Append(Front(stack), j)) = Len(stack)
  BY <1>2, <1>5, Appended
<1> QED
  BY <1>6, <1>9, <1>10, <1>11, <1>12

\* A job that is not starting() runs after the flow has begun and its consumer has started.
LEMMA JobBegun ==
  ASSUME FlowInv, stack # <<>>, Top.job \in {"request", "finish"}
  PROVE  Begun /\ fr.started /\ phase = "submitted" /\ JobsIn(stack, queue, Later)
         /\ (Top.job = "finish" => stop)
<1>1. stack \in Seq(Job)
  BY DEF FlowInv, TypeOK
<1>2. \A S : JobsIn(stack, queue, S) => Top.job \in S
  BY <1>1, JobsInFront DEF Top
<1>3. Begun
  BY <1>2 DEF FlowInv, NotBegun
<1>4. fr.started
  BY <1>2 DEF FlowInv, NotStarted
<1>5. Top.job = "finish" => stop
  BY <1>2 DEF FlowInv, Finishing
<1> QED
  BY <1>3, <1>4, <1>5 DEF FlowInv, HasBegun, Later

\* A job that goes on with its loop, and one that ends: what it had left is not sent.
LEMMA RestReady ==
  ASSUME FlowInv, stack # <<>>, Top.job \in {"request", "finish"}
  PROVE  /\ Ready(Rest("end", 0), c, Wanted /\ Top.remaining = 0)
         /\ Top.remaining > 0 => Ready(Rest("request", Top.remaining - 1), c + 1, Wanted)
<1>1. stack \in Seq(Job) /\ queue \in Seq(Job) /\ asked \in Nat /\ c \in Nat
      /\ Len(stack) <= limit + 1 /\ Wanted \in BOOLEAN
  BY FlowAssumption DEF FlowInv, TypeOK, Wanted
<1>2. Top \in Job /\ Top.remaining \in Nat
  BY <1>1, FrontOf, JobFields DEF Top
<1>3. JobsIn(stack, queue, Later) /\ (~stop => JobsIn(stack, queue, Earlier))
  BY JobBegun DEF FlowInv, Finishing, Earlier
<1>4. Ready(Rest("end", 0), c, Wanted /\ Top.remaining = 0)
  <2>1. 0 \in 0..Top.remaining
    BY <1>2
  <2>2. PICK m \in Int : m = ((asked - c) - Top.remaining) + 0
    BY <1>1, <1>2
  <2>3. /\ Rest("end", 0) \in Seq(Job) /\ Len(Rest("end", 0)) = Len(stack)
        /\ Owes(Rest("end", 0), queue, m, Wanted)
        /\ JobsIn(Rest("end", 0), queue, Later)
        /\ ~stop => JobsIn(Rest("end", 0), queue, Earlier)
    BY <1>3, <2>1, <2>2, RestEffect
  <2>4. PICK exact \in BOOLEAN : exact = (Wanted /\ Top.remaining = 0)
    OBVIOUS
  <2>5. asked - c \in Int /\ m <= asked - c /\ (Top.remaining = 0 => m = asked - c)
    BY <1>1, <1>2, <2>2
  <2>6. exact => Wanted /\ m = asked - c
    BY <2>4, <2>5, Zenon
  <2>7. Owes(Rest("end", 0), queue, asked - c, exact)
    BY <1>1, <2>3, <2>5, <2>6, OwesAtMost
  <2> QED
    BY <1>1, <2>3, <2>4, <2>7 DEF Ready
<1>5. ASSUME Top.remaining > 0
      PROVE  Ready(Rest("request", Top.remaining - 1), c + 1, Wanted)
  <2>1. Top.remaining - 1 \in 0..Top.remaining
    BY <1>2, <1>5
  <2>2. PICK base : base = Rest("request", Top.remaining - 1)
    OBVIOUS
  <2>3. /\ base \in Seq(Job) /\ Len(base) = Len(stack)
        /\ Owes(base, queue, ((asked - c) - Top.remaining) + (Top.remaining - 1), Wanted)
        /\ JobsIn(base, queue, Later)
        /\ ~stop => JobsIn(base, queue, Earlier)
    BY <1>3, <2>1, <2>2, RestEffect
  <2>4. ((asked - c) - Top.remaining) + (Top.remaining - 1) = asked - (c + 1)
    BY <1>1, <1>2
  <2>5. Owes(base, queue, asked - (c + 1), Wanted)
    BY <2>3, <2>4
  <2> QED
    BY <1>1, <2>2, <2>3, <2>5 DEF Ready
<1> QED
  BY <1>4, <1>5

-----------------------------------------------------------------------------
(* Calls of up *)

\* What a call of up leaves: the jobs, and what they owe for what was asked.
UpEffect(base) ==
  /\ stack' \in Seq(Job) /\ Len(stack') <= limit + 1 /\ queue' \in Seq(Job)
  /\ asked' \in Nat /\ asked' >= asked /\ failures' \in 0..MaxFailures
  /\ stop' \in BOOLEAN /\ up' \in BOOLEAN
  /\ stop => stop'
  /\ \A k \in Int, e \in BOOLEAN :
       Owes(base, queue, k, e) => Owes(stack', queue', k + (asked' - asked), e /\ ~stop')
  /\ JobsIn(base, queue, Later) => JobsIn(stack', queue', Later)
  /\ ~stop' /\ JobsIn(base, queue, Earlier) => JobsIn(stack', queue', Earlier)

LEMMA SubmitEffect ==
  ASSUME TypeOK, NEW base \in Seq(Job), Len(base) <= limit + 1, NEW j \in Job, Submit(j, base)
  PROVE  /\ stack' \in Seq(Job) /\ Len(stack') <= limit + 1 /\ queue' \in Seq(Job)
         /\ \A k \in Int, e \in BOOLEAN :
              Owes(base, queue, k, e) => Owes(stack', queue', k + j.remaining, e)
         /\ \A S : JobsIn(base, queue, S) /\ j.job \in S => JobsIn(stack', queue', S)
<1>1. queue \in Seq(Job) /\ limit \in Nat /\ Len(base) \in Nat
  BY FlowAssumption DEF TypeOK
<1>2. CASE InPlace(base)
  <2>1. stack' = Append(base, j) /\ queue' = queue /\ Len(base) <= limit
    BY <1>2 DEF Submit, InPlace
  <2>2. Append(base, j) \in Seq(Job) /\ Len(Append(base, j)) = Len(base) + 1
    BY Appended
  <2>3. Len(Append(base, j)) <= limit + 1
    BY <1>1, <2>1, <2>2
  <2>4. \A k \in Int, e \in BOOLEAN :
          Owes(base, queue, k, e) => Owes(Append(base, j), queue, k + j.remaining, e)
    BY <1>1, OwesMoreStack
  <2>5. \A S : JobsIn(base, queue, S) /\ j.job \in S => JobsIn(Append(base, j), queue, S)
    BY <1>1, JobsInAppend
  <2> QED
    BY <1>1, <2>1, <2>2, <2>3, <2>4, <2>5
<1>3. CASE ~InPlace(base)
  <2>1. stack' = base /\ queue' = Append(queue, j)
    BY <1>3 DEF Submit
  <2>2. Append(queue, j) \in Seq(Job)
    BY <1>1, Appended
  <2>3. \A k \in Int, e \in BOOLEAN :
          Owes(base, queue, k, e) => Owes(base, Append(queue, j), k + j.remaining, e)
    BY <1>1, OwesMoreQueue
  <2>4. \A S : JobsIn(base, queue, S) /\ j.job \in S => JobsIn(base, Append(queue, j), S)
    BY <1>1, JobsInAppend
  <2> QED
    BY <2>1, <2>2, <2>3, <2>4
<1> QED
  BY <1>2, <1>3

\* A submission, and what it adds to what was asked.
LEMMA SubmitUp ==
  ASSUME TypeOK, NEW base \in Seq(Job), Len(base) <= limit + 1, NEW j \in Job, Submit(j, base),
         NEW more \in Nat, asked' = asked + more, j.remaining <= more,
         ~stop' => j.remaining = more /\ j.job \in Earlier, j.job \in Later,
         stop' \in BOOLEAN, stop => stop', up' \in BOOLEAN, failures' \in 0..MaxFailures
  PROVE  UpEffect(base)
<1>1. asked \in Nat /\ j.remaining \in Nat
  BY JobFields DEF TypeOK
<1>2. asked' \in Nat /\ asked' >= asked /\ asked' - asked = more
  BY <1>1
<1>3. /\ stack' \in Seq(Job) /\ Len(stack') <= limit + 1 /\ queue' \in Seq(Job)
      /\ \A k \in Int, e \in BOOLEAN :
           Owes(base, queue, k, e) => Owes(stack', queue', k + j.remaining, e)
      /\ \A S : JobsIn(base, queue, S) /\ j.job \in S => JobsIn(stack', queue', S)
  BY SubmitEffect
<1>4. ASSUME NEW k \in Int, NEW e \in BOOLEAN, Owes(base, queue, k, e)
      PROVE  Owes(stack', queue', k + (asked' - asked), e /\ ~stop')
  <2>1. Owes(stack', queue', k + j.remaining, e)
    BY <1>3, <1>4
  <2>2. PICK m \in Int, m2 \in Int : m = k + j.remaining /\ m2 = k + (asked' - asked)
    BY <1>1, <1>2
  <2>3. m <= m2 /\ (~stop' => m = m2)
    BY <1>1, <1>2, <2>2
  <2>4. PICK e2 \in BOOLEAN : e2 = (e /\ ~stop')
    OBVIOUS
  <2>5. Owes(stack', queue', m2, e2)
    BY <1>3, <2>1, <2>2, <2>3, <2>4, OwesAtMost
  <2> QED
    BY <2>2, <2>4, <2>5
<1> QED
  BY <1>2, <1>3, <1>4 DEF UpEffect

LEMMA NothingEffect ==
  ASSUME TypeOK, NEW base \in Seq(Job), Len(base) <= limit + 1, stack' = base,
         UNCHANGED <<queue, stop, up, asked>>, failures' \in 0..MaxFailures
  PROVE  UpEffect(base)
<1>1. \A k \in Int : k + (asked' - asked) = k
  BY DEF TypeOK
<1>2. /\ stack' \in Seq(Job) /\ Len(stack') <= limit + 1 /\ queue' \in Seq(Job)
      /\ asked' \in Nat /\ asked' >= asked /\ failures' \in 0..MaxFailures
      /\ stop' \in BOOLEAN /\ up' \in BOOLEAN
  BY DEF TypeOK
<1>3. ASSUME NEW k \in Int, NEW e \in BOOLEAN, Owes(base, queue, k, e)
      PROVE  Owes(base, queue, k, e /\ ~stop')
  BY <1>3 DEF Owes
<1> QED
  BY <1>1, <1>2, <1>3 DEF UpEffect

LEMMA CallUpEffect ==
  ASSUME TypeOK, NEW base \in Seq(Job), Len(base) <= limit + 1, NEW ask, CallUp(ask, base)
  PROVE  UpEffect(base)
<1>1. asked \in Nat /\ failures \in 0..MaxFailures /\ stop \in BOOLEAN /\ up \in BOOLEAN
      /\ MaxFailures \in Nat /\ MaxAsk \in Nat
  BY FlowAssumption DEF TypeOK
<1>2. CASE CallsNothing(base)
  <2>1. stack' = base /\ UNCHANGED <<queue, stop, up, asked>> /\ failures' = failures
    BY <1>2 DEF CallsNothing
  <2> QED
    BY <1>1, <2>1, NothingEffect
<1>3. CASE /\ ask \in 1..MaxAsk /\ asked' = asked + ask /\ Submit(NewJob("request", ask), base)
           /\ UNCHANGED <<stop, up, failures>>
  <2>1. PICK j : j = NewJob("request", ask)
    OBVIOUS
  <2>2. ask \in 0..MaxAsk /\ ask \in Nat /\ ask <= ask
    BY <1>1, <1>3
  <2>3. j \in Job /\ j.job = "request" /\ j.remaining = ask
    BY <2>1, <2>2, JobMade
  <2>4. Submit(j, base) /\ stop' = stop /\ up' = up /\ failures' = failures
    BY <1>3, <2>1
  <2>5. "request" \in Later /\ "request" \in Earlier
    BY DEF Later, Earlier
  <2> QED
    BY <1>1, <1>3, <2>2, <2>3, <2>4, <2>5, SubmitUp
<1>4. ASSUME Stop(base), up' \in BOOLEAN, failures' \in 0..MaxFailures,
             NEW more \in Nat, asked' = asked + more
      PROVE  UpEffect(base)
  <2>1. PICK j : j = NewJob("finish", 0)
    OBVIOUS
  <2>2. j \in Job /\ j.job = "finish" /\ j.remaining = 0
    BY <1>1, <2>1, JobMade
  <2>3. stop' = TRUE /\ Submit(j, base)
    BY <1>4, <2>1 DEF Stop
  <2>4. "finish" \in Later /\ 0 <= more
    BY DEF Later
  <2> QED
    BY <1>4, <2>2, <2>3, <2>4, SubmitUp
<1>5. Refused => failures' \in 0..MaxFailures
  BY <1>1 DEF Refused
<1>6. CASE /\ ask \in 1..MaxAsk /\ asked' = asked + ask /\ Refused /\ Stop(base)
           /\ UNCHANGED up
  <2>1. ask \in Nat
    BY <1>1, <1>6
  <2> QED
    BY <1>1, <1>4, <1>5, <1>6, <2>1
<1>7. CASE up' = TRUE /\ Stop(base) /\ (UNCHANGED failures \/ Refused) /\ UNCHANGED asked
  <2>1. asked' = asked + 0
    BY <1>1, <1>7
  <2> QED
    BY <1>1, <1>4, <1>5, <1>7, <2>1
<1> QED
  BY <1>2, <1>3, <1>6, <1>7 DEF CallUp

-----------------------------------------------------------------------------
(* Receivers *)

LEMMA FlowCalls ==
  ASSUME NEW r \in FlowReceiverType
  PROVE  /\ ~r.started =>
              /\ Starting(r) \in FlowReceiverType /\ Starting(r).started
              /\ Starting(r).done = r.done /\ Starting(r).dead = r.dead
              /\ Starting(r).end = r.end
         /\ terminate(r) \in FlowReceiverType /\ terminate(r).started = r.started
         /\ terminate(r).done = r.done
         /\ r.started /\ r.done =>
              FlowValue(r) = r /\ FlowError(r, "thrown") = r /\ FlowDone(r) = r
         /\ r.started /\ ~r.done =>
              /\ FlowValue(r) \in FlowReceiverType /\ FlowValue(r).started
              /\ ~FlowValue(r).done /\ FlowValue(r).dead = r.dead /\ FlowValue(r).end = r.end
              /\ FlowError(r, "thrown") \in FlowReceiverType /\ FlowError(r, "thrown").started
              /\ FlowError(r, "thrown").done /\ FlowError(r, "thrown").dead = r.dead
              /\ FlowError(r, "thrown").end = "thrown"
              /\ FlowDone(r) \in FlowReceiverType /\ FlowDone(r).started
              /\ FlowDone(r).done /\ FlowDone(r).dead = r.dead /\ FlowDone(r).end = "done"
<1>1. ASSUME ~r.started
      PROVE  /\ Starting(r) \in FlowReceiverType /\ Starting(r).started
             /\ Starting(r).done = r.done /\ Starting(r).dead = r.dead
             /\ Starting(r).end = r.end
  BY <1>1 DEF FlowReceiverType, Starting
<1>2. /\ terminate(r) \in FlowReceiverType /\ terminate(r).started = r.started
      /\ terminate(r).done = r.done
  BY DEF FlowReceiverType, terminate
<1>3. ASSUME r.started, r.done
      PROVE  FlowValue(r) = r /\ FlowError(r, "thrown") = r /\ FlowDone(r) = r
  BY <1>3 DEF FlowValue, FlowError, FlowDone, Value, Error, Done
<1>4. ASSUME r.started, ~r.done
      PROVE  /\ FlowValue(r) \in FlowReceiverType /\ FlowValue(r).started
             /\ FlowValue(r).done = r.done /\ FlowValue(r).dead = r.dead /\ FlowValue(r).end = r.end
  BY <1>4 DEF FlowReceiverType, FlowValue, Value
<1>5. ASSUME r.started, ~r.done
      PROVE  /\ FlowError(r, "thrown") \in FlowReceiverType /\ FlowError(r, "thrown").started
             /\ FlowError(r, "thrown").done /\ FlowError(r, "thrown").dead = r.dead
             /\ FlowError(r, "thrown").end = "thrown"
  BY <1>5 DEF FlowReceiverType, FlowError, Error, Ends, Errors
<1>6. ASSUME r.started, ~r.done
      PROVE  /\ FlowDone(r) \in FlowReceiverType /\ FlowDone(r).started
             /\ FlowDone(r).done /\ FlowDone(r).dead = r.dead /\ FlowDone(r).end = "done"
  BY <1>6 DEF FlowReceiverType, FlowDone, Done, Ends
<1> QED
  BY <1>1, <1>2, <1>3, <1>4, <1>5, <1>6

\* What a call makes of the receiver given to for_each.
LEMMA Calls ==
  ASSUME NEW r \in ReceiverType
  PROVE  /\ set_value(r, TRUE) \in ReceiverType /\ set_value(r, FALSE) \in ReceiverType
         /\ set_error(r, "thrown") \in ReceiverType /\ set_done(r) \in ReceiverType
<1>1. Value(r) \in ReceiverType
  BY DEF Value, ReceiverType
<1>2. Error(r, "thrown") \in ReceiverType
  BY DEF Error, ReceiverType, Ends, Errors
<1>3. Done(r) \in ReceiverType
  BY DEF Done, ReceiverType, Ends
<1> QED
  BY <1>1, <1>2, <1>3 DEF set_value, set_error, set_done

-----------------------------------------------------------------------------
(* The consumer *)

\* A signal reaches a flow receiver that has started.
Heard(s) ==
  /\ fr' \in FlowReceiverType /\ fr'.started /\ fr'.dead = fr.dead
  /\ fr'.done <=> Ended(fr')
  /\ out' \in ReceiverType /\ held' = held
  /\ fr.done => fr' = fr /\ got' = got
  /\ ~fr.done /\ s.signal = "value" => got' = Append(got, s.value) /\ fr'.end # "done"
  /\ ~fr.done /\ s.signal # "value" =>
       got' = got /\ fr'.done /\ (fr'.end = "done" <=> s.signal = "done")

LEMMA ReceiveEffect ==
  ASSUME TypeOK, Flags, fr.started, NEW base \in Seq(Job), Len(base) <= limit + 1,
         NEW s, s.signal # "starting", Receive(s, base)
  PROVE  Heard(s) /\ UpEffect(base)
<1>1. fr \in FlowReceiverType /\ out \in ReceiverType /\ fr.end \in Ends
  BY DEF TypeOK, FlowReceiverType
<1>2. CallsNothing(base) => UpEffect(base)
  BY NothingEffect DEF CallsNothing, TypeOK
<1>3. /\ set_value(out, TRUE) \in ReceiverType /\ set_value(out, FALSE) \in ReceiverType
      /\ set_error(out, "thrown") \in ReceiverType /\ set_done(out) \in ReceiverType
  BY <1>1, Calls
<1>4. ASSUME s.signal = "value", ReceiveValue(s.value, base)
      PROVE  Heard(s) /\ UpEffect(base)
  <2>1. CASE fr.done
    <3>1. fr' = FlowValue(fr) /\ CallsNothing(base) /\ UNCHANGED <<out, got, held>>
      BY <1>4, <2>1 DEF ReceiveValue, Listens
    <3>2. fr' = fr
      BY <1>1, <2>1, <3>1, FlowCalls
    <3> QED
      BY <1>1, <1>2, <1>3, <2>1, <3>1, <3>2 DEF Heard, Flags
  <2>2. CASE ~fr.done
    <3>1. /\ got' = Append(got, s.value) /\ held' = held
          /\ fr' \in {FlowValue(fr), FlowError(fr, "thrown")}
          /\ out' \in {out, set_value(out, TRUE), set_value(out, FALSE)}
      BY <1>4, <2>2 DEF ReceiveValue, Listens
    <3>2. (\E ask : CallUp(ask, base)) \/ CallsNothing(base)
      BY <1>4, <2>2 DEF ReceiveValue, Listens
    <3>3. UpEffect(base)
      BY <1>2, <3>2, CallUpEffect
    <3>4. /\ fr' \in FlowReceiverType /\ fr'.started /\ fr'.dead = fr.dead
          /\ (fr'.done <=> Ended(fr')) /\ fr'.end # "done"
      BY <1>1, <2>2, <3>1, FlowCalls DEF Ended, Flags
    <3> QED
      BY <1>1, <1>3, <1>4, <2>2, <3>1, <3>3, <3>4 DEF Heard
  <2> QED
    BY <2>1, <2>2
<1>5. ASSUME s.signal = "error", ReceiveError(base)
      PROVE  Heard(s) /\ UpEffect(base)
  <2>1. fr' = FlowError(fr, "thrown") /\ CallsNothing(base) /\ UNCHANGED <<got, held>>
        /\ out' \in {out, set_error(out, "thrown")}
    BY <1>5 DEF ReceiveError
  <2>2. CASE fr.done
    BY <1>1, <1>2, <1>3, <2>1, <2>2, FlowCalls DEF Heard, Flags
  <2>3. CASE ~fr.done
    <3>1. /\ fr' \in FlowReceiverType /\ fr'.started /\ fr'.dead = fr.dead
          /\ fr'.done /\ fr'.end = "thrown"
      BY <1>1, <2>1, <2>3, FlowCalls
    <3> QED
      BY <1>1, <1>2, <1>3, <1>5, <2>1, <2>3, <3>1 DEF Heard, Ended
  <2> QED
    BY <2>2, <2>3
<1>6. ASSUME s.signal = "done", ReceiveDone(base)
      PROVE  Heard(s) /\ UpEffect(base)
  <2>1. fr' = FlowDone(fr) /\ CallsNothing(base) /\ UNCHANGED <<got, held>>
        /\ out' \in {out, set_done(out)}
    BY <1>6 DEF ReceiveDone
  <2>2. CASE fr.done
    BY <1>1, <1>2, <1>3, <2>1, <2>2, FlowCalls DEF Heard, Flags
  <2>3. CASE ~fr.done
    <3>1. /\ fr' \in FlowReceiverType /\ fr'.started /\ fr'.dead = fr.dead
          /\ fr'.done /\ fr'.end = "done"
      BY <1>1, <2>1, <2>3, FlowCalls
    <3> QED
      BY <1>1, <1>2, <1>3, <1>6, <2>1, <2>3, <3>1 DEF Heard, Ended
  <2> QED
    BY <2>2, <2>3
<1> QED
  BY <1>4, <1>5, <1>6 DEF Receive

LEMMA StartingEffect ==
  ASSUME TypeOK, Flags, ~fr.started, ~fr.done, NEW base \in Seq(Job), Len(base) <= limit + 1,
         ReceiveStarting(base)
  PROVE  /\ fr' \in FlowReceiverType /\ fr'.started /\ fr'.dead = fr.dead
         /\ (fr'.done <=> Ended(fr')) /\ fr'.end # "done"
         /\ out' = out /\ got' = got /\ held' \in BOOLEAN
         /\ UpEffect(base)
<1>1. fr \in FlowReceiverType /\ held \in BOOLEAN
  BY DEF TypeOK
<1>2. /\ Starting(fr) \in FlowReceiverType /\ Starting(fr).started
      /\ ~Starting(fr).done /\ Starting(fr).dead = fr.dead /\ Starting(fr).end = fr.end
  BY <1>1, FlowCalls
<1>3. PICK r \in FlowReceiverType : r = Starting(fr)
  BY <1>2
<1>4. /\ FlowError(r, "thrown") \in FlowReceiverType /\ FlowError(r, "thrown").started
      /\ FlowError(r, "thrown").done /\ FlowError(r, "thrown").dead = r.dead
      /\ FlowError(r, "thrown").end = "thrown"
  BY <1>2, <1>3, FlowCalls
<1>5. fr.end = "none"
  BY DEF Flags, Ended
<1>6. out' = out /\ got' = got
  BY DEF ReceiveStarting
<1>7. CASE fr' = Starting(fr) /\ held' \in BOOLEAN /\ \E ask : CallUp(ask, base)
  BY <1>2, <1>5, <1>6, <1>7, CallUpEffect DEF Ended
<1>8. CASE fr' = FlowError(Starting(fr), "thrown") /\ CallsNothing(base) /\ UNCHANGED held
  <2>1. UpEffect(base)
    BY <1>8, NothingEffect DEF CallsNothing, TypeOK
  <2> QED
    BY <1>1, <1>2, <1>3, <1>4, <1>6, <1>8, <2>1 DEF Ended
<1> QED
  BY <1>7, <1>8 DEF ReceiveStarting

-----------------------------------------------------------------------------
(* Steps after the consumer has started *)

LEMMA JobsKept ==
  ASSUME FlowInv, NEW base, NEW exact \in BOOLEAN, Ready(base, c', exact), Wanted' => exact,
         c' \in 0..Length, UpEffect(base), TypeOK',
         phase' = phase, phase = "submitted", fr'.started, Begun'
  PROVE  Demand' /\ HasBegun' /\ NotBegun' /\ NotStarted' /\ Finishing'
<1>1. asked \in Nat /\ asked' \in Nat /\ c' \in Nat
  BY FlowAssumption DEF FlowInv, TypeOK, UpEffect
<1>2. asked - c' \in Int /\ (asked - c') + (asked' - asked) = asked' - c'
  BY <1>1
<1>3. Owes(stack', queue', (asked - c') + (asked' - asked), exact /\ ~stop')
  BY <1>2 DEF UpEffect, Ready
<1>4. Demand'
  <2>1. PICK e1 \in BOOLEAN, e2 \in BOOLEAN : e1 = (exact /\ ~stop') /\ e2 = Wanted'
    BY DEF Wanted
  <2>2. e2 => e1
    BY <2>1 DEF Wanted
  <2>3. asked' - c' \in Int
    BY <1>1
  <2>4. PICK m \in Int : m = asked' - c'
    BY <2>3
  <2>5. Owes(stack', queue', m, e1) /\ m <= m
    BY <1>2, <1>3, <2>1, <2>4
  <2>6. stack' \in Seq(Job) /\ queue' \in Seq(Job)
    BY DEF UpEffect
  <2>7. Owes(stack', queue', m, e2)
    BY <2>2, <2>5, <2>6, OwesAtMost
  <2> QED
    BY <2>1, <2>4, <2>7 DEF Demand
<1>5. JobsIn(stack', queue', Later)
  BY DEF UpEffect, Ready
<1>6. ~stop' => JobsIn(stack', queue', Earlier)
  BY DEF UpEffect, Ready
<1> QED
  BY <1>4, <1>5, <1>6
  DEF HasBegun, NotBegun, NotStarted, Finishing, Later, Earlier

\* The jobs as they are.
LEMMA StackReady ==
  ASSUME FlowInv, Begun
  PROVE  Ready(stack, c, Wanted)
<1> QED
  BY DEF FlowInv, TypeOK, Ready, Demand, HasBegun, Finishing, Later, Earlier

\* Only the jobs change.
LEMMA QuietStep ==
  ASSUME FlowInv, NEW base, NEW exact \in BOOLEAN, Ready(base, c, exact), Wanted' => exact,
         UpEffect(base), fr.started, Begun, phase = "submitted", held' \in BOOLEAN,
         UNCHANGED <<setup, source, via, posted, fr, out, got, lost>>
  PROVE  FlowInv'
<1> USE DEF setup, source
<1>1. TypeOK'
  BY DEF FlowInv, TypeOK, UpEffect
<1>2. Demand' /\ HasBegun' /\ NotBegun' /\ NotStarted' /\ Finishing'
  <2>1. c' \in 0..Length /\ fr'.started /\ Begun' /\ Ready(base, c', exact) /\ phase' = phase
    BY DEF FlowInv, TypeOK, Begun
  <2> QED
    BY <1>1, <2>1, JobsKept
<1>3. stop => stop'
  BY DEF UpEffect
<1>4. Route' /\ Flags'
  BY DEF FlowInv, Route, Flags
<1>5. Posted'
  BY <1>3 DEF FlowInv, Posted
<1>6. EachOnceInOrder'
  BY <1>3 DEF FlowInv, EachOnceInOrder
<1> QED
  BY <1>1, <1>2, <1>4, <1>5, <1>6 DEF FlowInv

LEMMA OtherThreadStep ==
  ASSUME FlowInv, OtherThread
  PROVE  FlowInv'
<1>1. /\ held /\ held' \in BOOLEAN
      /\ UNCHANGED <<setup, source, via, posted, fr, out, got, lost>>
      /\ \E ask : CallUp(ask, stack)
  BY DEF OtherThread
<1>2. fr.started
  BY <1>1 DEF FlowInv, NotStarted
<1>3. Begun /\ phase = "submitted"
  BY <1>2 DEF FlowInv, NotBegun, HasBegun
<1>4. PICK exact \in BOOLEAN : exact = Wanted
  BY DEF Wanted
<1>5. Ready(stack, c, exact)
  BY <1>3, <1>4, StackReady
<1>6. UpEffect(stack)
  BY <1>1, CallUpEffect DEF FlowInv, TypeOK
<1>7. Wanted' => exact
  BY <1>1, <1>4, <1>6 DEF Wanted, SourceDone, UpEffect, setup
<1> QED
  BY <1>1, <1>2, <1>3, <1>5, <1>6, <1>7, QuietStep

\* What the source says: a value it took from the range, or that it is done.
Says(signal, v) ==
  \/ signal = "value" /\ c' = c + 1 /\ v = c + 1 /\ c < Length /\ ~stop
  \/ signal = "done" /\ c' = c /\ v = 0 /\ (stop \/ c = Length)

\* Through via.
LEMMA EmitViaStep ==
  ASSUME FlowInv, fr.started, Begun, phase = "submitted", UNCHANGED <<setup, phase>>,
         NEW base, NEW exact \in BOOLEAN, Ready(base, c', exact),
         NEW s, s \in Signal, Says(s.signal, s.value), s.signal = "value" /\ Wanted => exact,
         useVia, Post(s) \/ PostFails(s), stack' = base,
         UNCHANGED <<queue, stop, up, asked, fr, out, got, held>>
  PROVE  FlowInv'
<1> USE DEF setup
<1>1. c \in 0..Length /\ c' \in 0..Length /\ c' \in Nat /\ c \in Nat
      /\ posted \in Seq(Signal) /\ got \in Seq(1..Length) /\ via \in FlowReceiverType
      /\ Len(posted) \in Nat /\ Len(got) \in Nat /\ failures \in 0..MaxFailures
      /\ MaxFailures \in Nat
  BY FlowAssumption DEF FlowInv, TypeOK, Says
<1>2. via.started /\ ~via.dead /\ s.signal \in {"value", "done"}
  BY DEF FlowInv, Begun, Route, Says
<1>3. PICK err : err = [signal |-> "error", value |-> 0]
  OBVIOUS
<1>4. err \in Signal /\ err.signal = "error"
  BY <1>3, FlowAssumption DEF Signal
<1>5. \/ /\ via.done /\ via' = via /\ posted' = posted /\ lost' = lost
      \/ /\ ~via.done /\ s.signal = "value" /\ via' = via /\ posted' = Append(posted, s)
         /\ lost' = lost
      \/ /\ ~via.done /\ s.signal = "value" /\ via' = FlowError(via, "thrown")
         /\ posted' = Append(posted, err) /\ lost' = lost
      \/ /\ ~via.done /\ s.signal = "done" /\ via' = FlowDone(via) /\ posted' = Append(posted, s)
         /\ lost' = lost
      \/ /\ ~via.done /\ s.signal = "done" /\ via' = FlowDone(via) /\ posted' = posted
         /\ lost' = "done"
  <2>1. FlowDone(via) = IF via.done THEN via ELSE FlowDone(via)
    BY <1>1, <1>2, FlowCalls
  <2>2. CASE Post(s)
    BY <1>2, <2>1, <2>2 DEF Post, ForwardedVia, Forwards, Listens
  <2>3. CASE PostFails(s)
    BY <1>2, <1>3, <2>3 DEF PostFails, Forwards, Listens
  <2> QED
    BY <2>2, <2>3
<1>6. /\ via' \in FlowReceiverType /\ via'.started /\ ~via'.dead
      /\ via.done => via'.done
      /\ ~via'.done => via' = via
  BY <1>1, <1>2, <1>5, FlowCalls
<1>7. failures' \in 0..MaxFailures /\ lost' \in {lost, "done"}
  BY <1>1, <1>2, <1>5 DEF Post, PostFails, Refused
<1>8. UpEffect(base)
  BY <1>7, NothingEffect DEF FlowInv, Ready
<1>9. posted' \in Seq(Signal)
  BY <1>1, <1>4, <1>5, Appended
<1>10. TypeOK'
  BY <1>1, <1>6, <1>7, <1>8, <1>9 DEF FlowInv, TypeOK, UpEffect
<1>11. Demand' /\ HasBegun' /\ NotBegun' /\ NotStarted' /\ Finishing'
  <2>1. fr'.started /\ Begun'
    BY <1>6 DEF Begun
  <2>2. Wanted' => exact
    BY <1>1, <1>2, <1>5, FlowCalls DEF Wanted, SourceDone
  <2> QED
    BY <1>1, <1>8, <1>10, <2>1, <2>2, JobsKept
<1>12. Route'
  BY <1>6, <1>7 DEF FlowInv, Route
<1>13. Flags' /\ EachOnceInOrder'
  BY DEF FlowInv, Flags, EachOnceInOrder
<1>14. Posted'
  <2>1. \A i \in 1..Len(posted) :
          /\ posted[i].signal # "starting"
          /\ i < Len(posted) \/ ~via.done => posted[i].signal = "value"
    BY DEF FlowInv, Posted
  <2>2. ASSUME ~fr.done
        PROVE  /\ ~via.done => Len(got) + Len(posted) = c
               /\ \A i \in 1..Len(posted) :
                    /\ posted[i].signal = "value" => posted[i].value = Len(got) + i
                    /\ posted[i].signal = "done" => Len(got) + i = c + 1 /\ (stop \/ c = Length)
    BY <2>2 DEF FlowInv, Posted
  <2>3. ~fr.done /\ via.done /\ lost = "none" =>
          posted # <<>> /\ posted[Len(posted)].signal # "value"
    BY DEF FlowInv, Posted
  <2>4. CASE posted' = posted
    <3>1. \A i \in 1..Len(posted) :
            /\ posted[i].signal # "starting"
            /\ i < Len(posted) \/ ~via'.done => posted[i].signal = "value"
      BY <1>6, <2>1
    <3>2. ~fr.done /\ ~via'.done => Len(got) + Len(posted) = c'
      <4>1. via'.done
        BY <1>1, <1>2, <1>5, <2>4, FlowCalls, Appended
      <4> QED
        BY <4>1
    <3>3. ASSUME ~fr.done, NEW i \in 1..Len(posted)
          PROVE  /\ posted[i].signal = "value" => posted[i].value = Len(got) + i
                 /\ posted[i].signal = "done" => Len(got) + i = c' + 1 /\ (stop \/ c' = Length)
      <4>1. ~(posted[i].signal = "done" /\ s.signal = "value")
        BY <1>1, <2>2, <3>3, FlowAssumption DEF Says
      <4>2. s.signal = "done" => c' = c
        BY DEF Says
      <4> QED
        BY <1>2, <2>2, <3>3, <4>1, <4>2
    <3>4. ASSUME ~fr.done, lost' = "none"
          PROVE  posted # <<>> /\ posted[Len(posted)].signal # "value"
      <4>1. via.done /\ lost' = lost
        BY <1>1, <1>5, <2>4, <3>4, Appended
      <4> QED
        BY <2>3, <3>4, <4>1
    <3> QED
      BY <2>4, <3>1, <3>2, <3>3, <3>4 DEF Posted
  <2>5. ASSUME NEW e \in Signal, ~via.done, posted' = Append(posted, e),
               \/ e = s /\ (s.signal = "value" => via' = via) /\ (s.signal = "done" => via'.done)
               \/ e.signal = "error" /\ via'.done
        PROVE  Posted'
    <3>1. /\ Len(posted') = Len(posted) + 1 /\ posted'[Len(posted) + 1] = e
          /\ \A i \in 1..Len(posted) : posted'[i] = posted[i] /\ posted[i].signal = "value"
      BY <1>1, <2>1, <2>5, Appended
    <3>2. /\ e.signal # "starting"
          /\ ~via'.done => e.signal = "value"
      BY <1>2, <2>5
    <3>3. \A i \in 1..Len(posted') :
            /\ posted'[i].signal # "starting"
            /\ i < Len(posted') \/ ~via'.done => posted'[i].signal = "value"
      <4> TAKE i \in 1..Len(posted')
      <4>1. CASE i \in 1..Len(posted)
        BY <3>1, <4>1
      <4>2. CASE i = Len(posted) + 1
        BY <1>1, <3>1, <3>2, <4>2
      <4> QED
        BY <1>1, <3>1, <4>1, <4>2
    <3>4. ASSUME ~fr.done
          PROVE  ~via'.done => Len(got) + Len(posted') = c'
      BY <1>1, <1>2, <2>2, <2>5, <3>1, <3>2, <3>4 DEF Says
    <3>5. ASSUME ~fr.done, NEW i \in 1..Len(posted')
          PROVE  /\ posted'[i].signal = "value" => posted'[i].value = Len(got) + i
                 /\ posted'[i].signal = "done" => Len(got) + i = c' + 1 /\ (stop \/ c' = Length)
      <4>1. CASE i \in 1..Len(posted)
        BY <2>2, <3>1, <3>5, <4>1
      <4>2. CASE i = Len(posted) + 1
        BY <1>1, <2>2, <2>5, <3>1, <3>5, <4>2 DEF Says
      <4> QED
        BY <1>1, <3>1, <4>1, <4>2
    <3>6. via'.done => posted' # <<>> /\ posted'[Len(posted')].signal # "value"
      <4>1. via'.done => e.signal # "value"
        BY <2>5
      <4>2. posted' # <<>> /\ posted'[Len(posted')] = e
        BY <1>1, <2>5, <3>1
      <4> QED
        BY <4>1, <4>2
    <3> QED
      BY <3>3, <3>4, <3>5, <3>6 DEF Posted
  <2>6. CASE posted' # posted
    <3>1. ~via.done
      BY <1>5, <2>6
    <3>2. FlowDone(via).done /\ FlowError(via, "thrown").done
      BY <1>1, <1>2, <3>1, FlowCalls
    <3> QED
      BY <1>4, <1>5, <2>5, <2>6, <3>1, <3>2
  <2> QED
    BY <2>4, <2>6
<1> QED
  BY <1>10, <1>11, <1>12, <1>13, <1>14 DEF FlowInv

\* At once.
LEMMA EmitStep ==
  ASSUME FlowInv, fr.started, Begun, phase = "submitted", UNCHANGED <<setup, phase>>,
         NEW base, NEW exact \in BOOLEAN, Ready(base, c', exact),
         NEW s, s \in Signal, Says(s.signal, s.value), s.signal = "value" /\ Wanted => exact,
         ~useVia, Receive(s, base), UNCHANGED <<via, posted, lost>>
  PROVE  FlowInv'
<1> USE DEF setup
<1>1. c \in 0..Length /\ c' \in 0..Length /\ c' \in Nat /\ c \in Nat
      /\ got \in Seq(1..Length) /\ Len(got) \in Nat
  BY FlowAssumption DEF FlowInv, TypeOK, Says
<1>2. s.signal \in {"value", "done"}
  BY DEF Says
<1>3. Heard(s) /\ UpEffect(base)
  BY <1>2, ReceiveEffect DEF FlowInv, Ready
<1>4. posted = <<>> /\ ~via.done /\ (~fr.done => Len(got) = c)
  BY <1>1 DEF FlowInv, Route, Posted
<1>5. \/ got' = got
      \/ ~fr.done /\ s.signal = "value" /\ got' = Append(got, c + 1) /\ c + 1 \in 1..Length
  BY <1>1, <1>2, <1>3 DEF Heard, Says
<1>6. got' \in Seq(1..Length)
  BY <1>1, <1>5, Appended
<1>7. TypeOK'
  BY <1>1, <1>3, <1>6 DEF FlowInv, TypeOK, UpEffect, Heard
<1>8. Demand' /\ HasBegun' /\ NotBegun' /\ NotStarted' /\ Finishing'
  <2>1. fr'.started /\ Begun'
    BY <1>3 DEF Begun, Heard
  <2>2. Wanted' => exact
    BY <1>2, <1>3 DEF Wanted, SourceDone, Heard, UpEffect
  <2> QED
    BY <1>1, <1>3, <1>7, <2>1, <2>2, JobsKept
<1>9. Route' /\ Flags'
  BY <1>3 DEF FlowInv, Route, Flags, Heard
<1>10. \A i \in 1..Len(got') : got'[i] = i
  <2>1. \A i \in 1..Len(got) : got[i] = i
    BY DEF FlowInv, EachOnceInOrder
  <2>2. CASE got' = got
    BY <2>1, <2>2
  <2>3. CASE ~fr.done /\ got' = Append(got, c + 1) /\ c + 1 \in 1..Length
    <3>1. /\ Len(got') = c + 1 /\ got'[c + 1] = c + 1
          /\ \A i \in 1..c : got'[i] = got[i]
      BY <1>1, <1>4, <2>3, Appended
    <3> QED
      BY <1>1, <1>4, <2>1, <2>3, <3>1
  <2> QED
    BY <1>5, <2>2, <2>3
<1>11. ~fr'.done => Len(got') = c'
  <2> SUFFICES ASSUME ~fr'.done
               PROVE  Len(got') = c'
    OBVIOUS
  <2>1. ~fr.done /\ s.signal = "value"
    BY <1>3 DEF Heard
  <2>2. got' = Append(got, c + 1) /\ c' = c + 1
    BY <1>3, <2>1 DEF Heard, Says
  <2> QED
    BY <1>1, <1>4, <2>1, <2>2
<1>12. fr'.end = "done" /\ ~stop' => Len(got') = Length
  <2> SUFFICES ASSUME fr'.end = "done", ~stop'
               PROVE  Len(got') = Length
    OBVIOUS
  <2>1. ~stop
    BY <1>3 DEF UpEffect
  <2>2. CASE fr.done
    BY <1>3, <2>1, <2>2 DEF Heard, FlowInv, EachOnceInOrder
  <2>3. CASE ~fr.done
    BY <1>3, <1>4, <2>1, <2>3 DEF Heard, Says
  <2> QED
    BY <2>2, <2>3
<1>13. EachOnceInOrder'
  BY <1>10, <1>12 DEF EachOnceInOrder
<1>14. Posted'
  <2>1. posted' = <<>> /\ Len(posted') = 0 /\ ~via'.done
    BY <1>4
  <2>2. Len(got') + Len(posted') = Len(got')
    BY <1>6, <2>1
  <2> QED
    BY <1>11, <2>1, <2>2 DEF Posted
<1> QED
  BY <1>3, <1>7, <1>8, <1>9, <1>13, <1>14 DEF FlowInv, Heard

LEMMA SourceStep ==
  ASSUME FlowInv, fr.started, Begun, phase = "submitted", UNCHANGED <<setup, phase>>,
         NEW base, NEW exact \in BOOLEAN, Ready(base, c', exact),
         NEW signal, NEW v \in 0..Length, Says(signal, v), signal = "value" /\ Wanted => exact,
         Emit(signal, v, base)
  PROVE  FlowInv'
<1>1. PICK s : s = [signal |-> signal, value |-> v]
  OBVIOUS
<1>2. s \in Signal /\ s.signal = signal /\ s.value = v
  BY <1>1 DEF Signal, Says
<1>3. \/ /\ useVia /\ (Post(s) \/ PostFails(s)) /\ stack' = base
         /\ UNCHANGED <<queue, stop, up, asked, fr, out, got, held>>
      \/ ~useVia /\ Receive(s, base) /\ UNCHANGED <<via, posted, lost>>
  BY <1>1 DEF Emit
<1> QED
  BY <1>2, <1>3, EmitViaStep, EmitStep

LEMMA RunRequestStep ==
  ASSUME FlowInv, RunRequest
  PROVE  FlowInv'
<1>1. /\ stack # <<>> /\ Top.job = "request" /\ Top.remaining > 0 /\ ~stop /\ c # Length
      /\ c' = c + 1 /\ Emit("value", c + 1, Rest("request", Top.remaining - 1))
      /\ UNCHANGED <<setup, phase>>
  BY DEF RunRequest, Runs, GoesOn
<1>2. c \in Nat /\ c < Length /\ c + 1 \in 0..Length
  BY <1>1, FlowAssumption DEF FlowInv, TypeOK
<1>3. Begun /\ fr.started /\ phase = "submitted"
  BY <1>1, JobBegun
<1>4. PICK exact \in BOOLEAN : exact = Wanted
  BY DEF Wanted
<1>5. Ready(Rest("request", Top.remaining - 1), c', exact)
  BY <1>1, <1>4, RestReady
<1>6. Says("value", c + 1)
  BY <1>1, <1>2 DEF Says
<1> QED
  BY <1>1, <1>2, <1>3, <1>4, <1>5, <1>6, SourceStep

LEMMA CompleteStep ==
  ASSUME FlowInv, stack # <<>>, Top.job \in {"request", "finish"}, stop \/ c = Length,
         Emit("done", 0, Rest("end", 0)), UNCHANGED <<setup, source>>
  PROVE  FlowInv'
<1>1. Begun /\ fr.started /\ phase = "submitted"
  BY JobBegun
<1>2. c' = c /\ phase' = phase
  BY DEF source
<1>3. PICK exact \in BOOLEAN : Ready(Rest("end", 0), c', exact)
  BY <1>2, RestReady
<1>4. Says("done", 0) /\ 0 \in 0..Length
  BY <1>2, FlowAssumption DEF Says
<1> QED
  BY <1>1, <1>2, <1>3, <1>4, SourceStep

LEMMA EndRequestStep ==
  ASSUME FlowInv, EndRequest
  PROVE  FlowInv'
<1>1. stack # <<>> /\ Top.job = "request" /\ UNCHANGED <<setup, source>>
  BY DEF EndRequest, Runs
<1>2. CASE c = Length
  BY <1>1, <1>2, CompleteStep DEF EndRequest, Exhausted
<1>3. CASE c # Length
  <2>1. CallsNothing(Rest("end", 0)) /\ UNCHANGED unsent
    BY <1>3 DEF EndRequest, Exhausted
  <2>2. /\ stack' = Rest("end", 0) /\ UNCHANGED <<queue, stop, up, asked, failures>>
        /\ UNCHANGED <<via, posted, fr, out, got, held, lost>>
    BY <2>1 DEF CallsNothing, unsent
  <2>3. PICK exact \in BOOLEAN :
          exact = (Wanted /\ Top.remaining = 0) /\ Ready(Rest("end", 0), c, exact)
    BY <1>1, RestReady
  <2>4. failures' \in 0..MaxFailures /\ held' \in BOOLEAN
    BY <2>2 DEF FlowInv, TypeOK
  <2>5. UpEffect(Rest("end", 0))
    BY <2>2, <2>3, <2>4, NothingEffect DEF FlowInv, Ready
  <2>6. Wanted' => exact
    <3>1. stop \/ ~(Top.remaining > 0)
      BY <1>3 DEF EndRequest, GoesOn
    <3>2. Top.remaining \in Nat
      BY <1>1, FrontOf, JobFields DEF FlowInv, TypeOK, Top
    <3>3. stop \/ Top.remaining = 0
      BY <3>1, <3>2
    <3>4. Wanted' => Wanted
      BY <1>1, <2>2 DEF Wanted, SourceDone, setup
    <3> QED
      BY <2>3, <3>3, <3>4 DEF Wanted
  <2>7. Begun /\ fr.started /\ phase = "submitted"
    BY <1>1, JobBegun
  <2> QED
    BY <1>1, <2>2, <2>3, <2>4, <2>5, <2>6, <2>7, QuietStep
<1> QED
  BY <1>2, <1>3

LEMMA RunFinishStep ==
  ASSUME FlowInv, RunFinish
  PROVE  FlowInv'
<1>1. /\ stack # <<>> /\ Top.job = "finish" /\ Emit("done", 0, Rest("end", 0))
      /\ UNCHANGED <<setup, source>>
  BY DEF RunFinish, Runs
<1>2. stop
  BY <1>1, JobBegun
<1> QED
  BY <1>1, <1>2, CompleteStep

\* An item of via's strand, when the consumer has started.
LEMMA RunPostedStep ==
  ASSUME FlowInv, RunPosted, fr.started
  PROVE  FlowInv'
<1> USE DEF setup, source
<1>1. /\ posted # <<>> /\ Receive(posted[1], stack) /\ posted' = RemoveAt(posted, 1)
      /\ UNCHANGED <<limit, useVia, consumer, phase, c, via, lost>>
  BY DEF RunPosted, PostedNext
<1>2. posted \in Seq(Signal) /\ Len(posted) \in Nat \ {0} /\ posted[1] \in Signal
      /\ got \in Seq(1..Length) /\ Len(got) \in Nat /\ c \in 0..Length /\ c \in Nat
  BY <1>1, FlowAssumption DEF FlowInv, TypeOK
<1>3. /\ posted' \in Seq(Signal) /\ Len(posted') = Len(posted) - 1
      /\ \A i \in 1..(Len(posted) - 1) : posted'[i] = posted[i + 1]
  <2>1. posted' = Tail(posted)
    BY <1>1, <1>2, RemovedFirst
  <2> QED
    BY <1>1, <1>2, <2>1, TailOf
<1>4. \A i \in 1..Len(posted) :
        /\ posted[i].signal # "starting"
        /\ i < Len(posted) \/ ~via.done => posted[i].signal = "value"
  BY DEF FlowInv, Posted
<1>5. ASSUME ~fr.done
      PROVE  /\ ~via.done => Len(got) + Len(posted) = c
             /\ \A i \in 1..Len(posted) :
                  /\ posted[i].signal = "value" => posted[i].value = Len(got) + i
                  /\ posted[i].signal = "done" => Len(got) + i = c + 1 /\ (stop \/ c = Length)
             /\ via.done /\ lost = "none" => posted[Len(posted)].signal # "value"
  BY <1>5 DEF FlowInv, Posted
<1>6. 1 \in 1..Len(posted)
  BY <1>2
<1>7. Begun /\ phase = "submitted"
  BY <1>1 DEF FlowInv, NotBegun, HasBegun
<1>8. PICK exact \in BOOLEAN : exact = Wanted /\ Ready(stack, c, exact)
  BY <1>7, StackReady DEF Wanted
<1>9. Heard(posted[1]) /\ UpEffect(stack)
  BY <1>1, <1>4, <1>6, ReceiveEffect DEF FlowInv, TypeOK
<1>10. \/ got' = got
       \/ /\ ~fr.done /\ posted[1].signal = "value" /\ posted[1].value = Len(got) + 1
          /\ got' = Append(got, Len(got) + 1)
  BY <1>5, <1>6, <1>9 DEF Heard
<1>11. got' \in Seq(1..Length)
  <2>1. posted[1].value \in 0..Length
    BY <1>2 DEF Signal
  <2>2. posted[1].value = Len(got) + 1 => Len(got) + 1 \in 1..Length
    BY <1>2, <2>1, FlowAssumption
  <2> QED
    <3>1. CASE got' = got
      BY <1>2, <3>1
    <3>2. CASE posted[1].value = Len(got) + 1 /\ got' = Append(got, Len(got) + 1)
      <4>1. PICK m \in 1..Length : m = Len(got) + 1
        BY <2>2, <3>2
      <4>2. got' = Append(got, m)
        BY <3>2, <4>1
      <4> QED
        BY <1>2, <4>2, Appended
    <3> QED
      BY <1>10, <3>1, <3>2
<1>12. TypeOK'
  BY <1>1, <1>3, <1>9, <1>11 DEF FlowInv, TypeOK, UpEffect, Heard
<1>13. Demand' /\ HasBegun' /\ NotBegun' /\ NotStarted' /\ Finishing'
  <2>1. fr'.started /\ Begun' /\ Ready(stack, c', exact) /\ c' \in 0..Length /\ phase' = phase
    BY <1>1, <1>2, <1>7, <1>8, <1>9 DEF Begun, Heard
  <2>2. useVia
    BY <1>1 DEF FlowInv, Route
  <2>3. Wanted' => exact
    BY <1>1, <1>8, <1>9, <2>2 DEF Wanted, SourceDone, UpEffect
  <2> QED
    BY <1>7, <1>9, <1>12, <2>1, <2>3, JobsKept
<1>14. Route' /\ Flags'
  <2>1. useVia
    BY <1>1 DEF FlowInv, Route
  <2> QED
    BY <1>1, <1>9, <2>1 DEF FlowInv, Route, Flags, Heard
<1>15. Posted'
  <2>1. \A i \in 1..Len(posted') :
          /\ posted'[i].signal # "starting"
          /\ i < Len(posted') \/ ~via'.done => posted'[i].signal = "value"
    <3> TAKE i \in 1..Len(posted')
    <3>1. i + 1 \in 1..Len(posted) /\ posted'[i] = posted[i + 1]
          /\ (i < Len(posted') => i + 1 < Len(posted))
      BY <1>2, <1>3
    <3> QED
      BY <1>1, <1>4, <3>1
  <2>2. ASSUME ~fr'.done
        PROVE  /\ ~via'.done => Len(got') + Len(posted') = c'
               /\ \A i \in 1..Len(posted') :
                    /\ posted'[i].signal = "value" => posted'[i].value = Len(got') + i
                    /\ posted'[i].signal = "done" =>
                         Len(got') + i = c' + 1 /\ (stop' \/ c' = Length)
               /\ via'.done /\ lost' = "none" =>
                    posted' # <<>> /\ posted'[Len(posted')].signal # "value"
    <3>1. ~fr.done /\ posted[1].signal = "value"
      BY <1>9, <2>2 DEF Heard
    <3>2. got' = Append(got, posted[1].value) /\ (stop => stop')
      BY <1>9, <3>1 DEF Heard, UpEffect
    <3>3. Len(got') = Len(got) + 1
      BY <1>2, <3>2
    <3>4. ~via'.done => Len(got') + Len(posted') = c'
      BY <1>1, <1>2, <1>3, <1>5, <3>1, <3>3
    <3>5. ASSUME NEW i \in 1..Len(posted')
          PROVE  /\ posted'[i].signal = "value" => posted'[i].value = Len(got') + i
                 /\ posted'[i].signal = "done" =>
                      Len(got') + i = c' + 1 /\ (stop' \/ c' = Length)
      <4>1. i + 1 \in 1..Len(posted) /\ posted'[i] = posted[i + 1] /\ i \in Nat
        BY <1>2, <1>3
      <4>2. Len(got') + i = Len(got) + (i + 1)
        BY <1>2, <3>3, <4>1
      <4> QED
        BY <1>1, <1>5, <3>1, <3>2, <4>1, <4>2
    <3>6. ASSUME via'.done, lost' = "none"
          PROVE  posted' # <<>> /\ posted'[Len(posted')].signal # "value"
      <4>1. posted[Len(posted)].signal # "value"
        BY <1>1, <1>5, <3>1, <3>6
      <4>2. Len(posted) # 1
        BY <3>1, <4>1
      <4>3. PICK n \in Nat \ {0} : n = Len(posted)
        BY <1>2
      <4>4. n - 1 \in 1..(n - 1) /\ (n - 1) + 1 = n
        BY <4>2, <4>3
      <4>5. Len(posted) - 1 \in 1..(Len(posted) - 1) /\ (Len(posted) - 1) + 1 = Len(posted)
        BY <4>3, <4>4
      <4>6. posted'[Len(posted')] = posted[Len(posted)] /\ posted' # <<>>
        BY <1>3, <4>5
      <4> QED
        BY <4>1, <4>6
    <3> QED
      BY <3>4, <3>5, <3>6
  <2> QED
    BY <2>1, <2>2 DEF Posted
<1>16. \A i \in 1..Len(got') : got'[i] = i
  <2>1. \A i \in 1..Len(got) : got[i] = i
    BY DEF FlowInv, EachOnceInOrder
  <2>2. CASE got' = got
    BY <2>1, <2>2
  <2>3. CASE got' = Append(got, Len(got) + 1)
    <3>1. PICK m \in Nat : m = Len(got)
      BY <1>2
    <3>2. /\ Len(got') = m + 1 /\ got'[m + 1] = m + 1
          /\ \A i \in 1..m : got'[i] = got[i]
      BY <1>2, <2>3, <3>1
    <3> QED
      BY <2>1, <3>1, <3>2
  <2> QED
    BY <1>10, <2>2, <2>3
<1>17. fr'.end = "done" /\ ~stop' => Len(got') = Length
  <2> SUFFICES ASSUME fr'.end = "done", ~stop'
               PROVE  Len(got') = Length
    OBVIOUS
  <2>1. ~stop
    BY <1>9 DEF UpEffect
  <2>2. CASE fr.done
    BY <1>9, <2>1, <2>2 DEF Heard, FlowInv, EachOnceInOrder
  <2>3. CASE ~fr.done
    <3>1. posted[1].signal = "done" /\ got' = got
      BY <1>9, <2>3 DEF Heard
    <3>2. Len(got) + 1 = c + 1 /\ c = Length
      BY <1>5, <1>6, <2>1, <2>3, <3>1
    <3> QED
      BY <1>2, <3>1, <3>2
  <2> QED
    BY <2>2, <2>3
<1>18. EachOnceInOrder'
  BY <1>16, <1>17 DEF EachOnceInOrder
<1> QED
  BY <1>9, <1>12, <1>13, <1>14, <1>15, <1>18 DEF FlowInv, Heard

-----------------------------------------------------------------------------
(* Steps before *)

\* starting() reaches the consumer, at once or as an item of via's strand.
LEMMA StartConsumer ==
  ASSUME FlowInv, ~fr.started, NEW base, Ready(base, c, TRUE), ReceiveStarting(base),
         Begun', ~via.done, lost = "none", posted' = <<>>, phase = "submitted",
         UNCHANGED <<setup, source, via, lost>>
  PROVE  FlowInv'
<1> USE DEF setup, source
<1>1. /\ fr' \in FlowReceiverType /\ fr'.started /\ fr'.dead = fr.dead
      /\ (fr'.done <=> Ended(fr')) /\ fr'.end # "done"
      /\ out' = out /\ got' = got /\ held' \in BOOLEAN
      /\ UpEffect(base)
  BY StartingEffect DEF FlowInv, NotStarted, Ready
<1>2. c = 0 /\ got = <<>> /\ ~fr.done
  BY DEF FlowInv, NotStarted
<1>3. TypeOK'
  BY <1>1 DEF FlowInv, TypeOK, UpEffect
<1>4. Demand' /\ HasBegun' /\ NotBegun' /\ NotStarted' /\ Finishing'
  <2>1. Ready(base, c', TRUE) /\ c' \in 0..Length /\ phase' = phase
    BY DEF FlowInv, TypeOK
  <2> QED
    BY <1>1, <1>3, <2>1, JobsKept
<1>5. ~fr.dead
  BY DEF FlowInv, Route
<1>6. useVia => via.started
  BY DEF Begun
<1>7. Route' /\ Flags'
  BY <1>1, <1>5, <1>6 DEF FlowInv, Route, Flags
<1>8. Posted'
  BY <1>1, <1>2 DEF Posted
<1>9. EachOnceInOrder'
  BY <1>1, <1>2 DEF EachOnceInOrder
<1> QED
  BY <1>3, <1>4, <1>7, <1>8, <1>9 DEF FlowInv

\* An item of via's strand, when the consumer has not: starting().
LEMMA RunFirstPostedStep ==
  ASSUME FlowInv, RunPosted, ~fr.started
  PROVE  FlowInv'
<1> USE DEF setup, source
<1>1. /\ posted # <<>> /\ Receive(posted[1], stack) /\ posted' = RemoveAt(posted, 1)
      /\ UNCHANGED <<limit, useVia, consumer, phase, c, via, lost>>
  BY DEF RunPosted, PostedNext
<1>2. posted \in Seq(Signal) /\ Len(posted) \in Nat \ {0} /\ Len(posted) <= 1
  BY <1>1 DEF FlowInv, TypeOK, NotStarted
<1>3. posted' = <<>>
  BY <1>1, <1>2, RemovedFirst, TailOf
<1>4. posted[1].signal = "starting" /\ ~via.done /\ lost = "none" /\ ~stop
  <2>1. 1 \in 1..Len(posted)
    BY <1>2
  <2> QED
    BY <2>1 DEF FlowInv, NotStarted
<1>5. useVia /\ Begun /\ phase = "submitted"
  BY <1>1 DEF FlowInv, Route, NotBegun, HasBegun
<1>6. ReceiveStarting(stack)
  BY <1>1, <1>4 DEF Receive
<1>7. Begun'
  BY <1>1, <1>5 DEF Begun
<1>8. Wanted = TRUE
  BY <1>4, <1>5 DEF Wanted, SourceDone
<1>9. Ready(stack, c, TRUE)
  BY <1>5, <1>8, StackReady
<1> QED
  BY <1>1, <1>3, <1>4, <1>5, <1>6, <1>7, <1>9, StartConsumer

\* The job that calls starting(): it is the only one.
LEMMA FirstJob ==
  ASSUME FlowInv, stack # <<>>, Top.job = "starting"
  PROVE  /\ ~Begun /\ ~fr.started /\ ~via.done /\ lost = "none" /\ posted = <<>>
         /\ phase = "submitted" /\ Ready(Rest("end", 0), c, TRUE)
         /\ JobsIn(Rest("end", 0), queue, {"starting", "end"})
<1>1. stack \in Seq(Job) /\ queue \in Seq(Job) /\ Len(stack) \in Nat \ {0} /\ Len(queue) \in Nat
      /\ Len(stack) <= limit + 1 /\ asked \in Nat /\ c \in Nat
  BY FlowAssumption DEF FlowInv, TypeOK
<1>2. \A S : JobsIn(stack, queue, S) => Top.job \in S
  BY <1>1, JobsInFront DEF Top
<1>3. ~Begun
  BY <1>2 DEF FlowInv, HasBegun
<1>4. /\ ~fr.started /\ ~via.done /\ lost = "none" /\ posted = <<>>
      /\ Len(stack) + Len(queue) <= 1 /\ phase = "submitted"
  BY <1>3 DEF FlowInv, NotBegun
<1>5. Len(stack) = 1 /\ Len(queue) = 0
  <2>1. PICK m \in Nat \ {0}, n \in Nat : m = Len(stack) /\ n = Len(queue)
    BY <1>1
  <2>2. m = 1 /\ n = 0
    BY <1>4, <2>1
  <2> QED
    BY <2>1, <2>2
<1>6. Top \in Job /\ Top.remaining = 0
  BY <1>1, FrontOf, JobFields DEF Top
<1>7. PICK base : base = Rest("end", 0)
  OBVIOUS
<1>8. /\ base \in Seq(Job) /\ Len(base) = Len(stack)
      /\ Owes(base, queue, ((asked - c) - Top.remaining) + 0, Wanted)
  <2>1. 0 \in 0..Top.remaining
    BY <1>6
  <2> QED
    BY <1>7, <2>1, RestEffect
<1>9. Owes(base, queue, asked - c, TRUE)
  <2>1. ((asked - c) - Top.remaining) + 0 = asked - c
    BY <1>1, <1>6
  <2>2. Wanted = TRUE
    BY <1>4 DEF FlowInv, NotStarted, Wanted, SourceDone
  <2> QED
    BY <1>8, <2>1, <2>2
<1>10. base[1].job = "end"
  <2>1. PICK j : j = NewJob("end", 0)
    OBVIOUS
  <2>2. j \in Job /\ j.job = "end"
    BY <2>1, FlowAssumption, JobMade
  <2>3. base = Append(Front(stack), j) /\ Front(stack) \in Seq(Job) /\ Len(Front(stack)) = 0
    BY <1>1, <1>5, <1>7, <2>1, FrontOf DEF Rest
  <2>4. Append(Front(stack), j)[0 + 1] = j
    BY <2>2, <2>3, Appended
  <2> QED
    BY <2>2, <2>3, <2>4
<1>11. \A S : "end" \in S => JobsIn(base, queue, S)
  BY <1>5, <1>8, <1>10 DEF JobsIn
<1>12. Ready(base, c, TRUE)
  BY <1>1, <1>8, <1>9, <1>11 DEF Ready, Later, Earlier
<1> QED
  BY <1>3, <1>4, <1>7, <1>11, <1>12

LEMMA RunStartingStep ==
  ASSUME FlowInv, RunStarting
  PROVE  FlowInv'
<1> USE DEF setup, source
<1>1. /\ stack # <<>> /\ Top.job = "starting" /\ Emit("starting", 0, Rest("end", 0))
      /\ UNCHANGED <<limit, useVia, consumer, phase, c>>
  BY DEF RunStarting, Runs
<1>2. /\ ~Begun /\ ~fr.started /\ ~via.done /\ lost = "none" /\ posted = <<>>
      /\ phase = "submitted" /\ Ready(Rest("end", 0), c, TRUE)
      /\ JobsIn(Rest("end", 0), queue, {"starting", "end"})
  BY <1>1, FirstJob
<1>3. PICK base : base = Rest("end", 0)
  OBVIOUS
<1>4. PICK s : s = [signal |-> "starting", value |-> 0]
  OBVIOUS
<1>5. s \in Signal /\ s.signal = "starting"
  BY <1>4, FlowAssumption DEF Signal
<1>6. CASE ~useVia
  <2>1. Receive(s, base) /\ UNCHANGED <<via, posted, lost>>
    BY <1>1, <1>3, <1>4, <1>6 DEF Emit
  <2>2. ReceiveStarting(base)
    BY <1>5, <2>1 DEF Receive
  <2>3. fr'.started
    BY <1>2, <1>3, <2>2, StartingEffect DEF FlowInv, NotStarted, Ready
  <2>4. Begun'
    BY <1>1, <1>6, <2>3 DEF Begun
  <2> QED
    BY <1>1, <1>2, <1>3, <2>1, <2>2, <2>4, StartConsumer
<1>7. CASE useVia
  <2>1. /\ Post(s) \/ PostFails(s)
        /\ stack' = base
        /\ UNCHANGED <<queue, stop, up, asked, fr, out, got, held>>
    BY <1>1, <1>3, <1>4, <1>7 DEF Emit
  <2>2. via \in FlowReceiverType /\ ~via.started /\ ~via.dead /\ failures \in 0..MaxFailures
        /\ MaxFailures \in Nat
    BY <1>2, <1>7, FlowAssumption DEF FlowInv, TypeOK, Begun, Route
  <2>3. /\ Starting(via) \in FlowReceiverType /\ Starting(via).started
        /\ ~Starting(via).done /\ ~Starting(via).dead
    BY <1>2, <2>2, FlowCalls
  <2>4. /\ terminate(Starting(via)) \in FlowReceiverType /\ terminate(Starting(via)).started
        /\ ~terminate(Starting(via)).done
    BY <2>3, FlowCalls
  <2>5. \/ /\ via' = Starting(via) /\ posted' = Append(posted, s) /\ lost' = "none"
           /\ failures' = failures
        \/ /\ via' = terminate(Starting(via)) /\ posted' = posted
           /\ lost' = "starting" /\ failures' \in 0..MaxFailures
    <3>1. CASE Post(s)
      BY <1>2, <1>5, <3>1 DEF Post, ForwardedVia, Forwards
    <3>2. CASE PostFails(s)
      BY <1>5, <2>2, <3>2 DEF PostFails, Refused
    <3> QED
      BY <2>1, <3>1, <3>2
  <2>6. via' \in FlowReceiverType /\ via'.started /\ ~via'.done
        /\ (via'.dead => lost' = "starting")
    BY <2>3, <2>4, <2>5
  <2>7. \/ posted' = <<>>
        \/ posted' = <<s>> /\ lost' = "none"
    BY <1>2, <1>5, <2>5
  <2>8. posted' \in Seq(Signal) /\ Len(posted') <= 1
        /\ \A i \in 1..Len(posted') : posted'[i].signal = "starting" /\ lost' = "none"
    <3>1. CASE posted' = <<>>
      BY <3>1
    <3>2. CASE posted' = <<s>> /\ lost' = "none"
      BY <1>5, <3>2
    <3> QED
      BY <2>7, <3>1, <3>2
  <2>9. failures' \in 0..MaxFailures /\ lost' \in {"none", "starting"}
    BY <2>2, <2>5
  <2>10. UpEffect(base)
    BY <1>2, <1>3, <2>1, <2>9, NothingEffect DEF FlowInv, Ready
  <2>11. TypeOK'
    BY <1>1, <2>1, <2>6, <2>8, <2>9, <2>10 DEF FlowInv, TypeOK, UpEffect
  <2>12. Demand' /\ Finishing'
    <3>1. Wanted' = TRUE
      BY <1>1, <1>2, <1>7, <2>1, <2>6 DEF FlowInv, NotStarted, Wanted, SourceDone
    <3> QED
      BY <1>1, <1>2, <1>3, <2>1, <3>1 DEF Demand, Finishing, Ready, Earlier
  <2>13. Begun'
    BY <1>1, <1>7, <2>6 DEF Begun
  <2>14. HasBegun' /\ NotBegun'
    BY <1>1, <1>2, <1>3, <2>1, <2>13 DEF HasBegun, NotBegun, Ready, Later
  <2>15. NotStarted'
    BY <1>1, <1>2, <1>3, <2>1, <2>6, <2>8 DEF FlowInv, NotStarted
  <2>16. Route' /\ Flags'
    BY <1>1, <1>2, <1>7, <2>1, <2>6 DEF FlowInv, Route, Flags
  <2>17. Posted' /\ EachOnceInOrder'
    BY <1>2, <2>1 DEF FlowInv, Posted, EachOnceInOrder
  <2> QED
    BY <2>11, <2>12, <2>14, <2>15, <2>16, <2>17 DEF FlowInv
<1> QED
  BY <1>6, <1>7

\* A step that only rearranges jobs.
LEMMA JobsStep ==
  ASSUME FlowInv, stack' \in Seq(Job), Len(stack') <= limit + 1, queue' \in Seq(Job), Demand',
         \A S : JobsIn(stack, queue, S) => JobsIn(stack', queue', S),
         ~Begun => Len(stack') + Len(queue') <= 1 /\ phase = "submitted",
         UNCHANGED <<setup, source, stop, up, via, posted, fr, out, got, asked, held, failures,
                     lost>>
  PROVE  FlowInv'
<1> USE DEF setup, source
<1>1. TypeOK'
  BY DEF FlowInv, TypeOK
<1>2. Begun' = Begun
  BY DEF Begun
<1>3. HasBegun' /\ NotBegun'
  BY <1>2 DEF FlowInv, HasBegun, NotBegun
<1>4. NotStarted' /\ Finishing'
  BY DEF FlowInv, NotStarted, Finishing
<1>5. Route' /\ Flags' /\ Posted' /\ EachOnceInOrder'
  BY DEF FlowInv, Route, Flags, Posted, EachOnceInOrder
<1> QED
  BY <1>1, <1>3, <1>4, <1>5 DEF FlowInv

LEMMA EndJobStep ==
  ASSUME FlowInv, EndJob
  PROVE  FlowInv'
<1>1. /\ stack # <<>> /\ Top.job = "end" /\ stack' = Front(stack)
      /\ UNCHANGED <<queue, stop, up, asked, failures>>
      /\ UNCHANGED <<setup, source, via, posted, fr, out, got, held, lost>>
  BY DEF EndJob, Runs, CallsNothing, unsent
<1>2. stack \in Seq(Job) /\ queue \in Seq(Job) /\ asked \in Nat /\ c \in Nat
      /\ Len(stack) <= limit + 1 /\ limit \in Nat
  BY FlowAssumption DEF FlowInv, TypeOK
<1>3. \A S : JobsIn(stack, queue, S) => JobsIn(Front(stack), queue, S) /\ Top.job \in S
  BY <1>1, <1>2, JobsInFront DEF Top
<1>4. Begun
  BY <1>1, <1>3 DEF FlowInv, NotBegun
<1>5. Front(stack) \in Seq(Job) /\ Len(Front(stack)) = Len(stack) - 1 /\ Len(stack) \in Nat
      /\ Top \in Job
  BY <1>1, <1>2, FrontOf DEF Top
<1>6. Top.remaining = 0
  BY <1>1, <1>5, JobFields
<1>7. asked - c \in Int /\ Wanted \in BOOLEAN /\ (asked - c) - Top.remaining = asked - c
  BY <1>2, <1>6 DEF Wanted
<1>8. Owes(Front(stack), queue, (asked - c) - Top.remaining, Wanted)
  BY <1>1, <1>2, <1>7, OwesFront DEF FlowInv, Demand, Top
<1>9. Wanted' = Wanted
  BY <1>1 DEF Wanted, SourceDone, setup
<1>10. Demand'
  BY <1>1, <1>7, <1>8, <1>9 DEF Demand, source
<1>11. Len(stack') <= limit + 1
  BY <1>1, <1>2, <1>5
<1> QED
  BY <1>1, <1>2, <1>3, <1>4, <1>5, <1>10, <1>11, JobsStep

LEMMA NextJobStep ==
  ASSUME FlowInv, NextJob
  PROVE  FlowInv'
<1>1. /\ stack = <<>> /\ queue # <<>> /\ stack' = <<Head(queue)>> /\ queue' = Tail(queue)
      /\ UNCHANGED <<setup, source, stop, up, via, posted, fr, out, got, asked, held, failures,
                     lost>>
  BY DEF NextJob
<1>2. queue \in Seq(Job) /\ asked \in Nat /\ c \in Nat /\ limit \in Nat
  BY FlowAssumption DEF FlowInv, TypeOK
<1>3. Head(queue) \in Job /\ Tail(queue) \in Seq(Job) /\ Len(Tail(queue)) = Len(queue) - 1
      /\ Len(queue) \in Nat
  BY <1>1, <1>2, TailOf
<1>4. stack' \in Seq(Job) /\ Len(stack') = 1 /\ Len(stack') <= limit + 1
  BY <1>1, <1>2, <1>3
<1>5. \A S : JobsIn(stack, queue, S) => JobsIn(stack', queue', S)
  BY <1>1, <1>2, JobsInNext
<1>6. Owes(<<Head(queue)>>, Tail(queue), asked - c, Wanted)
  <2>1. Owes(<<>>, queue, asked - c, Wanted) /\ asked - c \in Int /\ Wanted \in BOOLEAN
    BY <1>1, <1>2 DEF FlowInv, Demand, Wanted
  <2> QED
    BY <1>1, <1>2, <2>1, OwesNext
<1>7. Demand'
  <2>1. Wanted' = Wanted
    BY <1>1 DEF Wanted, SourceDone, setup
  <2> QED
    BY <1>1, <1>6, <2>1 DEF Demand, source
<1>8. ~Begun => Len(stack') + Len(queue') <= 1 /\ phase = "submitted"
  <2>1. ~Begun => Len(queue) <= 1 /\ phase = "submitted"
    BY <1>1, <1>3 DEF FlowInv, NotBegun
  <2> QED
    BY <1>1, <1>3, <1>4, <2>1
<1> QED
  BY <1>1, <1>3, <1>4, <1>5, <1>7, <1>8, JobsStep

\* Until the flow is submitted it has no jobs.
LEMMA SubmitFlowStep ==
  ASSUME FlowInv, SubmitFlow
  PROVE  FlowInv'
<1> USE DEF setup
<1>1. /\ phase \in {"new", "on"} /\ phase' = "submitted"
      /\ Submit(NewJob("starting", 0), stack)
      /\ UNCHANGED <<limit, useVia, consumer, c, stop, up, via, posted, fr, out, got, asked,
                     held, failures, lost>>
  BY DEF SubmitFlow
<1>2. ~Begun
  BY <1>1 DEF FlowInv, HasBegun
<1>3. /\ ~fr.started /\ ~via.done /\ lost = "none" /\ posted = <<>>
      /\ stack = <<>> /\ queue = <<>>
  BY <1>1, <1>2 DEF FlowInv, NotBegun
<1>4. PICK j : j = NewJob("starting", 0)
  OBVIOUS
<1>5. j \in Job /\ j.job = "starting" /\ j.remaining = 0
  BY <1>4, FlowAssumption, JobMade
<1>6. Submit(j, stack)
  BY <1>1, <1>4
<1>7. /\ stack' \in Seq(Job) /\ Len(stack') <= limit + 1 /\ queue' \in Seq(Job)
      /\ \A k \in Int, e \in BOOLEAN :
           Owes(stack, queue, k, e) => Owes(stack', queue', k + 0, e)
      /\ \A S : JobsIn(stack, queue, S) /\ "starting" \in S => JobsIn(stack', queue', S)
  BY <1>5, <1>6, SubmitEffect DEF FlowInv, TypeOK
<1>8. asked \in Nat /\ c \in Nat
  BY FlowAssumption DEF FlowInv, TypeOK
<1>9. Demand'
  <2>1. asked - c \in Int /\ (asked - c) + 0 = asked - c
    BY <1>8
  <2>2. Owes(stack', queue', asked - c, Wanted)
    BY <1>7, <2>1 DEF FlowInv, Demand, Wanted
  <2>3. Wanted' = Wanted
    BY <1>1 DEF Wanted, SourceDone
  <2> QED
    BY <1>1, <2>2, <2>3 DEF Demand
<1>10. TypeOK'
  BY <1>1, <1>7 DEF FlowInv, TypeOK
<1>11. ~Begun'
  BY <1>1, <1>2 DEF Begun
<1>12. \A S : "starting" \in S => JobsIn(stack', queue', S)
  BY <1>3, <1>7 DEF JobsIn
<1>13. Len(stack') + Len(queue') <= 1
  <2>1. \/ stack' = <<j>> /\ queue' = <<>>
        \/ stack' = <<>> /\ queue' = <<j>>
    BY <1>3, <1>5, <1>6 DEF Submit
  <2>2. Len(<<j>>) = 1 /\ Len(<<>>) = 0
    OBVIOUS
  <2>3. \/ Len(stack') = 1 /\ Len(queue') = 0
        \/ Len(stack') = 0 /\ Len(queue') = 1
    BY <2>1, <2>2, Zenon
  <2>4. PICK m \in Nat, n \in Nat : m = Len(stack') /\ n = Len(queue')
    BY <1>7
  <2>5. (m = 1 /\ n = 0) \/ (m = 0 /\ n = 1)
    BY <2>3, <2>4, Zenon
  <2>6. m + n <= 1
    BY <2>5
  <2> QED
    BY <2>4, <2>6
<1>14. NotBegun' /\ HasBegun'
  BY <1>1, <1>3, <1>11, <1>12, <1>13 DEF NotBegun, HasBegun
<1>15. NotStarted' /\ Finishing'
  BY <1>1, <1>12 DEF FlowInv, NotStarted, Finishing
<1>16. Route' /\ Flags' /\ Posted' /\ EachOnceInOrder'
  BY <1>1 DEF FlowInv, Route, Flags, Posted, EachOnceInOrder
<1> QED
  BY <1>9, <1>10, <1>14, <1>15, <1>16 DEF FlowInv

LEMMA PhaseStep ==
  ASSUME FlowInv, SubmitOn \/ SubmitThrows
  PROVE  FlowInv'
<1> USE DEF setup
<1>1. /\ phase \in {"new", "on"} /\ phase' \in {"on", "refused", "terminated"}
      /\ failures' \in 0..MaxFailures
      /\ UNCHANGED <<limit, useVia, consumer, c, stop, up, stack, queue, via, posted, fr, out,
                     got, asked, held, lost>>
  BY FlowAssumption DEF SubmitOn, SubmitThrows, Refused, FlowInv, TypeOK
<1>2. ~Begun /\ ~Begun'
  BY <1>1 DEF FlowInv, HasBegun, Begun
<1>3. TypeOK'
  BY <1>1 DEF FlowInv, TypeOK
<1>4. Demand' /\ NotBegun' /\ HasBegun'
  BY <1>1, <1>2 DEF FlowInv, Demand, Wanted, SourceDone, NotBegun, HasBegun
<1>5. NotStarted' /\ Finishing' /\ Route' /\ Flags' /\ Posted' /\ EachOnceInOrder'
  BY <1>1 DEF FlowInv, NotStarted, Finishing, Route, Flags, Posted, EachOnceInOrder
<1> QED
  BY <1>3, <1>4, <1>5 DEF FlowInv

-----------------------------------------------------------------------------
LEMMA InitInv == Init => FlowInv
<1> SUFFICES ASSUME Init
             PROVE  FlowInv
  OBVIOUS
<1>1. /\ NewFlowReceiver \in FlowReceiverType /\ NewFlowReceiver.end = "none"
      /\ NewReceiver \in ReceiverType /\ NewReceiver.n = 0 /\ NewReceiver.end = "none"
  BY DEF NewFlowReceiver, FlowReceiverType, NewReceiver, ReceiverType, Ends
<1>2. ~NewFlowReceiver.started /\ ~NewFlowReceiver.dead /\ ~NewFlowReceiver.done
  BY DEF NewFlowReceiver
<1>3. ~NewReceiver.done
  BY DEF NewReceiver
<1>4. /\ via = NewFlowReceiver /\ fr = NewFlowReceiver /\ out = NewReceiver
      /\ stack = <<>> /\ queue = <<>> /\ posted = <<>> /\ got = <<>>
      /\ asked = 0 /\ c = 0 /\ phase = "new" /\ lost = "none" /\ failures = 0
      /\ stop = FALSE /\ up = FALSE /\ held = FALSE
      /\ limit \in Limits /\ useVia \in BOOLEAN /\ (useVia => limit = 0) /\ consumer \in Consumers
  BY DEF Init
<1>5. TypeOK
  <2>1. stack \in Seq(Job) /\ queue \in Seq(Job) /\ posted \in Seq(Signal) /\ got \in Seq(1..Length)
    BY <1>4
  <2>2. Len(stack) <= limit + 1 /\ c \in 0..Length /\ asked \in Nat /\ failures \in 0..MaxFailures
    BY <1>4, FlowAssumption
  <2>3. stop \in BOOLEAN /\ up \in BOOLEAN /\ held \in BOOLEAN
    BY <1>4
  <2> QED
    BY <1>1, <1>4, <2>1, <2>2, <2>3 DEF TypeOK
<1>6. Demand
  <2>1. asked - c = 0 /\ Wanted = TRUE
    BY <1>2, <1>4 DEF Wanted, SourceDone
  <2> QED
    BY <1>4, <2>1, OwesNothing DEF Demand
<1>7. \A S : JobsIn(stack, queue, S)
  BY <1>4 DEF JobsIn
<1>8. ~Begun
  BY <1>2, <1>4 DEF Begun
<1>9. NotBegun /\ HasBegun
  BY <1>2, <1>4, <1>7, <1>8 DEF NotBegun, HasBegun
<1>10. NotStarted /\ Finishing
  BY <1>2, <1>4, <1>7 DEF NotStarted, Finishing
<1>11. Route /\ Posted
  BY <1>2, <1>4 DEF Route, Posted
<1>12. Flags /\ EachOnceInOrder
  BY <1>1, <1>2, <1>3, <1>4 DEF Flags, Ended, EachOnceInOrder
<1> QED
  BY <1>5, <1>6, <1>9, <1>10, <1>11, <1>12 DEF FlowInv

LEMMA NextInv == FlowInv /\ [Next]_vars => FlowInv'
<1> SUFFICES ASSUME FlowInv, [Next]_vars
             PROVE  FlowInv'
  OBVIOUS
<1>1. CASE UNCHANGED vars
  <2> USE <1>1 DEF vars
  <2>1. TypeOK' /\ Demand'
    BY DEF FlowInv, TypeOK, Demand, Wanted, SourceDone
  <2>2. NotBegun' /\ HasBegun'
    BY DEF FlowInv, NotBegun, HasBegun, Begun
  <2>3. NotStarted' /\ Finishing' /\ Route' /\ Flags' /\ Posted' /\ EachOnceInOrder'
    BY DEF FlowInv, NotStarted, Finishing, Route, Flags, Posted, EachOnceInOrder
    <2> QED
    BY <2>1, <2>2, <2>3 DEF FlowInv
<1>2. CASE Next
  <2>1. CASE RunPosted
    BY <2>1, RunPostedStep, RunFirstPostedStep
  <2>2. CASE SubmitOn \/ SubmitThrows \/ SubmitFlow \/ NextJob \/ EndJob
    BY <2>2, PhaseStep, SubmitFlowStep, NextJobStep, EndJobStep
  <2>3. CASE RunStarting \/ RunRequest \/ EndRequest \/ RunFinish \/ OtherThread
    BY <2>3, RunStartingStep, RunRequestStep, EndRequestStep, RunFinishStep, OtherThreadStep
  <2> QED
    BY <1>2, <2>1, <2>2, <2>3 DEF Next
<1> QED
  BY <1>1, <1>2

-----------------------------------------------------------------------------
\* The flow keeps its types, its jobs owe what was asked for and not sent (no more, and no
\* less while it is wanted), and what is on its way through via continues what the consumer
\* has got: the inductive invariant of flows.
THEOREM FlowCorrect == Spec => []FlowInv
<1>1. Init => FlowInv
  BY InitInv
<1>2. FlowInv /\ [Next]_vars => FlowInv'
  BY NextInv
<1> QED
  BY <1>1, <1>2, PTL DEF Spec

\* flow_from never takes more values from its range than were requested, for every size of
\* requests and every depth of re-entrant calls.
THEOREM DemandCorrect == Spec => []DemandRespected
<1>1. FlowInv => DemandRespected
  <2> SUFFICES ASSUME FlowInv
               PROVE  c <= asked
    BY DEF DemandRespected
  <2>1. stack \in Seq(Job) /\ queue \in Seq(Job) /\ asked \in Nat /\ c \in Nat
    BY FlowAssumption DEF FlowInv, TypeOK
  <2>2. asked - c >= 0
    <3>1. asked - c \in Int /\ Wanted \in BOOLEAN /\ Owes(stack, queue, asked - c, Wanted)
      BY <2>1 DEF FlowInv, Demand, Wanted
    <3> QED
      BY <2>1, <3>1, OwesBound
  <2> QED
    BY <2>1, <2>2
<1> QED
  BY <1>1, FlowCorrect, PTL

\* std::terminate() is never reached in the consumer's flow receiver; in via's it is reached
\* only when the strand refuses the submission that carries starting(), and then before the
\* consumer has been started.
THEOREM NoTerminateCorrect == Spec => []NoTerminate
<1>1. FlowInv => NoTerminate
  BY DEF FlowInv, Route, NoTerminate
<1> QED
  BY <1>1, FlowCorrect, PTL

\* The consumer gets the values of the range in order, each once, and all of them when it
\* is told done without having been stopped.
THEOREM OrderCorrect == Spec => []EachOnceInOrder
<1>1. FlowInv => EachOnceInOrder
  BY DEF FlowInv
<1> QED
  BY <1>1, FlowCorrect, PTL

\* What was requested arrives: when no job and no item of via's strand is left, a consumer
\* that was neither completed nor cancelled has got exactly as many values as it has asked
\* for, for every nesting and deferral of its requests.
THEOREM RequestsServedCorrect == Spec => []RequestsServed
<1>1. FlowInv => RequestsServed
  <2> SUFFICES ASSUME FlowInv, Quiet, ~stop, ~Ended(fr), lost = "none"
               PROVE  Len(got) = asked
    BY DEF RequestsServed
  <2>1. asked \in Nat /\ c \in Nat /\ Len(got) \in Nat /\ ~fr.done
    BY FlowAssumption DEF FlowInv, TypeOK, Flags
  <2>2. stack = <<>> /\ queue = <<>> /\ posted = <<>>
    BY DEF Quiet
  <2>3. CASE ~fr.started
    BY <2>3 DEF FlowInv, NotStarted
  <2>4. CASE fr.started
    <3>1. ~via.done
      BY <2>1, <2>2, <2>4 DEF FlowInv, Posted
    <3>2. Len(got) = c
      BY <2>1, <2>2, <2>4, <3>1 DEF FlowInv, Posted
    <3>3. Wanted = TRUE
      BY <2>1, <3>1 DEF Wanted, SourceDone
    <3>4. Owes(stack, queue, asked - c, Wanted) /\ asked - c \in Int
      BY <2>1 DEF FlowInv, Demand
    <3>5. Owes(<<>>, <<>>, asked - c, TRUE)
      BY <2>2, <3>3, <3>4, Zenon
    <3>6. asked - c = 0
      BY <3>4, <3>5, OwesNone
    <3> QED
      BY <2>1, <3>2, <3>6
  <2> QED
    BY <2>3, <2>4
<1> QED
  BY <1>1, FlowCorrect, PTL
=============================================================================

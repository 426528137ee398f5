--------------------------- MODULE StreamIO_proofs ---------------------------
(***************************************************************************)
(* Proofs about StreamIO: for any number of threads, any data to send, any *)
(* lengths of buffers and any capacity of the kernel's.                    *)
(***************************************************************************)
EXTENDS StreamIO, SequenceTheorems, TLAPS

Bytes == (1..MaxCalls) \X (Nat \ {0}) \X (Nat \ {0})

Sending(t) == pc[t] \in SendingPCs

(***************************************************************************)
(* The inductive invariant                                                 *)
(***************************************************************************)
(* A sending call has a number of its own, and no byte of the stream has a *)
(* number that is not given out yet.                                       *)
CallsNumbered ==
  /\ \A t \in Threads : Sending(t) => id[t] \in 1..calls
  /\ \A t, u \in Threads : t # u /\ Sending(t) /\ Sending(u) => id[t] # id[u]
  /\ \A c \in finished : c.id \in 1..calls /\ \A t \in Threads : Sending(t) => id[t] # c.id
  /\ \A k \in DOMAIN sent : sent[k][1] <= calls

(* Only the gathering calls allocate, and only ConnectEx connects.         *)
ApiKnown ==
  \A t \in Threads : /\ pc[t] = "alloc" => job[t].api \in Gathering
                     /\ pc[t] = "connect" => job[t].api = "ConnectEx"

(* A system call puts in no more than its part, all of it unless it comes  *)
(* up short, and nothing when it fails.                                    *)
PartDone ==
  \A t \in Threads : Sending(t) =>
    /\ done[t] <= job[t].parts[part[t]]
    /\ pc[t] \in {"alloc", "connect", "failed"} => done[t] = 0
    /\ pc[t] = "sent" /\ t \notin short => done[t] = job[t].parts[part[t]]

Has(s, c, p, i) == \E k \in DOMAIN s : s[k] = <<c, p, i>>

(* The stream holds what a call has put in of the part it is at, nothing   *)
(* of the parts behind and, unless it came up short, all of those before.  *)
Progress ==
  \A t \in Threads : Sending(t) =>
    /\ \A k \in DOMAIN sent : sent[k][1] = id[t] =>
         /\ sent[k][2] \in 1..part[t]
         /\ sent[k][3] <= job[t].parts[sent[k][2]]
         /\ sent[k][2] = part[t] => sent[k][3] <= done[t]
    /\ \A i \in 1..done[t] : Has(sent, id[t], part[t], i)
    /\ t \notin short =>
         \A p \in 1..(part[t] - 1) : \A i \in 1..job[t].parts[p] : Has(sent, id[t], p, i)

Ordered == \A c \in 1..MaxCalls : InOrder(c)

SendInv ==
  CallsNumbered /\ ApiKnown /\ PartDone /\ Progress /\ Ordered /\ ReportedIsSent /\ WholeUnlessShort

Inv == TypeOK /\ IovsOwned /\ TakenIsReported /\ SendInv

(***************************************************************************)
(* Lemmas about the data                                                   *)
(***************************************************************************)
(* The parts of a job are counted from 1, and none is empty.               *)
LEMMA JobParts ==
  ASSUME NEW j \in Jobs
  PROVE  /\ DOMAIN j.parts = 1..Len(j.parts) /\ Len(j.parts) \in Nat \ {0}
         /\ \A p \in 1..Len(j.parts) : j.parts[p] \in Nat \ {0}
         /\ j.api \notin MultiPart => Len(j.parts) = 1
<1>1. j.parts \in Seq(Nat \ {0}) /\ j.parts # <<>> /\ (j.api \notin MultiPart => Len(j.parts) = 1)
  BY JobsAssumption
<1>2. Len(j.parts) \in Nat /\ DOMAIN j.parts = 1..Len(j.parts)
      /\ j.parts \in [1..Len(j.parts) -> Nat \ {0}]
  BY <1>1, LenProperties
<1>3. Len(j.parts) # 0
  BY <1>1, EmptySeq
<1> QED
  BY <1>1, <1>2, <1>3

(* The part a call is at, and its length.                                  *)
LEMMA PartLength ==
  ASSUME TypeOK, NEW t \in Threads, Sending(t)
  PROVE  /\ job[t] \in Jobs /\ part[t] \in 1..Len(job[t].parts) /\ part[t] \in Nat \ {0}
         /\ job[t].parts[part[t]] \in Nat \ {0} /\ done[t] \in Nat /\ id[t] \in 0..MaxCalls
         /\ job[t].api \notin MultiPart => part[t] = 1
<1>1. job[t] \in Jobs /\ part[t] \in DOMAIN job[t].parts /\ done[t] \in Nat /\ id[t] \in 0..MaxCalls
  BY DEF TypeOK, Sending
<1> QED
  BY <1>1, JobParts

(* The stream is a sequence of bytes.                                      *)
LEMMA StreamBytes ==
  TypeOK => /\ sent \in Seq(Bytes) /\ Len(sent) \in Nat /\ DOMAIN sent = 1..Len(sent)
            /\ \A k \in DOMAIN sent :
                 /\ sent[k] \in Bytes /\ sent[k] = <<sent[k][1], sent[k][2], sent[k][3]>>
                 /\ sent[k][1] \in 1..MaxCalls /\ sent[k][2] \in Nat \ {0} /\ sent[k][3] \in Nat \ {0}
<1> SUFFICES ASSUME TypeOK
             PROVE  /\ sent \in Seq(Bytes) /\ Len(sent) \in Nat /\ DOMAIN sent = 1..Len(sent)
                    /\ \A k \in DOMAIN sent :
                         /\ sent[k] \in Bytes /\ sent[k] = <<sent[k][1], sent[k][2], sent[k][3]>>
                         /\ sent[k][1] \in 1..MaxCalls /\ sent[k][2] \in Nat \ {0}
                         /\ sent[k][3] \in Nat \ {0}
  OBVIOUS
<1>1. sent \in Seq(Bytes)
  BY DEF TypeOK, Bytes
<1>2. Len(sent) \in Nat /\ DOMAIN sent = 1..Len(sent) /\ sent \in [1..Len(sent) -> Bytes]
  BY <1>1, LenProperties
<1>3. \A k \in DOMAIN sent : sent[k] \in Bytes
  BY <1>2
<1>4. \A b \in Bytes : /\ b = <<b[1], b[2], b[3]>> /\ b[1] \in 1..MaxCalls /\ b[2] \in Nat \ {0}
                       /\ b[3] \in Nat \ {0}
  BY DEF Bytes
<1> QED
  BY <1>1, <1>2, <1>3, <1>4

(* What InStream holds.                                                    *)
LEMMA InStreamHas ==
  ASSUME TypeOK, NEW c
  PROVE  /\ \A b \in InStream(c) : b = <<b[1], b[2]>> /\ Has(sent, c, b[1], b[2])
         /\ \A p, i : Has(sent, c, p, i) => <<p, i>> \in InStream(c)
<1>1. ASSUME NEW b \in InStream(c) PROVE b = <<b[1], b[2]>> /\ Has(sent, c, b[1], b[2])
  <2>1. PICK k \in DOMAIN sent : sent[k][1] = c /\ b = <<sent[k][2], sent[k][3]>>
    BY DEF InStream
  <2> QED
    BY <2>1, StreamBytes DEF Has
<1>2. ASSUME NEW p, NEW i, Has(sent, c, p, i) PROVE <<p, i>> \in InStream(c)
  BY <1>2 DEF Has, InStream
<1> QED
  BY <1>1, <1>2

(***************************************************************************)
(* What a system call puts into the stream                                 *)
(***************************************************************************)
(* The next n bytes of the part come behind all others.                    *)
LEMMA PutEffect ==
  ASSUME TypeOK, CallsNumbered, PartDone, NEW t \in Threads, Sending(t), NEW n \in Nat, Put(t, n)
  PROVE  /\ sent' \in Seq(Bytes) /\ Len(sent') = Len(sent) + n
         /\ \A k \in 1..Len(sent) : sent'[k] = sent[k]
         /\ \A i \in 1..n : sent'[Len(sent) + i] = <<id[t], part[t], done[t] + i>>
<1> DEFINE new == [i \in 1..n |-> <<id[t], part[t], done[t] + i>>]
<1>1. part[t] \in Nat \ {0} /\ done[t] \in Nat /\ id[t] \in 1..MaxCalls
  <2>1. id[t] \in 1..calls /\ calls \in 0..MaxCalls
    BY DEF CallsNumbered, TypeOK
  <2> QED
    BY <2>1, PartLength, BoundsAssumption
<1>2. new \in Seq(Bytes) /\ Len(new) = n /\ \A i \in 1..n : new[i] = <<id[t], part[t], done[t] + i>>
  <2>1. \A i \in 1..n : <<id[t], part[t], done[t] + i>> \in Bytes
    BY <1>1 DEF Bytes
  <2>2. new \in [1..n -> Bytes]
    BY <2>1
  <2> QED
    BY <2>2, SeqDef
<1>3. sent' = sent \o new
  BY DEF Put
<1> HIDE DEF new
<1>4. /\ sent' \in Seq(Bytes) /\ Len(sent') = Len(sent) + n
      /\ \A k \in 1..Len(sent) + n : sent'[k] = IF k <= Len(sent) THEN sent[k] ELSE new[k - Len(sent)]
  <2>1. /\ sent \o new \in Seq(Bytes) /\ Len(sent \o new) = Len(sent) + Len(new)
        /\ \A k \in 1..Len(sent) + Len(new) :
             (sent \o new)[k] = IF k <= Len(sent) THEN sent[k] ELSE new[k - Len(sent)]
    <3>1. sent \in Seq(Bytes) /\ new \in Seq(Bytes)
      BY <1>2, StreamBytes
    <3> QED
      BY <3>1, ConcatProperties
  <2> QED
    BY <1>2, <1>3, <2>1
<1>5. \A k \in 1..Len(sent) : sent'[k] = sent[k]
  BY <1>4, StreamBytes
<1>6. ASSUME NEW i \in 1..n PROVE sent'[Len(sent) + i] = <<id[t], part[t], done[t] + i>>
  <2>1. Len(sent) \in Nat /\ Len(sent) + i \in 1..Len(sent) + n /\ ~(Len(sent) + i <= Len(sent))
        /\ Len(sent) + i - Len(sent) = i
    BY StreamBytes
  <2>2. sent'[Len(sent) + i] = new[Len(sent) + i - Len(sent)]
    BY <1>4, <2>1
  <2> QED
    BY <1>2, <2>1, <2>2
<1> QED
  BY <1>4, <1>5, <1>6

(* It adds n of the bytes that come next of the part, at the end; when it  *)
(* returns, it has added all of them or is marked as short.                *)
Entered(t, n) ==
  /\ n <= Room /\ n <= Remaining(t)
  /\ sent' \in Seq(Bytes) /\ Len(sent') = Len(sent) + n
  /\ \A k \in 1..Len(sent) : sent'[k] = sent[k]
  /\ \A i \in 1..n : sent'[Len(sent) + i] = <<id[t], part[t], done[t] + i>>
  /\ done' = [done EXCEPT ![t] = @ + n]
  /\ \/ pc' = [pc EXCEPT ![t] = "sent"] /\ (n = Remaining(t) \/ t \in short')
     \/ pc' = pc
  /\ short' \in {short, short \cup {t}}
  /\ UNCHANGED <<taken, conn, nonblocking, calls, received, finished, job, id, part, flags, want,
                 got, iovs>>

LEMMA SendEffect ==
  ASSUME TypeOK, CallsNumbered, PartDone, NEW t \in Threads, SysSend(t) \/ SysSendEnds(t)
  PROVE  pc[t] = "send" /\ Sending(t) /\ \E n \in Nat : Entered(t, n)
<1>1. pc[t] = "send" /\ Sending(t)
  BY DEF SysSend, SysSendEnds, Goto, Sending, SendingPCs
<1>2. Remaining(t) \in Nat /\ Room \in Nat
  <2>1. done[t] <= job[t].parts[part[t]]
    BY <1>1 DEF PartDone
  <2>2. Remaining(t) \in Nat
    BY <1>1, <2>1, PartLength DEF Remaining
  <2>3. Room \in Nat
    BY StreamBytes, BoundsAssumption DEF Room, TypeOK
  <2> QED
    BY <2>2, <2>3
<1>3. ASSUME NEW n \in Nat, Put(t, n)
      PROVE  /\ sent' \in Seq(Bytes) /\ Len(sent') = Len(sent) + n
             /\ \A k \in 1..Len(sent) : sent'[k] = sent[k]
             /\ \A i \in 1..n : sent'[Len(sent) + i] = <<id[t], part[t], done[t] + i>>
             /\ done' = [done EXCEPT ![t] = @ + n]
             /\ UNCHANGED <<taken, conn, nonblocking, calls, received, finished, job, id, part, flags,
                            want, got, iovs>>
  <2>1. /\ done' = [done EXCEPT ![t] = @ + n]
        /\ UNCHANGED <<taken, conn, nonblocking, calls, received, finished, job, id, part, flags,
                       want, got, iovs>>
    BY ONLY <1>3 DEF Put, history, receiving
  <2> QED
    BY <1>1, <1>3, <2>1, PutEffect
<1>4. CASE SysSend(t)
  <2> DEFINE n == Least(Room, Remaining(t))
  <2>1. n \in Nat /\ n <= Room /\ n <= Remaining(t)
    BY <1>2 DEF Least
  <2> HIDE DEF n
  <2>2. /\ Put(t, n)
        /\ IF n = Remaining(t) \/ nonblocking THEN pc' = [pc EXCEPT ![t] = "sent"] ELSE UNCHANGED pc
        /\ short' = IF n < Remaining(t) /\ nonblocking THEN short \cup {t} ELSE short
    BY <1>4 DEF SysSend, n
  <2>3. n = Remaining(t) \/ n < Remaining(t)
    BY <1>2, <2>1
  <2>4. /\ \/ pc' = [pc EXCEPT ![t] = "sent"] /\ (n = Remaining(t) \/ t \in short')
           \/ pc' = pc
        /\ short' \in {short, short \cup {t}}
    BY <2>2, <2>3
  <2>5. Entered(t, n)
    BY <1>3, <2>1, <2>2, <2>4 DEF Entered
  <2> QED
    BY <1>1, <2>1, <2>5
<1>5. CASE SysSendEnds(t)
  <2>1. PICK n \in 0..Room : n < Remaining(t) /\ Put(t, n)
    BY <1>5 DEF SysSendEnds
  <2>2. n \in Nat /\ n <= Room /\ n <= Remaining(t)
    BY <1>2, <2>1
  <2>3. pc' = [pc EXCEPT ![t] = "sent"] /\ short' = short \cup {t}
    BY <1>5 DEF SysSendEnds, Goto
  <2>4. Entered(t, n)
    BY <1>3, <2>1, <2>2, <2>3 DEF Entered
  <2> QED
    BY <1>1, <2>2, <2>4
<1> QED
  BY <1>4, <1>5

(***************************************************************************)
(* The stream and the calls that send                                      *)
(***************************************************************************)
(* The numbers and the properties of finished calls, while nothing is sent *)
(* and no call ends.                                                       *)
LEMMA FinishedKept ==
  ASSUME UNCHANGED <<sent, finished>>, Ordered, ReportedIsSent, WholeUnlessShort
  PROVE  Ordered' /\ ReportedIsSent' /\ WholeUnlessShort'
BY DEF Ordered, InOrder, Before, ReportedIsSent, WholeUnlessShort, InStream

(* A step that no sending call takes part in.                              *)
LEMMA OtherKeeps ==
  ASSUME SendInv, UNCHANGED <<sent, calls, finished, sending>>,
         \A u \in Threads : pc'[u] = pc[u] \/ (pc[u] \notin SendingPCs /\ pc'[u] \notin SendingPCs)
  PROVE  SendInv'
<1>1. \A u \in Threads : /\ Sending(u)' <=> Sending(u)
                         /\ Sending(u) => pc'[u] = pc[u]
  BY DEF Sending
<1>2. \A u \in Threads : pc[u] = pc'[u] \/ pc'[u] \notin {"alloc", "connect"}
  BY DEF SendingPCs
<1>3. UNCHANGED <<job, id, part, done, short>>
  BY DEF sending
<1>4. CallsNumbered' /\ ApiKnown'
  BY <1>1, <1>2, <1>3 DEF SendInv, CallsNumbered, ApiKnown
<1>5. PartDone'
  BY <1>1, <1>3 DEF SendInv, PartDone
<1>6. Progress'
  BY <1>1, <1>3 DEF SendInv, Progress, Has
<1> QED
  BY <1>4, <1>5, <1>6, FinishedKept DEF SendInv

(* A call that begins has put nothing in yet.                              *)
LEMMA BeginKeeps ==
  ASSUME TypeOK, SendInv, NEW t \in Threads, NEW apis, NEW to, Send(t, apis, to),
         \/ to = "alloc" /\ apis = Gathering
         \/ to = "send"
         \/ to = "connect" /\ apis = {"ConnectEx"}
  PROVE  SendInv'
<1>1. PICK j \in Jobs : j.api \in apis /\ job' = [job EXCEPT ![t] = j]
  BY DEF Send
<1>2. /\ pc' = [pc EXCEPT ![t] = to] /\ pc[t] = "idle" /\ calls' = calls + 1
      /\ id' = [id EXCEPT ![t] = calls + 1] /\ part' = [part EXCEPT ![t] = 1]
      /\ done' = [done EXCEPT ![t] = 0] /\ short' = short \ {t}
      /\ UNCHANGED <<sent, finished>>
  BY DEF Send, Goto, stream
<1>3. /\ pc'[t] = to /\ id'[t] = calls + 1 /\ part'[t] = 1 /\ done'[t] = 0 /\ job'[t] = j
      /\ t \notin short'
  BY <1>1, <1>2 DEF TypeOK
<1>4. ASSUME NEW u \in Threads \ {t}
      PROVE  /\ pc'[u] = pc[u] /\ id'[u] = id[u] /\ part'[u] = part[u] /\ done'[u] = done[u]
             /\ job'[u] = job[u] /\ (u \in short' <=> u \in short) /\ (Sending(u)' <=> Sending(u))
  BY <1>1, <1>2 DEF TypeOK, Sending
<1>5. calls \in Nat /\ \A u \in Threads : id[u] \in Nat
  BY BoundsAssumption DEF TypeOK
<1>6. \A k \in DOMAIN sent : sent[k][1] <= calls /\ sent[k][1] \in Nat
  BY StreamBytes, BoundsAssumption DEF SendInv, CallsNumbered
<1>7. CallsNumbered'
  <2>1. \A u \in Threads : Sending(u)' => id'[u] \in 1..calls'
    BY <1>2, <1>3, <1>4, <1>5 DEF SendInv, CallsNumbered
  <2>2. \A u, v \in Threads : u # v /\ Sending(u)' /\ Sending(v)' => id'[u] # id'[v]
    BY <1>3, <1>4, <1>5 DEF SendInv, CallsNumbered
  <2>3. \A c \in finished' : /\ c.id \in 1..calls'
                             /\ \A u \in Threads : Sending(u)' => id'[u] # c.id
    BY <1>2, <1>3, <1>4, <1>5 DEF SendInv, CallsNumbered
  <2>4. \A k \in DOMAIN sent' : sent'[k][1] <= calls'
    BY <1>2, <1>5, <1>6
  <2> QED
    BY <2>1, <2>2, <2>3, <2>4 DEF CallsNumbered
<1>8. ApiKnown'
  BY <1>1, <1>3, <1>4 DEF SendInv, ApiKnown
<1>9. PartDone'
  <2>1. j.parts[1] \in Nat \ {0}
    BY JobParts
  <2>2. 0 <= j.parts[1] /\ pc'[t] # "sent"
    BY <1>3, <2>1
  <2> QED
    BY <1>3, <1>4, <2>2 DEF SendInv, PartDone
<1>10. Progress'
  <2> SUFFICES ASSUME NEW u \in Threads, Sending(u)'
               PROVE  /\ \A k \in DOMAIN sent : sent[k][1] = id'[u] =>
                           /\ sent[k][2] \in 1..part'[u]
                           /\ sent[k][3] <= job'[u].parts[sent[k][2]]
                           /\ sent[k][2] = part'[u] => sent[k][3] <= done'[u]
                      /\ \A i \in 1..done'[u] : Has(sent, id'[u], part'[u], i)
                      /\ u \notin short' =>
                           \A p \in 1..(part'[u] - 1) : \A i \in 1..job'[u].parts[p] :
                              Has(sent, id'[u], p, i)
    BY <1>2 DEF Progress, Has
  <2>1. CASE u = t
    <3>1. \A k \in DOMAIN sent : sent[k][1] # id'[u]
      BY <1>3, <1>5, <1>6, <2>1
    <3>2. 1..done'[u] = {} /\ 1..(part'[u] - 1) = {}
      BY <1>3, <2>1
    <3> QED
      BY <3>1, <3>2
  <2>2. CASE u # t
    BY <1>4, <2>2 DEF SendInv, Progress
  <2> QED
    BY <2>1, <2>2
<1> QED
  BY <1>2, <1>7, <1>8, <1>9, <1>10, FinishedKept DEF SendInv

(* A call that goes on without putting anything in.                        *)
LEMMA MoveKeeps ==
  ASSUME TypeOK, SendInv, NEW t \in Threads, Sending(t), NEW to \in SendingPCs \ {"alloc", "connect"},
         pc' = [pc EXCEPT ![t] = to], UNCHANGED <<sent, calls, finished, job, id, part, done>>,
         short' = short \/ short' = short \cup {t},
         to = "failed" => done[t] = 0, to = "sent" => t \in short'
  PROVE  SendInv'
<1>1. pc'[t] = to /\ Sending(t)' /\ (t \notin short' => t \notin short)
  BY DEF TypeOK, Sending
<1>2. \A u \in Threads \ {t} : pc'[u] = pc[u] /\ (Sending(u)' <=> Sending(u))
                              /\ (u \in short' <=> u \in short)
  BY DEF TypeOK, Sending
<1>3. CallsNumbered' /\ ApiKnown'
  BY <1>1, <1>2 DEF SendInv, CallsNumbered, ApiKnown
<1>4. PartDone'
  BY <1>1, <1>2 DEF SendInv, PartDone
<1>5. Progress'
  BY <1>1, <1>2 DEF SendInv, Progress, Has
<1> QED
  BY <1>3, <1>4, <1>5, FinishedKept DEF SendInv

(* A call of several parts goes on to the next.                            *)
LEMMA NextKeeps ==
  ASSUME TypeOK, SendInv, NEW t \in Threads, TransmitNext(t) PROVE SendInv'
<1>1. /\ pc' = [pc EXCEPT ![t] = "send"] /\ pc[t] = "sent" /\ part' = [part EXCEPT ![t] = @ + 1]
      /\ done' = [done EXCEPT ![t] = 0] /\ part[t] < Len(job[t].parts)
      /\ UNCHANGED <<sent, calls, finished, job, id, short>>
  BY DEF TransmitNext, Goto, stream, history
<1>2. Sending(t) /\ pc'[t] = "send" /\ part'[t] = part[t] + 1 /\ done'[t] = 0 /\ Sending(t)'
  BY <1>1 DEF TypeOK, Sending, SendingPCs
<1>3. \A u \in Threads \ {t} : pc'[u] = pc[u] /\ (Sending(u)' <=> Sending(u))
                              /\ part'[u] = part[u] /\ done'[u] = done[u]
  BY <1>1 DEF TypeOK, Sending
<1>4. /\ part[t] \in Nat \ {0} /\ part[t] + 1 \in 1..Len(job[t].parts)
      /\ \A p \in 1..Len(job[t].parts) : job[t].parts[p] \in Nat \ {0}
      /\ part[t] \in 1..Len(job[t].parts)
  BY <1>1, <1>2, PartLength, JobParts
<1>5. CallsNumbered' /\ ApiKnown'
  BY <1>1, <1>2, <1>3 DEF SendInv, CallsNumbered, ApiKnown
<1>6. PartDone'
  BY <1>1, <1>2, <1>3, <1>4 DEF SendInv, PartDone
<1>7. Progress'
  <2> SUFFICES ASSUME NEW u \in Threads, Sending(u)
               PROVE  /\ \A k \in DOMAIN sent : sent[k][1] = id[u] =>
                           /\ sent[k][2] \in 1..part'[u]
                           /\ sent[k][3] <= job[u].parts[sent[k][2]]
                           /\ sent[k][2] = part'[u] => sent[k][3] <= done'[u]
                      /\ \A i \in 1..done'[u] : Has(sent, id[u], part'[u], i)
                      /\ u \notin short =>
                           \A p \in 1..(part'[u] - 1) : \A i \in 1..job[u].parts[p] : Has(sent, id[u], p, i)
    BY <1>1, <1>2, <1>3 DEF Progress, Has
  <2>1. CASE u = t
    <3>1. \A k \in DOMAIN sent : sent[k][1] = id[t] =>
             sent[k][2] \in 1..part[t] /\ sent[k][3] <= job[t].parts[sent[k][2]]
      BY <1>2 DEF SendInv, Progress
    <3>2. 1..done'[t] = {}
      BY <1>2
    <3>3. ASSUME t \notin short, NEW p \in 1..part[t], NEW i \in 1..job[t].parts[p]
          PROVE  Has(sent, id[t], p, i)
      <4>1. CASE p = part[t]
        <5>1. done[t] = job[t].parts[part[t]]
          BY <1>1, <1>2, <3>3 DEF SendInv, PartDone
        <5> QED
          BY <1>2, <3>3, <4>1, <5>1 DEF SendInv, Progress
      <4>2. CASE p # part[t]
        <5>1. p \in 1..(part[t] - 1)
          BY <1>4, <4>2
        <5> QED
          BY <1>2, <3>3, <5>1 DEF SendInv, Progress
      <4> QED
        BY <4>1, <4>2
    <3>4. part'[t] - 1 = part[t]
      BY <1>2, <1>4
    <3> QED
      BY <1>2, <1>4, <2>1, <3>1, <3>2, <3>3, <3>4
  <2>2. CASE u # t
    BY <1>3, <2>2 DEF SendInv, Progress
  <2> QED
    BY <2>1, <2>2
<1> QED
  BY <1>1, <1>5, <1>6, <1>7, FinishedKept DEF SendInv

(* A system call puts the next bytes of its part behind all others.        *)
LEMMA SysSendKeeps ==
  ASSUME TypeOK, SendInv, NEW t \in Threads, SysSend(t) \/ SysSendEnds(t) PROVE SendInv'
<1>2. CallsNumbered /\ PartDone
  BY DEF SendInv
<1>0. PICK n \in Nat : Entered(t, n)
  BY <1>2, SendEffect
<1>1. /\ pc[t] = "send" /\ Sending(t) /\ UNCHANGED <<calls, finished, job, id, part>>
  BY <1>0, <1>2, SendEffect DEF Entered
<1>3. /\ n <= Room /\ n <= Remaining(t)
      /\ sent' \in Seq(Bytes) /\ Len(sent') = Len(sent) + n
      /\ \A k \in 1..Len(sent) : sent'[k] = sent[k]
      /\ \A i \in 1..n : sent'[Len(sent) + i] = <<id[t], part[t], done[t] + i>>
      /\ done' = [done EXCEPT ![t] = @ + n]
      /\ \/ pc' = [pc EXCEPT ![t] = "sent"] /\ (n = Remaining(t) \/ t \in short')
         \/ pc' = pc
      /\ short' = short \/ short' = short \cup {t}
  BY <1>0 DEF Entered
<1>4. /\ part[t] \in Nat \ {0} /\ job[t].parts[part[t]] \in Nat \ {0} /\ done[t] \in Nat
      /\ id[t] \in 1..calls /\ done[t] <= job[t].parts[part[t]] /\ calls \in 0..MaxCalls
  BY <1>1, PartLength DEF SendInv, CallsNumbered, PartDone, TypeOK
<1>5. /\ Len(sent) \in Nat /\ DOMAIN sent = 1..Len(sent) /\ DOMAIN sent' = 1..(Len(sent) + n)
  BY <1>3, StreamBytes, LenProperties
<1>6. ASSUME NEW k \in DOMAIN sent'
      PROVE  \/ k \in DOMAIN sent /\ sent'[k] = sent[k]
             \/ /\ k > Len(sent) /\ k - Len(sent) \in 1..n
                /\ sent'[k] = <<id[t], part[t], done[t] + (k - Len(sent))>>
  <2>1. CASE k <= Len(sent)
    BY <1>3, <1>5, <2>1
  <2>2. CASE k > Len(sent)
    <3>1. k - Len(sent) \in 1..n /\ k = Len(sent) + (k - Len(sent))
      BY <1>5, <2>2
    <3> QED
      BY <1>3, <2>2, <3>1
  <2> QED
    BY <1>5, <2>1, <2>2
<1>7. /\ done'[t] = done[t] + n /\ done'[t] <= job[t].parts[part[t]] /\ Sending(t)'
      /\ pc'[t] \in {"send", "sent"} /\ (t \notin short' => t \notin short)
      /\ pc'[t] = "sent" /\ t \notin short' => done'[t] = job[t].parts[part[t]]
  <2> DEFINE len == job[t].parts[part[t]]
  <2>1. Remaining(t) = len - done[t]
    BY DEF Remaining
  <2>2. done'[t] = done[t] + n
    BY <1>3 DEF TypeOK
  <2>3. len \in Nat /\ done[t] \in Nat /\ n \in Nat /\ n <= len - done[t]
    BY <1>3, <1>4, <2>1
  <2>4. pc'[t] \in {"send", "sent"} /\ (t \notin short' => t \notin short)
    BY <1>1, <1>3 DEF TypeOK
  <2>5. ASSUME pc'[t] = "sent", t \notin short' PROVE n = len - done[t]
    <3>1. n = Remaining(t)
      BY <1>1, <1>3, <2>5
    <3> HIDE DEF len
    <3> QED
      BY <2>1, <2>3, <3>1
  <2>6. Sending(t)'
    BY <2>4 DEF Sending, SendingPCs
  <2> HIDE DEF len
  <2>7. done[t] + n <= len /\ (n = len - done[t] => done[t] + n = len)
    BY ONLY <2>3
  <2>8. done'[t] <= len /\ (pc'[t] = "sent" /\ t \notin short' => done'[t] = len)
    BY <2>2, <2>5, <2>7
  <2> QED
    BY <2>2, <2>4, <2>6, <2>8 DEF len
<1>8. \A u \in Threads \ {t} : pc'[u] = pc[u] /\ done'[u] = done[u] /\ (u \in short' <=> u \in short)
                              /\ (Sending(u)' <=> Sending(u))
  <2>1. \A u \in Threads \ {t} : pc'[u] = pc[u]
    <3>1. pc' = [pc EXCEPT ![t] = "sent"] \/ pc' = pc
      BY <1>3
    <3> QED
      BY <3>1 DEF TypeOK
  <2>2. \A u \in Threads \ {t} : done'[u] = done[u] /\ (u \in short' <=> u \in short)
    BY <1>3 DEF TypeOK
  <2> QED
    BY <2>1, <2>2 DEF Sending
<1>9. ASSUME NEW c, c # id[t]
      PROVE  /\ InStream(c)' = InStream(c) /\ \A p, i : Has(sent, c, p, i) => Has(sent', c, p, i)
             /\ \A k \in DOMAIN sent' : sent'[k][1] = c => k \in DOMAIN sent /\ sent'[k] = sent[k]
  <2>1. \A k \in DOMAIN sent' : sent'[k][1] = c => k \in DOMAIN sent /\ sent'[k] = sent[k]
    BY <1>6, <1>9
  <2>2. \A k \in DOMAIN sent : k \in DOMAIN sent' /\ sent'[k] = sent[k]
    BY <1>3, <1>5
  <2>3. InStream(c)' = InStream(c)
    BY <2>1, <2>2 DEF InStream
  <2> QED
    BY <2>1, <2>2, <2>3 DEF Has
<1>10. CallsNumbered'
  <2>1. \A k \in DOMAIN sent' : sent'[k][1] <= calls'
    <3>1. ASSUME NEW k \in DOMAIN sent' PROVE sent'[k][1] <= calls
      <4>1. CASE k \in DOMAIN sent /\ sent'[k] = sent[k]
        BY <1>2, <4>1 DEF CallsNumbered
      <4>2. CASE sent'[k] = <<id[t], part[t], done[t] + (k - Len(sent))>>
        BY <1>4, <4>2
      <4> QED
        BY <1>6, <4>1, <4>2
    <3> QED
      BY <1>1, <3>1
  <2>2. \A u \in Threads : Sending(u)' => Sending(u)
    BY <1>1, <1>8
  <2> QED
    BY <1>1, <1>2, <2>1, <2>2 DEF CallsNumbered
<1>11. ApiKnown'
  BY <1>1, <1>7, <1>8 DEF SendInv, ApiKnown
<1>12. PartDone'
  BY <1>1, <1>7, <1>8 DEF SendInv, PartDone
<1>13. Ordered'
  <2> SUFFICES ASSUME NEW c \in 1..MaxCalls, NEW k \in DOMAIN sent', NEW m \in DOMAIN sent',
                      k < m, sent'[k][1] = c, sent'[m][1] = c
               PROVE  Before(sent'[k], sent'[m])
    BY DEF Ordered, InOrder, Before
  <2>1. CASE m \in DOMAIN sent /\ sent'[m] = sent[m]
    <3>1. k \in DOMAIN sent /\ sent'[k] = sent[k]
      BY <1>3, <1>5, <2>1
    <3> QED
      BY <2>1, <3>1 DEF SendInv, Ordered, InOrder
  <2>2. CASE /\ m > Len(sent) /\ m - Len(sent) \in 1..n
             /\ sent'[m] = <<id[t], part[t], done[t] + (m - Len(sent))>>
    <3>1. CASE k \in DOMAIN sent /\ sent'[k] = sent[k]
      <4>1. /\ sent[k][2] \in 1..part[t] /\ (sent[k][2] = part[t] => sent[k][3] <= done[t])
            /\ sent[k][3] \in Nat
        BY <1>1, <2>2, <3>1, StreamBytes DEF SendInv, Progress
      <4>2. done[t] < done[t] + (m - Len(sent))
        BY <1>4, <2>2
      <4> QED
        BY <1>4, <2>2, <3>1, <4>1, <4>2 DEF Before
    <3>2. CASE /\ k > Len(sent) /\ sent'[k] = <<id[t], part[t], done[t] + (k - Len(sent))>>
      <4>1. k \in Nat /\ m \in Nat /\ k < m /\ Len(sent) \in Nat /\ done[t] \in Nat
        BY <1>4, <1>5
      <4>2. done[t] + (k - Len(sent)) < done[t] + (m - Len(sent))
        BY ONLY <4>1
      <4> QED
        BY <2>2, <3>2, <4>2 DEF Before
    <3> QED
      BY <1>6, <3>1, <3>2
  <2> QED
    BY <1>6, <2>1, <2>2
<1>14. ReportedIsSent' /\ WholeUnlessShort'
  <2>1. ASSUME NEW c \in finished
        PROVE  InStream(c.id)' = InStream(c.id) /\ (InOrder(c.id)' <=> InOrder(c.id))
    <3>1. c.id # id[t] /\ c.id \in 1..MaxCalls
      BY <1>1, <1>2 DEF CallsNumbered, TypeOK
    <3>2. InOrder(c.id) /\ InOrder(c.id)'
      BY <1>13, <3>1 DEF SendInv, Ordered
    <3> QED
      BY <1>9, <3>1, <3>2
  <2> QED
    BY <1>1, <2>1 DEF SendInv, ReportedIsSent, WholeUnlessShort
<1>15. Progress'
  <2> SUFFICES ASSUME NEW u \in Threads, Sending(u)
               PROVE  /\ \A k \in DOMAIN sent' : sent'[k][1] = id[u] =>
                           /\ sent'[k][2] \in 1..part[u]
                           /\ sent'[k][3] <= job[u].parts[sent'[k][2]]
                           /\ sent'[k][2] = part[u] => sent'[k][3] <= done'[u]
                      /\ \A i \in 1..done'[u] : Has(sent', id[u], part[u], i)
                      /\ u \notin short' =>
                           \A p \in 1..(part[u] - 1) : \A i \in 1..job[u].parts[p] : Has(sent', id[u], p, i)
    BY <1>1, <1>8 DEF Progress, Has
  <2>1. CASE u # t
    <3>1. id[u] # id[t]
      BY <1>1, <1>2, <2>1 DEF CallsNumbered
    <3>2. done'[u] = done[u] /\ (u \in short' <=> u \in short)
      BY <1>8, <2>1
    <3>3. /\ \A k \in DOMAIN sent : sent[k][1] = id[u] =>
               /\ sent[k][2] \in 1..part[u]
               /\ sent[k][3] <= job[u].parts[sent[k][2]]
               /\ sent[k][2] = part[u] => sent[k][3] <= done[u]
          /\ \A i \in 1..done[u] : Has(sent, id[u], part[u], i)
          /\ u \notin short =>
               \A p \in 1..(part[u] - 1) : \A i \in 1..job[u].parts[p] : Has(sent, id[u], p, i)
      BY DEF SendInv, Progress
    <3>4. /\ \A p, i : Has(sent, id[u], p, i) => Has(sent', id[u], p, i)
          /\ \A k \in DOMAIN sent' : sent'[k][1] = id[u] => k \in DOMAIN sent /\ sent'[k] = sent[k]
      BY <1>9, <3>1
    <3> QED
      BY <3>2, <3>3, <3>4
  <2>2. CASE u = t
    <3>1. \A p, i : Has(sent, id[t], p, i) => Has(sent', id[t], p, i)
      BY <1>3, <1>5 DEF Has
    <3>2. ASSUME NEW k \in DOMAIN sent', sent'[k][1] = id[t]
          PROVE  /\ sent'[k][2] \in 1..part[t]
                 /\ sent'[k][3] <= job[t].parts[sent'[k][2]]
                 /\ sent'[k][2] = part[t] => sent'[k][3] <= done'[t]
      <4>1. CASE k \in DOMAIN sent /\ sent'[k] = sent[k]
        <5>1. /\ sent[k][2] \in 1..part[t] /\ sent[k][3] <= job[t].parts[sent[k][2]]
              /\ sent[k][2] = part[t] => sent[k][3] <= done[t]
          BY <1>1, <3>2, <4>1 DEF SendInv, Progress
        <5>2. sent[k][3] \in Nat
          BY <4>1, StreamBytes
        <5> QED
          BY <1>3, <1>4, <1>7, <4>1, <5>1, <5>2
      <4>2. CASE /\ k > Len(sent) /\ k - Len(sent) \in 1..n
                 /\ sent'[k] = <<id[t], part[t], done[t] + (k - Len(sent))>>
        <5>1. sent'[k][2] = part[t] /\ sent'[k][3] = done[t] + (k - Len(sent))
          BY <4>2
        <5>2. done[t] + (k - Len(sent)) <= done'[t]
          BY SMTT(20), <1>3, <1>4, <1>7, <4>2
        <5>3. done[t] + (k - Len(sent)) <= job[t].parts[part[t]]
          <6>1. k - Len(sent) \in 1..n /\ n \in Nat /\ done[t] \in Nat
                /\ done[t] + n <= job[t].parts[part[t]] /\ job[t].parts[part[t]] \in Nat
            BY <1>3, <1>4, <1>7, <4>2
          <6> QED
            BY ONLY <6>1
        <5> QED
          BY <1>4, <5>1, <5>2, <5>3
      <4> QED
        BY <1>6, <4>1, <4>2
    <3>3. ASSUME NEW i \in 1..done'[t] PROVE Has(sent', id[t], part[t], i)
      <4>1. CASE i <= done[t]
        BY <1>1, <1>4, <3>1, <4>1 DEF SendInv, Progress
      <4>2. CASE i > done[t]
        <5>1. i - done[t] \in 1..n /\ done[t] + (i - done[t]) = i
              /\ Len(sent) + (i - done[t]) \in 1..(Len(sent) + n)
          <6>1. i \in 1..(done[t] + n)
            BY <1>7
          <6>2. n \in Nat /\ done[t] \in Nat /\ Len(sent) \in Nat
            BY <1>3, <1>4, <1>5
          <6> QED
            BY ONLY <4>2, <6>1, <6>2
        <5>2. sent'[Len(sent) + (i - done[t])] = <<id[t], part[t], i>>
          BY <1>3, <5>1
        <5> QED
          BY <1>5, <5>1, <5>2 DEF Has
      <4> QED
        BY <1>4, <4>1, <4>2
    <3>4. t \notin short' =>
             \A p \in 1..(part[t] - 1) : \A i \in 1..job[t].parts[p] : Has(sent', id[t], p, i)
      BY <1>1, <1>7, <3>1 DEF SendInv, Progress
    <3> QED
      BY <2>2, <3>2, <3>3, <3>4
  <2> QED
    BY <2>1, <2>2
<1> QED
  BY <1>10, <1>11, <1>12, <1>13, <1>14, <1>15 DEF SendInv

(* What a call has put in when it comes to its end: of one part, as much   *)
(* as it has counted; of several, all, unless a part came up short.        *)
LEMMA EndHolds ==
  ASSUME TypeOK, SendInv, NEW t \in Threads, Sending(t)
  PROVE  /\ job[t].api \notin MultiPart => InStream(id[t]) = {1} \X (1..done[t])
         /\ pc[t] = "sent" /\ t \notin short /\ part[t] = Len(job[t].parts) =>
              InStream(id[t]) = UNION {{p} \X (1..job[t].parts[p]) : p \in DOMAIN job[t].parts}
<1>1. /\ \A k \in DOMAIN sent : sent[k][1] = id[t] =>
            /\ sent[k][2] \in 1..part[t] /\ sent[k][3] <= job[t].parts[sent[k][2]]
            /\ sent[k][2] = part[t] => sent[k][3] <= done[t]
      /\ \A i \in 1..done[t] : Has(sent, id[t], part[t], i)
      /\ t \notin short =>
           \A p \in 1..(part[t] - 1) : \A i \in 1..job[t].parts[p] : Has(sent, id[t], p, i)
  BY DEF SendInv, Progress
<1>2. /\ job[t] \in Jobs /\ part[t] \in 1..Len(job[t].parts) /\ part[t] \in Nat \ {0} /\ done[t] \in Nat
      /\ job[t].api \notin MultiPart => part[t] = 1
  BY PartLength
<1>3. ASSUME NEW b \in InStream(id[t])
      PROVE  /\ b = <<b[1], b[2]>> /\ b[1] \in 1..part[t] /\ b[2] \in Nat \ {0}
             /\ b[2] <= job[t].parts[b[1]] /\ (b[1] = part[t] => b[2] <= done[t])
  <2>1. PICK k \in DOMAIN sent : sent[k][1] = id[t] /\ b = <<sent[k][2], sent[k][3]>>
    BY DEF InStream
  <2>2. b[1] = sent[k][2] /\ b[2] = sent[k][3] /\ b = <<b[1], b[2]>>
    BY <2>1
  <2> QED
    BY <1>1, <2>1, <2>2, StreamBytes
<1>4. ASSUME job[t].api \notin MultiPart PROVE InStream(id[t]) = {1} \X (1..done[t])
  <2>1. part[t] = 1
    BY <1>2, <1>4
  <2>2. ASSUME NEW b \in InStream(id[t]) PROVE b \in {1} \X (1..done[t])
    <3>1. b = <<b[1], b[2]>> /\ b[1] = 1 /\ b[2] \in 1..done[t]
      BY <1>2, <1>3, <2>1
    <3> QED
      BY <3>1
  <2>3. ASSUME NEW i \in 1..done[t] PROVE <<1, i>> \in InStream(id[t])
    BY <1>1, <2>1, InStreamHas
  <2> QED
    BY <2>2, <2>3
<1>5. ASSUME pc[t] = "sent", t \notin short, part[t] = Len(job[t].parts)
      PROVE  InStream(id[t]) = UNION {{p} \X (1..job[t].parts[p]) : p \in DOMAIN job[t].parts}
  <2>1. /\ DOMAIN job[t].parts = 1..part[t] /\ done[t] = job[t].parts[part[t]]
        /\ \A p \in 1..part[t] : job[t].parts[p] \in Nat \ {0}
    BY <1>2, <1>5, JobParts DEF SendInv, PartDone
  <2>2. ASSUME NEW b \in InStream(id[t])
        PROVE  b \in UNION {{p} \X (1..job[t].parts[p]) : p \in DOMAIN job[t].parts}
    <3>1. b = <<b[1], b[2]>> /\ b[1] \in DOMAIN job[t].parts /\ b[2] \in 1..job[t].parts[b[1]]
      BY <1>3, <2>1
    <3>2. b \in {b[1]} \X (1..job[t].parts[b[1]])
      BY <3>1
    <3> QED
      BY <3>1, <3>2
  <2>3. ASSUME NEW p \in DOMAIN job[t].parts, NEW i \in 1..job[t].parts[p]
        PROVE  <<p, i>> \in InStream(id[t])
    <3>1. CASE p = part[t]
      BY <1>1, <2>1, <3>1, InStreamHas
    <3>2. CASE p # part[t]
      <4>1. p \in 1..(part[t] - 1)
        BY <1>2, <2>1, <3>2
      <4> QED
        BY <1>1, <1>5, <4>1, InStreamHas
    <3> QED
      BY <3>1, <3>2
  <2>4. ASSUME NEW b \in UNION {{p} \X (1..job[t].parts[p]) : p \in DOMAIN job[t].parts}
        PROVE  b \in InStream(id[t])
    <3>1. PICK p \in DOMAIN job[t].parts : b \in {p} \X (1..job[t].parts[p])
      OBVIOUS
    <3>2. PICK i \in 1..job[t].parts[p] : b = <<p, i>>
      BY <3>1
    <3> QED
      BY <2>3, <3>2
  <2> QED
    BY <2>2, <2>4
<1> QED
  BY <1>4, <1>5

(* A call that ends leaves its bytes, and what it reports of them, behind. *)
LEMMA EndKeeps ==
  ASSUME TypeOK, SendInv, NEW t \in Threads, Sending(t), pc' = [pc EXCEPT ![t] = "idle"],
         NEW c, finished' = finished \cup {c}, c.id = id[t], c.job = job[t],
         job[t].api \notin MultiPart => c.bytes = done[t],
         job[t].api \in MultiPart /\ c.ok /\ ~c.short =>
           pc[t] = "sent" /\ t \notin short /\ part[t] = Len(job[t].parts),
         UNCHANGED <<sent, calls, sending>>
  PROVE  SendInv'
<1>1. UNCHANGED <<job, id, part, done, short>>
  BY DEF sending
<1>2. pc'[t] = "idle" /\ ~Sending(t)' /\ \A u \in Threads \ {t} : pc'[u] = pc[u]
  BY DEF TypeOK, Sending, SendingPCs
<1>3. \A u \in Threads : Sending(u)' => u # t /\ Sending(u) /\ pc'[u] = pc[u]
  BY <1>2 DEF Sending
<1>4. CallsNumbered'
  BY <1>1, <1>3 DEF SendInv, CallsNumbered
<1>5. ApiKnown'
  BY <1>1, <1>2 DEF SendInv, ApiKnown
<1>6. PartDone'
  BY <1>1, <1>3 DEF SendInv, PartDone
<1>7. Progress'
  BY <1>1, <1>3 DEF SendInv, Progress
<1>8. Ordered' /\ \A n : InStream(n)' = InStream(n) /\ (InOrder(n)' <=> InOrder(n))
  BY DEF SendInv, Ordered, InOrder, Before, InStream
<1>9. InOrder(id[t])
  <2>1. id[t] \in 1..MaxCalls
    BY BoundsAssumption DEF SendInv, CallsNumbered, TypeOK
  <2> QED
    BY <2>1 DEF SendInv, Ordered
<1>10. ReportedIsSent'
  BY <1>1, <1>8, <1>9, EndHolds DEF SendInv, ReportedIsSent
<1>11. WholeUnlessShort'
  BY <1>1, <1>8, <1>9, EndHolds DEF SendInv, WholeUnlessShort
<1> QED
  BY <1>4, <1>5, <1>6, <1>7, <1>8, <1>10, <1>11 DEF SendInv

(* The functions are told apart by what they do with the parts.            *)
LEMMA ApisDisjoint == Gathering \cap MultiPart = {} /\ "ConnectEx" \notin MultiPart \cup Gathering
BY DEF Gathering, MultiPart

(* A call that returns an error, or all that it has put in.                *)
LEMMA ReturnKeeps ==
  ASSUME TypeOK, SendInv, NEW t \in Threads, NEW pcs \in SendingPCs, NEW ok, NEW n,
         Return(t, pcs, ok, n), job[t].api \notin MultiPart => n = done[t],
         job[t].api \in MultiPart /\ ok => pcs = "sent" /\ part[t] = Len(job[t].parts)
  PROVE  SendInv'
<1> DEFINE c == [id |-> id[t], job |-> job[t], ok |-> ok, bytes |-> n, short |-> t \in short]
<1>1. /\ pc' = [pc EXCEPT ![t] = "idle"] /\ pc[t] = pcs /\ Sending(t)
      /\ finished' = finished \cup {c} /\ UNCHANGED <<sent, calls, sending>>
  BY DEF Return, Goto, stream, Sending
<1>2. c.id = id[t] /\ c.job = job[t] /\ c.bytes = n /\ c.ok = ok
  OBVIOUS
<1>3. ~c.short => t \notin short
  <2>1. c.short = (t \in short)
    BY Zenon
  <2> QED
    BY <2>1
<1> HIDE DEF c
<1> QED
  BY <1>1, <1>2, <1>3, EndKeeps

(* Every step keeps what is known of the stream.                           *)
LEMMA SendStep ==
  ASSUME TypeOK, IovsOwned, SendInv, [Next]_vars PROVE SendInv'
<1>1. CASE UNCHANGED vars \/ SetNonblocking \/ PeerResets \/ ConnectCompletes
  <2>1. UNCHANGED <<sent, calls, finished, sending, pc>>
    BY <1>1 DEF vars, stream, history, SetNonblocking, PeerResets, ConnectCompletes
  <2> QED
    BY <2>1, OtherKeeps
<1>2. ASSUME NEW t \in Threads, Gather(t) \/ Transmit(t) \/ ConnectEx(t) PROVE SendInv'
  BY <1>2, BeginKeeps DEF Gather, Transmit, ConnectEx
<1>3. ASSUME NEW t \in Threads, NEW pcs \in SendingPCs, NEW to \in {"send", "sent", "failed"},
             Goto(t, pcs, to), UNCHANGED <<sent, calls, finished, job, id, part, done>>,
             short' = short \/ short' = short \cup {t},
             to = "failed" => done[t] = 0, to = "sent" => t \in short'
      PROVE  SendInv'
  BY <1>3, MoveKeeps DEF Goto, Sending, SendingPCs
<1>4. ASSUME NEW t \in Threads, GatherAlloc(t) \/ Connect(t) PROVE SendInv'
  <2>1. UNCHANGED <<sent, calls, finished, job, id, part, done, short>>
    BY <1>4 DEF GatherAlloc, Connect, stream, history, sending
  <2>2. Goto(t, "alloc", "send") \/ Goto(t, "connect", "send")
    BY <1>4 DEF GatherAlloc, Connect
  <2> QED
    BY <1>3, <2>1, <2>2 DEF SendingPCs
<1>5. ASSUME NEW t \in Threads, SysSendCut(t) PROVE SendInv'
  BY <1>3, <1>5 DEF SysSendCut, stream, history, SendingPCs
<1>6. ASSUME NEW t \in Threads, SysSendFails(t) PROVE SendInv'
  BY <1>3, <1>6 DEF SysSendFails, stream, history, sending, SendingPCs
<1>7. ASSUME NEW t \in Threads, GatherAllocFails(t) PROVE SendInv'
  <2>1. Return(t, "alloc", FALSE, 0) /\ pc[t] = "alloc"
    BY <1>7 DEF GatherAllocFails, Return, Goto
  <2>2. done[t] = 0
    BY <2>1 DEF SendInv, PartDone, Sending, SendingPCs
  <2> QED
    BY <2>1, <2>2, ReturnKeeps DEF SendingPCs
<1>8. ASSUME NEW t \in Threads, GatherReturn(t) PROVE SendInv'
  <2>1. Return(t, "sent", TRUE, done[t]) /\ pc[t] = "sent" /\ t \in iovs
    BY <1>8 DEF GatherReturn, Return, Goto
  <2>2. job[t].api \notin MultiPart
    BY <2>1, ApisDisjoint DEF IovsOwned
  <2> QED
    BY <2>1, <2>2, ReturnKeeps DEF SendingPCs
<1>9. ASSUME NEW t \in Threads, GatherFails(t) \/ TransmitFails(t) PROVE SendInv'
  <2>1. Return(t, "failed", FALSE, 0) /\ pc[t] = "failed"
    BY <1>9 DEF GatherFails, TransmitFails, Return, Goto
  <2>2. done[t] = 0
    BY <2>1 DEF SendInv, PartDone, Sending, SendingPCs
  <2> QED
    BY <2>1, <2>2, ReturnKeeps DEF SendingPCs
<1>10. ASSUME NEW t \in Threads, TransmitReturn(t) PROVE SendInv'
  BY <1>10, ReturnKeeps DEF TransmitReturn, SendingPCs
<1>11. ASSUME NEW t \in Threads, ConnectExReturn(t) PROVE SendInv'
  <2>1. job[t].api \notin MultiPart
    BY <1>11, ApisDisjoint DEF ConnectExReturn
  <2>2. CASE Return(t, "sent", TRUE, done[t])
    BY <2>1, <2>2, ReturnKeeps DEF SendingPCs
  <2>3. CASE Return(t, "failed", FALSE, 0)
    <3>1. done[t] = 0
      BY <2>3 DEF Return, Goto, SendInv, PartDone, Sending, SendingPCs
    <3> QED
      BY <2>1, <2>3, <3>1, ReturnKeeps DEF SendingPCs
  <2> QED
    BY <1>11, <2>2, <2>3 DEF ConnectExReturn
<1>12. ASSUME NEW t \in Threads, ConnectFails(t) PROVE SendInv'
  <2> DEFINE c == [id |-> id[t], job |-> job[t], ok |-> FALSE, bytes |-> 0, short |-> FALSE]
  <2>1. /\ pc' = [pc EXCEPT ![t] = "idle"] /\ pc[t] = "connect" /\ finished' = finished \cup {c}
        /\ UNCHANGED <<sent, calls, sending>> /\ Sending(t)
    BY <1>12 DEF ConnectFails, Goto, Sending, SendingPCs
  <2>2. c.id = id[t] /\ c.job = job[t] /\ c.bytes = 0 /\ c.ok = FALSE
    OBVIOUS
  <2> HIDE DEF c
  <2>3. done[t] = 0
    BY <2>1 DEF SendInv, PartDone, Sending, SendingPCs
  <2> QED
    BY <2>1, <2>2, <2>3, EndKeeps
<1>13. ASSUME NEW t \in Threads, TransmitNext(t) PROVE SendInv'
  BY <1>13, NextKeeps
<1>14. ASSUME NEW t \in Threads, SysSend(t) \/ SysSendEnds(t) PROVE SendInv'
  BY <1>14, SysSendKeeps
<1>15. ASSUME NEW t \in Threads,
              \/ Scatter(t) \/ ScatterAlloc(t) \/ ScatterAllocFails(t)
              \/ SysRecv(t) \/ SysRecvCut(t) \/ SysRecvFails(t) \/ ScatterReturn(t)
       PROVE  SendInv'
  <2>1. UNCHANGED <<sent, calls, finished, sending>>
    BY <1>15 DEF Scatter, ScatterAlloc, ScatterAllocFails, SysRecv, SysRecvCut, SysRecvFails,
                 ScatterReturn, stream, history
  <2>2. pc' = pc \/ \E pcs, to \in {"idle"} \cup ReceivingPCs : Goto(t, pcs, to)
    BY <1>15 DEF Scatter, ScatterAlloc, ScatterAllocFails, SysRecv, SysRecvCut, SysRecvFails,
                 ScatterReturn, ReceivingPCs, Goto
  <2>3. \A u \in Threads : pc'[u] = pc[u] \/ (pc[u] \notin SendingPCs /\ pc'[u] \notin SendingPCs)
    BY <2>2 DEF Goto, ReceivingPCs, SendingPCs, TypeOK
  <2> QED
    BY <2>1, <2>3, OtherKeeps
<1> QED
  BY <1>1, <1>2, <1>4, <1>5, <1>6, <1>7, <1>8, <1>9, <1>10, <1>11, <1>12, <1>13, <1>14, <1>15 DEF Next

(***************************************************************************)
(* The iovec arrays                                                        *)
(***************************************************************************)
HasIovs(t) ==
  \/ pc[t] \in {"recv", "recv_done"}
  \/ pc[t] \in {"send", "sent", "failed"} /\ job[t].api \in Gathering

(* A step of one thread allocates or frees the array of that thread.       *)
LEMMA IovsOne ==
  ASSUME TypeOK, IovsOwned, NEW t \in Threads,
         \A u \in Threads \ {t} : pc'[u] = pc[u] /\ job'[u] = job[u] /\ (u \in iovs' <=> u \in iovs),
         iovs' \subseteq Threads, t \in iovs' <=> HasIovs(t)'
  PROVE  IovsOwned'
<1>1. \A u \in Threads : u \in iovs <=> HasIovs(u)
  BY DEF IovsOwned, HasIovs
<1>2. \A u \in Threads : u \in iovs' <=> HasIovs(u)'
  BY <1>1 DEF HasIovs
<1> QED
  BY <1>2 DEF IovsOwned, HasIovs

(* Every step leaves the arrays with the calls that free them.             *)
LEMMA IovsStep ==
  ASSUME TypeOK, IovsOwned, ApiKnown, [Next]_vars PROVE IovsOwned'
<1>1. CASE UNCHANGED vars \/ SetNonblocking \/ PeerResets \/ ConnectCompletes
  BY <1>1 DEF vars, sending, SetNonblocking, PeerResets, ConnectCompletes, IovsOwned
<1>2. ASSUME NEW t \in Threads PROVE t \in iovs <=> HasIovs(t)
  BY <1>2 DEF IovsOwned, HasIovs
<1>3. iovs \subseteq Threads
  BY DEF TypeOK
<1>4. ASSUME NEW t \in Threads, NEW pcs, NEW to, Goto(t, pcs, to)
      PROVE  pc[t] = pcs /\ pc'[t] = to /\ \A u \in Threads \ {t} : pc'[u] = pc[u]
  BY <1>4 DEF Goto, TypeOK
<1>5. ASSUME NEW t \in Threads, NEW apis, NEW to, Send(t, apis, to),
             to \in {"alloc", "connect"} \/ (to = "send" /\ apis \cap Gathering = {})
      PROVE  IovsOwned'
  <2>1. PICK j \in Jobs : j.api \in apis /\ job' = [job EXCEPT ![t] = j]
    BY <1>5 DEF Send
  <2>2. job'[t] = j /\ \A u \in Threads \ {t} : job'[u] = job[u]
    BY <2>1 DEF TypeOK
  <2>3. Goto(t, "idle", to) /\ UNCHANGED iovs
    BY <1>5 DEF Send
  <2>4. pc[t] = "idle" /\ pc'[t] = to /\ \A u \in Threads \ {t} : pc'[u] = pc[u]
    BY <1>4, <2>3
  <2>5. t \notin iovs
    BY <1>2, <2>4 DEF HasIovs
  <2>6. ~HasIovs(t)'
    BY <1>5, <2>1, <2>2, <2>4 DEF HasIovs
  <2> QED
    BY <1>3, <2>2, <2>3, <2>4, <2>5, <2>6, IovsOne
<1>6. ASSUME NEW t \in Threads, Gather(t) \/ Transmit(t) \/ ConnectEx(t) PROVE IovsOwned'
  BY <1>5, <1>6, ApisDisjoint DEF Gather, Transmit, ConnectEx
<1>7. ASSUME NEW t \in Threads, NEW pcs, NEW to, Goto(t, pcs, to), UNCHANGED job,
             \/ /\ iovs' = iovs \cup {t}
                /\ to = "recv" \/ (to = "send" /\ job[t].api \in Gathering)
             \/ /\ iovs' = iovs \ {t}
                /\ to = "idle"
             \/ /\ iovs' = iovs
                /\ \/ {pcs, to} \subseteq {"send", "sent", "failed"}
                   \/ {pcs, to} \subseteq {"recv", "recv_done"}
                   \/ {pcs, to} \subseteq {"idle", "alloc", "connect", "recv_alloc"}
                   \/ /\ job[t].api \notin Gathering
                      /\ {pcs, to} \subseteq {"idle", "connect", "send", "sent", "failed"}
      PROVE  IovsOwned'
  <2>1. pc[t] = pcs /\ pc'[t] = to /\ \A u \in Threads \ {t} : pc'[u] = pc[u] /\ job'[u] = job[u]
    BY <1>4, <1>7
  <2>2. t \in iovs <=> HasIovs(t)
    BY <1>2
  <2>3. iovs' \subseteq Threads /\ \A u \in Threads \ {t} : u \in iovs' <=> u \in iovs
    BY <1>3, <1>7
  <2>4. t \in iovs' <=> HasIovs(t)'
    BY <1>7, <2>1, <2>2 DEF HasIovs
  <2> QED
    BY <2>1, <2>3, <2>4, IovsOne
<1>8. ASSUME NEW t \in Threads, GatherAlloc(t) PROVE IovsOwned'
  <2>1. Goto(t, "alloc", "send") /\ UNCHANGED job /\ iovs' = iovs \cup {t} /\ pc[t] = "alloc"
    BY <1>8 DEF GatherAlloc, Goto, sending
  <2> QED
    BY <1>7, <2>1 DEF ApiKnown
<1>9. ASSUME NEW t \in Threads, GatherAllocFails(t) PROVE IovsOwned'
  BY <1>7, <1>9 DEF GatherAllocFails, Return, sending
<1>10. ASSUME NEW t \in Threads, GatherReturn(t) \/ GatherFails(t) PROVE IovsOwned'
  BY <1>7, <1>10 DEF GatherReturn, GatherFails, Return, sending
<1>11. ASSUME NEW t \in Threads, SysSend(t) \/ SysSendEnds(t) PROVE IovsOwned'
  <2>1. UNCHANGED <<job, iovs>> /\ (Goto(t, "send", "sent") \/ UNCHANGED pc)
    BY <1>11 DEF SysSend, SysSendEnds, Put, Goto
  <2>2. CASE Goto(t, "send", "sent")
    BY <1>7, <2>1, <2>2
  <2>3. CASE UNCHANGED pc
    BY <2>1, <2>3 DEF IovsOwned
  <2> QED
    BY <2>1, <2>2, <2>3
<1>12. ASSUME NEW t \in Threads, SysSendCut(t) \/ SysSendFails(t) \/ TransmitNext(t) PROVE IovsOwned'
  BY <1>7, <1>12 DEF SysSendCut, SysSendFails, TransmitNext, sending
<1>13. ASSUME NEW t \in Threads, TransmitReturn(t) \/ TransmitFails(t) PROVE IovsOwned'
  <2>1. job[t].api \notin Gathering /\ UNCHANGED <<job, iovs>>
    BY <1>13, ApisDisjoint DEF TransmitReturn, TransmitFails, Return, sending
  <2>2. Goto(t, "sent", "idle") \/ Goto(t, "failed", "idle")
    BY <1>13 DEF TransmitReturn, TransmitFails, Return
  <2> QED
    BY <1>7, <2>1, <2>2
<1>14. ASSUME NEW t \in Threads, Connect(t) PROVE IovsOwned'
  <2>1. Goto(t, "connect", "send") /\ UNCHANGED <<job, iovs>> /\ pc[t] = "connect"
    BY <1>14 DEF Connect, Goto, sending
  <2>2. job[t].api \notin Gathering
    BY <2>1, ApisDisjoint DEF ApiKnown
  <2> QED
    BY <1>7, <2>1, <2>2
<1>15. ASSUME NEW t \in Threads, ConnectFails(t) PROVE IovsOwned'
  BY <1>7, <1>15 DEF ConnectFails, sending
<1>16. ASSUME NEW t \in Threads, ConnectExReturn(t) PROVE IovsOwned'
  <2>1. job[t].api \notin Gathering /\ UNCHANGED <<job, iovs>>
    BY <1>16, ApisDisjoint DEF ConnectExReturn, Return, sending
  <2>2. Goto(t, "sent", "idle") \/ Goto(t, "failed", "idle")
    BY <1>16 DEF ConnectExReturn, Return
  <2> QED
    BY <1>7, <2>1, <2>2
<1>17. ASSUME NEW t \in Threads, Scatter(t) \/ ScatterAllocFails(t) PROVE IovsOwned'
  BY <1>7, <1>17 DEF Scatter, ScatterAllocFails, sending
<1>18. ASSUME NEW t \in Threads, ScatterAlloc(t) PROVE IovsOwned'
  BY <1>7, <1>18 DEF ScatterAlloc, sending
<1>19. ASSUME NEW t \in Threads, SysRecvCut(t) \/ SysRecvFails(t) PROVE IovsOwned'
  BY <1>7, <1>19 DEF SysRecvCut, SysRecvFails, sending
<1>20. ASSUME NEW t \in Threads, ScatterReturn(t) PROVE IovsOwned'
  BY <1>7, <1>20 DEF ScatterReturn, sending
<1>21. ASSUME NEW t \in Threads, SysRecv(t) PROVE IovsOwned'
  <2>1. UNCHANGED <<job, iovs>> /\ (Goto(t, "recv", "recv_done") \/ UNCHANGED pc)
    BY <1>21 DEF SysRecv, Goto, sending
  <2>2. CASE Goto(t, "recv", "recv_done")
    BY <1>7, <2>1, <2>2
  <2>3. CASE UNCHANGED pc
    BY <2>1, <2>3 DEF IovsOwned
  <2> QED
    BY <2>1, <2>2, <2>3
<1> QED
  BY <1>1, <1>6, <1>8, <1>9, <1>10, <1>11, <1>12, <1>13, <1>14, <1>15, <1>16, <1>17, <1>18, <1>19, <1>20, <1>21
     DEF Next

(***************************************************************************)
(* The bytes that receiving calls take out                                 *)
(***************************************************************************)
Pending == {t \in Threads : pc[t] \in {"recv", "recv_done"}}

(* TakenIsReported, byte by byte.                                          *)
LEMMA TakenMeans ==
  /\ TakenIsReported <=>
       /\ received \subseteq 1..taken /\ \A t \in Pending : Delivered(t) \subseteq 1..taken
       /\ \A i \in 1..taken : i \in received \/ \E t \in Pending : i \in Delivered(t)
       /\ \A t \in Pending : Delivered(t) \cap received = {}
       /\ \A t, u \in Pending : t # u => Delivered(t) \cap Delivered(u) = {}
  /\ TakenIsReported' <=>
       /\ received' \subseteq 1..taken' /\ \A t \in Pending' : Delivered(t)' \subseteq 1..taken'
       /\ \A i \in 1..taken' : i \in received' \/ \E t \in Pending' : i \in Delivered(t)'
       /\ \A t \in Pending' : Delivered(t)' \cap received' = {}
       /\ \A t, u \in Pending' : t # u => Delivered(t)' \cap Delivered(u)' = {}
<1>1. TakenIsReported <=>
       /\ received \subseteq 1..taken /\ \A t \in Pending : Delivered(t) \subseteq 1..taken
       /\ \A i \in 1..taken : i \in received \/ \E t \in Pending : i \in Delivered(t)
       /\ \A t \in Pending : Delivered(t) \cap received = {}
       /\ \A t, u \in Pending : t # u => Delivered(t) \cap Delivered(u) = {}
  BY DEF TakenIsReported, Pending
<1>2. TakenIsReported' <=>
       /\ received' \subseteq 1..taken' /\ \A t \in Pending' : Delivered(t)' \subseteq 1..taken'
       /\ \A i \in 1..taken' : i \in received' \/ \E t \in Pending' : i \in Delivered(t)'
       /\ \A t \in Pending' : Delivered(t)' \cap received' = {}
       /\ \A t, u \in Pending' : t # u => Delivered(t)' \cap Delivered(u)' = {}
  BY DEF TakenIsReported, Pending
<1> QED
  BY <1>1, <1>2

(* A step that takes nothing out and reports nothing.                      *)
LEMMA TakenKept ==
  ASSUME TakenIsReported, UNCHANGED <<taken, received>>,
         \A u \in Threads : /\ u \in Pending' <=> u \in Pending
                            /\ u \in Pending => Delivered(u)' = Delivered(u)
  PROVE  TakenIsReported'
<1>1. Pending' = Pending /\ \A u \in Pending : Delivered(u)' = Delivered(u)
  BY DEF Pending
<1> QED
  BY <1>1, TakenMeans

(* A step of a call that leaves the buffers as they are.                   *)
LEMMA TakenMove ==
  ASSUME TypeOK, TakenIsReported, NEW t \in Threads, NEW pcs, NEW to, Goto(t, pcs, to),
         pcs \in {"recv", "recv_done"} <=> to \in {"recv", "recv_done"},
         UNCHANGED <<taken, received, flags, got>>
  PROVE  TakenIsReported'
<1>1. pc[t] = pcs /\ pc'[t] = to /\ \A u \in Threads \ {t} : pc'[u] = pc[u]
  BY DEF Goto, TypeOK
<1>2. \A u \in Threads : /\ u \in Pending' <=> u \in Pending
                         /\ u \in Pending => Delivered(u)' = Delivered(u)
  BY <1>1 DEF Pending, Delivered
<1> QED
  BY <1>2, TakenKept

(* A receive begins with empty buffers.                                    *)
LEMMA TakenBegin ==
  ASSUME TypeOK, TakenIsReported, NEW t \in Threads, ScatterAlloc(t) PROVE TakenIsReported'
<1>1. /\ pc' = [pc EXCEPT ![t] = "recv"] /\ pc[t] = "recv_alloc" /\ got' = [got EXCEPT ![t] = {}]
      /\ UNCHANGED <<taken, received>>
  BY DEF ScatterAlloc, Goto, stream, history
<1>2. PICK f : flags' = [flags EXCEPT ![t] = f]
  BY DEF ScatterAlloc
<1>3. t \notin Pending /\ Pending' = Pending \cup {t}
  BY <1>1 DEF Pending, TypeOK
<1>4. Delivered(t)' = {}
  BY <1>1 DEF Delivered, TypeOK
<1>5. \A u \in Pending : Delivered(u)' = Delivered(u)
  BY <1>1, <1>2, <1>3 DEF Delivered, Pending, TypeOK
<1> QED
  BY <1>1, <1>3, <1>4, <1>5, TakenMeans

(* What a receive takes out is what comes next in the stream; what it      *)
(* peeks at stays there.                                                   *)
LEMMA TakenRecv ==
  ASSUME TypeOK, TakenIsReported, NEW t \in Threads, SysRecv(t) PROVE TakenIsReported'
<1> DEFINE n == Least(want[t], Len(sent) - taken)
           new == (taken + 1)..(taken + n)
<1>1. /\ pc' = pc \/ pc' = [pc EXCEPT ![t] = "recv_done"]
      /\ pc[t] = "recv" /\ n > 0 /\ got' = [got EXCEPT ![t] = @ \cup new]
      /\ taken' = IF flags[t] = "peek" THEN taken ELSE taken + n
      /\ UNCHANGED <<received, flags>>
  BY DEF SysRecv, history
<1>2. n \in Nat /\ taken \in Nat
  BY StreamBytes DEF TypeOK, Least
<1> HIDE DEF n
<1>3. t \in Pending /\ Pending' = Pending
  BY <1>1 DEF Pending, TypeOK
<1>4. \A u \in Pending \ {t} : Delivered(u)' = Delivered(u)
  BY <1>1, <1>3 DEF Delivered, Pending, TypeOK
<1>5. CASE flags[t] = "peek"
  <2>1. Delivered(t)' = Delivered(t) /\ taken' = taken
    BY <1>1, <1>5 DEF Delivered
  <2> QED
    BY <1>1, <1>3, <1>4, <2>1, TakenKept
<1>6. CASE flags[t] # "peek"
  <2>1. taken' = taken + n /\ Delivered(t)' = Delivered(t) \cup new
    BY <1>1, <1>6 DEF Delivered, TypeOK
  <2>2. 1..taken' = (1..taken) \cup new /\ (1..taken) \cap new = {}
    BY <1>2, <2>1
  <2> HIDE DEF new
  <2>3. /\ received \subseteq 1..taken /\ \A u \in Pending : Delivered(u) \subseteq 1..taken
        /\ \A i \in 1..taken : i \in received \/ \E u \in Pending : i \in Delivered(u)
        /\ \A u \in Pending : Delivered(u) \cap received = {}
        /\ \A u, v \in Pending : u # v => Delivered(u) \cap Delivered(v) = {}
    BY TakenMeans
  <2>4. received' \subseteq 1..taken' /\ \A u \in Pending' : Delivered(u)' \subseteq 1..taken'
    <3>1. received' \subseteq 1..taken'
      BY <1>1, <2>2, <2>3
    <3>2. Delivered(t)' \subseteq 1..taken'
      BY <1>3, <2>1, <2>2, <2>3
    <3>3. \A u \in Pending \ {t} : Delivered(u)' \subseteq 1..taken'
      BY <1>4, <2>2, <2>3
    <3> QED
      BY <1>3, <3>1, <3>2, <3>3
  <2>5. ASSUME NEW i \in 1..taken' PROVE i \in received' \/ \E u \in Pending' : i \in Delivered(u)'
    <3>1. CASE i \in new
      BY <1>3, <2>1, <3>1
    <3>2. CASE i \in 1..taken
      <4>1. CASE i \in received
        BY <1>1, <4>1
      <4>2. ASSUME NEW u \in Pending, i \in Delivered(u) PROVE i \in Delivered(u)'
        BY <1>4, <2>1, <4>2
      <4> QED
        BY <1>3, <2>3, <3>2, <4>1, <4>2
    <3> QED
      BY <2>2, <3>1, <3>2
  <2>6. \A u \in Pending' : Delivered(u)' \cap received' = {}
    <3>1. Delivered(t)' \cap received = {}
      BY <1>3, <2>1, <2>2, <2>3
    <3>2. \A u \in Pending \ {t} : Delivered(u)' \cap received = {}
      BY <1>4, <2>3
    <3> QED
      BY <1>1, <1>3, <3>1, <3>2
  <2>7. \A u, v \in Pending' : u # v => Delivered(u)' \cap Delivered(v)' = {}
    <3>1. \A u \in Pending \ {t} : Delivered(u)' \cap Delivered(t)' = {}
      <4> SUFFICES ASSUME NEW u \in Pending \ {t}
                   PROVE  Delivered(u) \cap (Delivered(t) \cup new) = {}
        BY <1>4, <2>1
      <4>1. Delivered(u) \subseteq 1..taken /\ Delivered(u) \cap Delivered(t) = {}
        BY <1>3, <2>3
      <4> QED
        BY <2>2, <4>1
    <3>2. \A u, v \in Pending \ {t} : u # v => Delivered(u)' \cap Delivered(v)' = {}
      BY <1>4, <2>3
    <3>3. ASSUME NEW u \in Pending, NEW v \in Pending, u # v PROVE Delivered(u)' \cap Delivered(v)' = {}
      <4>1. CASE u = t
        BY <3>1, <3>3, <4>1
      <4>2. CASE v = t
        BY <3>1, <3>3, <4>2
      <4> QED
        BY <3>2, <3>3, <4>1, <4>2
    <3> QED
      BY <1>3, <3>3
  <2> QED
    BY <2>4, <2>5, <2>6, <2>7, TakenMeans
<1> QED
  BY <1>5, <1>6

(* A receive reports what it has taken out.                                *)
LEMMA TakenReturn ==
  ASSUME TypeOK, TakenIsReported, NEW t \in Threads, ScatterReturn(t) PROVE TakenIsReported'
<1>1. /\ pc' = [pc EXCEPT ![t] = "idle"] /\ pc[t] = "recv_done" /\ got' = [got EXCEPT ![t] = {}]
      /\ received' = received \cup Delivered(t) /\ flags' = [flags EXCEPT ![t] = "none"]
      /\ taken' = taken
  BY DEF ScatterReturn, Goto, stream
<1>2. t \in Pending /\ Pending' = Pending \ {t}
  BY <1>1 DEF Pending, TypeOK
<1>3. \A u \in Pending \ {t} : Delivered(u)' = Delivered(u)
  BY <1>1 DEF Delivered, Pending, TypeOK
<1>4. /\ received \subseteq 1..taken /\ \A u \in Pending : Delivered(u) \subseteq 1..taken
      /\ \A i \in 1..taken : i \in received \/ \E u \in Pending : i \in Delivered(u)
      /\ \A u \in Pending : Delivered(u) \cap received = {}
      /\ \A u, v \in Pending : u # v => Delivered(u) \cap Delivered(v) = {}
  BY TakenMeans
<1>5. received' \subseteq 1..taken' /\ \A u \in Pending' : Delivered(u)' \subseteq 1..taken'
  <2>1. received' \subseteq 1..taken'
    BY <1>1, <1>2, <1>4
  <2>2. \A u \in Pending' : Delivered(u)' \subseteq 1..taken'
    BY <1>1, <1>2, <1>3, <1>4
  <2> QED
    BY <2>1, <2>2
<1>6. ASSUME NEW i \in 1..taken' PROVE i \in received' \/ \E u \in Pending' : i \in Delivered(u)'
  <2>1. CASE i \in received \/ i \in Delivered(t)
    BY <1>1, <2>1
  <2>2. ASSUME NEW u \in Pending \ {t}, i \in Delivered(u) PROVE \E v \in Pending' : i \in Delivered(v)'
    BY <1>2, <1>3, <2>2
  <2> QED
    BY <1>1, <1>4, <2>1, <2>2
<1>7. \A u \in Pending' : Delivered(u)' \cap received' = {}
  <2> SUFFICES ASSUME NEW u \in Pending \ {t} PROVE Delivered(u) \cap (received \cup Delivered(t)) = {}
    BY <1>1, <1>2, <1>3
  <2> QED
    BY <1>2, <1>4
<1>8. \A u, v \in Pending' : u # v => Delivered(u)' \cap Delivered(v)' = {}
  BY <1>2, <1>3, <1>4
<1> QED
  BY <1>5, <1>6, <1>7, <1>8, TakenMeans

(* Every step reports each byte that is taken out once.                    *)
LEMMA TakenStep ==
  ASSUME TypeOK, TakenIsReported, [Next]_vars PROVE TakenIsReported'
<1>1. ASSUME UNCHANGED <<taken, received, pc, flags, got>> PROVE TakenIsReported'
  BY <1>1, TakenKept DEF Pending, Delivered
<1>2. CASE UNCHANGED vars \/ SetNonblocking \/ PeerResets \/ ConnectCompletes
  BY <1>1, <1>2 DEF vars, stream, history, receiving, SetNonblocking, PeerResets, ConnectCompletes
<1>3. ASSUME NEW t \in Threads, NEW apis, NEW to \in {"alloc", "send", "connect"}, Send(t, apis, to)
      PROVE  TakenIsReported'
  BY <1>3, TakenMove DEF Send, stream, receiving
<1>4. ASSUME NEW t \in Threads, NEW pcs \in SendingPCs, NEW ok, NEW n, Return(t, pcs, ok, n)
      PROVE  TakenIsReported'
  BY <1>4, TakenMove DEF Return, stream, receiving, SendingPCs
<1>5. ASSUME NEW t \in Threads, Gather(t) \/ Transmit(t) \/ ConnectEx(t) PROVE TakenIsReported'
  BY <1>3, <1>5 DEF Gather, Transmit, ConnectEx
<1>6. ASSUME NEW t \in Threads,
             \/ GatherAllocFails(t) \/ GatherReturn(t) \/ GatherFails(t)
             \/ TransmitReturn(t) \/ TransmitFails(t) \/ ConnectExReturn(t)
      PROVE  TakenIsReported'
  <2>1. \E pcs \in SendingPCs : \E ok, n : Return(t, pcs, ok, n)
    BY <1>6 DEF GatherAllocFails, GatherReturn, GatherFails, TransmitReturn, TransmitFails,
                ConnectExReturn, SendingPCs
  <2> QED
    BY <1>4, <2>1
<1>7. ASSUME NEW t \in Threads,
             \/ GatherAlloc(t) \/ SysSendCut(t) \/ SysSendFails(t) \/ TransmitNext(t)
             \/ Connect(t) \/ ConnectFails(t)
             \/ Scatter(t) \/ ScatterAllocFails(t) \/ SysRecvCut(t) \/ SysRecvFails(t)
      PROVE  TakenIsReported'
  <2>1. UNCHANGED <<taken, received, flags, got>>
    BY <1>7 DEF GatherAlloc, SysSendCut, SysSendFails, TransmitNext, Connect, ConnectFails, Scatter,
                ScatterAllocFails, SysRecvCut, SysRecvFails, stream, history, receiving
  <2>2. \E pcs, to : /\ Goto(t, pcs, to)
                     /\ pcs \in {"recv", "recv_done"} <=> to \in {"recv", "recv_done"}
    BY <1>7 DEF GatherAlloc, SysSendCut, SysSendFails, TransmitNext, Connect, ConnectFails, Scatter,
                ScatterAllocFails, SysRecvCut, SysRecvFails
  <2> QED
    BY <2>1, <2>2, TakenMove
<1>8. ASSUME NEW t \in Threads, SysSend(t) \/ SysSendEnds(t) PROVE TakenIsReported'
  <2>1. UNCHANGED <<taken, received, flags, got>> /\ (Goto(t, "send", "sent") \/ UNCHANGED pc)
    BY <1>8 DEF SysSend, SysSendEnds, Put, Goto, history, receiving
  <2>2. CASE UNCHANGED pc
    BY <1>1, <2>1, <2>2
  <2>3. CASE Goto(t, "send", "sent")
    BY <2>1, <2>3, TakenMove
  <2> QED
    BY <2>1, <2>2, <2>3
<1> QED
  BY <1>2, <1>5, <1>6, <1>7, <1>8, TakenBegin, TakenRecv, TakenReturn DEF Next

(***************************************************************************)
(* The type invariant                                                      *)
(***************************************************************************)
(* The types of the stream, of the calls and of what they have done.       *)
StreamTypeOK ==
  /\ sent \in Seq(Bytes)
  /\ taken \in 0..Len(sent)
  /\ Len(sent) - taken <= Capacity
  /\ conn \in {"new", "pending", "open", "reset"}
  /\ nonblocking \in BOOLEAN

SendTypeOK ==
  /\ calls \in 0..MaxCalls
  /\ pc \in [Threads -> {"idle"} \cup SendingPCs \cup ReceivingPCs]
  /\ job \in [Threads -> Jobs]
  /\ id \in [Threads -> 0..MaxCalls]
  /\ part \in [Threads -> Nat]
  /\ \A t \in Threads : pc[t] \in SendingPCs => part[t] \in DOMAIN job[t].parts
  /\ done \in [Threads -> Nat]
  /\ iovs \in SUBSET Threads
  /\ short \in SUBSET Threads
  /\ \A c \in finished : c.id \in 1..MaxCalls /\ c.job \in Jobs

RecvTypeOK ==
  /\ flags \in [Threads -> RecvFlags]
  /\ want \in [Threads -> Nat]
  /\ got \in [Threads -> SUBSET (Nat \ {0})]
  /\ received \subseteq 1..taken

(* They make up the type invariant.                                        *)
LEMMA TypeParts == /\ TypeOK <=> StreamTypeOK /\ SendTypeOK /\ RecvTypeOK
                   /\ TypeOK' <=> StreamTypeOK' /\ SendTypeOK' /\ RecvTypeOK'
<1>1. TypeOK <=> StreamTypeOK /\ SendTypeOK /\ RecvTypeOK
  BY DEF TypeOK, StreamTypeOK, SendTypeOK, RecvTypeOK, Bytes
<1>2. TypeOK' <=> StreamTypeOK' /\ SendTypeOK' /\ RecvTypeOK'
  BY DEF TypeOK, StreamTypeOK, SendTypeOK, RecvTypeOK, Bytes
<1> QED
  BY <1>1, <1>2

(* A thread goes from one place of its call to another.                    *)
LEMMA SendTypeMove ==
  ASSUME SendTypeOK, NEW t \in Threads, NEW pcs, NEW to \in {"idle"} \cup SendingPCs \cup ReceivingPCs,
         Goto(t, pcs, to), to \in SendingPCs => pcs \in SendingPCs,
         UNCHANGED <<calls, job, id, part, done, finished>>, iovs' \in SUBSET Threads,
         short' \in SUBSET Threads
  PROVE  SendTypeOK'
<1>1. pc' = [pc EXCEPT ![t] = to] /\ pc[t] = pcs
  BY DEF Goto
<1>2. pc' \in [Threads -> {"idle"} \cup SendingPCs \cup ReceivingPCs]
  BY <1>1 DEF SendTypeOK
<1>3. \A u \in Threads : pc'[u] \in SendingPCs => part'[u] \in DOMAIN job'[u].parts
  BY <1>1 DEF SendTypeOK
<1> QED
  BY <1>2, <1>3 DEF SendTypeOK

(* A sending call begins.                                                  *)
LEMMA SendTypeBegin ==
  ASSUME SendTypeOK, NEW t \in Threads, NEW apis, NEW to \in {"alloc", "send", "connect"},
         Send(t, apis, to)
  PROVE  SendTypeOK'
<1>1. PICK j \in Jobs : job' = [job EXCEPT ![t] = j]
  BY DEF Send
<1>2. /\ pc' = [pc EXCEPT ![t] = to] /\ calls < MaxCalls /\ calls' = calls + 1
      /\ id' = [id EXCEPT ![t] = calls + 1] /\ part' = [part EXCEPT ![t] = 1]
      /\ done' = [done EXCEPT ![t] = 0] /\ short' = short \ {t} /\ UNCHANGED <<finished, iovs>>
  BY DEF Send, Goto
<1>3. calls' \in 0..MaxCalls /\ calls + 1 \in 0..MaxCalls
  BY <1>2, BoundsAssumption DEF SendTypeOK
<1>4. pc' \in [Threads -> {"idle"} \cup SendingPCs \cup ReceivingPCs]
  BY <1>2 DEF SendTypeOK, SendingPCs
<1>5. job' \in [Threads -> Jobs] /\ id' \in [Threads -> 0..MaxCalls]
  BY <1>1, <1>2, <1>3 DEF SendTypeOK
<1>6. part' \in [Threads -> Nat] /\ done' \in [Threads -> Nat]
  BY <1>2 DEF SendTypeOK
<1>7. ASSUME NEW u \in Threads, pc'[u] \in SendingPCs PROVE part'[u] \in DOMAIN job'[u].parts
  <2>1. CASE u = t
    <3>1. part'[u] = 1 /\ job'[u] = j
      BY <1>1, <1>2, <2>1 DEF SendTypeOK
    <3> QED
      BY <3>1, JobParts
  <2>2. CASE u # t
    BY <1>1, <1>2, <1>7, <2>2 DEF SendTypeOK
  <2> QED
    BY <2>1, <2>2
<1> QED
  BY <1>2, <1>3, <1>4, <1>5, <1>6, <1>7 DEF SendTypeOK

(* A sending call ends.                                                    *)
LEMMA SendTypeEnd ==
  ASSUME TypeOK, CallsNumbered, NEW t \in Threads, NEW pcs \in SendingPCs, Goto(t, pcs, "idle"),
         NEW c, c.id = id[t], c.job = job[t], finished' = finished \cup {c}, iovs' \in SUBSET Threads,
         UNCHANGED <<calls, sending>>
  PROVE  SendTypeOK'
<1>1. pc' = [pc EXCEPT ![t] = "idle"] /\ pc[t] = pcs /\ UNCHANGED <<job, id, part, done, short>>
  BY DEF Goto, sending
<1>2. SendTypeOK
  BY TypeParts
<1>3. c.id \in 1..MaxCalls /\ c.job \in Jobs
  <2>1. id[t] \in 1..calls /\ calls \in 0..MaxCalls /\ job[t] \in Jobs
    BY <1>1, <1>2 DEF CallsNumbered, Sending, SendTypeOK
  <2> QED
    BY <2>1, BoundsAssumption
<1>4. \A d \in finished' : d.id \in 1..MaxCalls /\ d.job \in Jobs
  BY <1>2, <1>3 DEF SendTypeOK
<1>5. pc' \in [Threads -> {"idle"} \cup SendingPCs \cup ReceivingPCs]
  BY <1>1, <1>2 DEF SendTypeOK
<1>6. \A u \in Threads : pc'[u] \in SendingPCs => part'[u] \in DOMAIN job'[u].parts
  BY <1>1, <1>2 DEF SendTypeOK, SendingPCs
<1> QED
  BY <1>1, <1>2, <1>4, <1>5, <1>6 DEF SendTypeOK

(* What the system calls do to the types.                                  *)
LEMMA TypeSysSend ==
  ASSUME TypeOK, CallsNumbered, PartDone, NEW t \in Threads, SysSend(t) \/ SysSendEnds(t)
  PROVE  TypeOK'
<1>0. PICK n \in Nat : Entered(t, n)
  BY SendEffect
<1>1. /\ n <= Room /\ n <= Remaining(t)
      /\ sent' \in Seq(Bytes) /\ Len(sent') = Len(sent) + n
      /\ done' = [done EXCEPT ![t] = @ + n]
      /\ pc' = [pc EXCEPT ![t] = "sent"] \/ pc' = pc
      /\ short' = short \/ short' = short \cup {t}
  BY <1>0 DEF Entered
<1>2. pc[t] = "send" /\ UNCHANGED <<taken, conn, nonblocking, calls, received, finished, job, id, part,
                                   flags, want, got, iovs>>
  BY <1>0, SendEffect DEF Entered
<1>3. StreamTypeOK /\ SendTypeOK /\ RecvTypeOK
  BY TypeParts
<1>4. Len(sent) \in Nat /\ taken \in 0..Len(sent) /\ Room = Capacity - (Len(sent) - taken)
  BY <1>3, StreamBytes DEF StreamTypeOK, Room
<1>5. StreamTypeOK'
  BY <1>1, <1>2, <1>3, <1>4, BoundsAssumption DEF StreamTypeOK
<1>6. SendTypeOK'
  <2>1. done' \in [Threads -> Nat]
    BY <1>1, <1>3 DEF SendTypeOK
  <2>2. short' \in SUBSET Threads
    BY <1>1, <1>3 DEF SendTypeOK
  <2>3. pc' = [pc EXCEPT ![t] = "sent"] \/ pc' = pc
    BY <1>1
  <2>4. pc' \in [Threads -> {"idle"} \cup SendingPCs \cup ReceivingPCs]
    BY <1>3, <2>3 DEF SendTypeOK, SendingPCs
  <2>5. \A u \in Threads : pc'[u] \in SendingPCs => part'[u] \in DOMAIN job'[u].parts
    BY <1>2, <1>3, <2>3 DEF SendTypeOK, SendingPCs
  <2> QED
    BY <1>2, <1>3, <2>1, <2>2, <2>4, <2>5 DEF SendTypeOK
<1>7. RecvTypeOK'
  BY <1>2, <1>3 DEF RecvTypeOK
<1> QED
  BY <1>5, <1>6, <1>7, TypeParts

(* Receiving.                                                              *)
LEMMA TypeReceive ==
  ASSUME TypeOK, TakenIsReported, NEW t \in Threads,
         \/ Scatter(t) \/ ScatterAlloc(t) \/ ScatterAllocFails(t)
         \/ SysRecv(t) \/ SysRecvCut(t) \/ SysRecvFails(t) \/ ScatterReturn(t)
  PROVE  TypeOK'
<1>1. StreamTypeOK /\ SendTypeOK /\ RecvTypeOK
  BY TypeParts
<1>2. SendTypeOK'
  <2>1. UNCHANGED <<calls, finished, job, id, part, done, short>>
    BY DEF Scatter, ScatterAlloc, ScatterAllocFails, SysRecv, SysRecvCut, SysRecvFails, ScatterReturn,
           history, sending
  <2>2. iovs' \in SUBSET Threads
    BY DEF Scatter, ScatterAlloc, ScatterAllocFails, SysRecv, SysRecvCut, SysRecvFails, ScatterReturn,
           TypeOK
  <2>3. pc' = pc \/ \E pcs, to \in {"idle"} \cup ReceivingPCs : Goto(t, pcs, to)
    BY DEF Scatter, ScatterAlloc, ScatterAllocFails, SysRecv, SysRecvCut, SysRecvFails, ScatterReturn,
           ReceivingPCs, Goto
  <2>4. short' \in SUBSET Threads
    BY <1>1, <2>1 DEF SendTypeOK
  <2>5. SendingPCs \cap ({"idle"} \cup ReceivingPCs) = {}
    BY DEF SendingPCs, ReceivingPCs
  <2>6. CASE pc' = pc
    BY <1>1, <2>1, <2>2, <2>6 DEF SendTypeOK
  <2> QED
    BY <1>1, <2>1, <2>2, <2>3, <2>4, <2>5, <2>6, SendTypeMove
<1>3. CASE Scatter(t) \/ ScatterAllocFails(t) \/ SysRecvCut(t) \/ SysRecvFails(t)
  <2>1. UNCHANGED <<stream, received, flags, want, got>>
    BY <1>3 DEF Scatter, ScatterAllocFails, SysRecvCut, SysRecvFails, history, receiving
  <2> QED
    BY <1>1, <1>2, <2>1, TypeParts DEF stream, StreamTypeOK, RecvTypeOK
<1>4. CASE ScatterAlloc(t)
  <2>1. PICK n \in Reads, f \in RecvFlags :
          /\ want' = [want EXCEPT ![t] = n] /\ flags' = [flags EXCEPT ![t] = f]
          /\ got' = [got EXCEPT ![t] = {}] /\ UNCHANGED <<stream, received>>
    BY <1>4 DEF ScatterAlloc, history
  <2>2. n \in Nat
    BY ReadsAssumption
  <2>3. RecvTypeOK'
    BY <1>1, <2>1, <2>2 DEF RecvTypeOK, stream
  <2> QED
    BY <1>1, <1>2, <2>1, <2>3, TypeParts DEF stream, StreamTypeOK
<1>5. CASE SysRecv(t)
  <2> DEFINE n == Least(want[t], Len(sent) - taken)
  <2>1. /\ n > 0 /\ want' = [want EXCEPT ![t] = @ - n]
        /\ got' = [got EXCEPT ![t] = @ \cup ((taken + 1)..(taken + n))]
        /\ taken' = taken \/ taken' = taken + n
        /\ UNCHANGED <<sent, conn, nonblocking, received, flags>>
    BY <1>5 DEF SysRecv, history
  <2>2. taken \in 0..Len(sent) /\ Len(sent) \in Nat /\ want[t] \in Nat
    BY StreamBytes DEF TypeOK
  <2>3. n \in Nat /\ n <= Len(sent) - taken /\ want[t] - n \in Nat
    BY <2>2 DEF Least
  <2> HIDE DEF n
  <2>4. StreamTypeOK'
    BY <1>1, <2>1, <2>2, <2>3, BoundsAssumption DEF StreamTypeOK
  <2>5. want' \in [Threads -> Nat]
    BY <1>1, <2>1, <2>3 DEF RecvTypeOK
  <2>6. got' \in [Threads -> SUBSET (Nat \ {0})]
    <3>1. (taken + 1)..(taken + n) \subseteq Nat \ {0}
      BY <2>2, <2>3
    <3> QED
      BY <1>1, <2>1, <3>1 DEF RecvTypeOK
  <2>7. received' \subseteq 1..taken'
    <3>1. 1..taken \subseteq 1..taken'
      BY <2>1, <2>2, <2>3
    <3> QED
      BY <1>1, <2>1, <3>1 DEF RecvTypeOK
  <2>8. RecvTypeOK'
    BY <1>1, <2>1, <2>5, <2>6, <2>7 DEF RecvTypeOK
  <2> QED
    BY <1>2, <2>4, <2>8, TypeParts
<1>6. CASE ScatterReturn(t)
  <2>1. /\ pc[t] = "recv_done" /\ received' = received \cup Delivered(t)
        /\ flags' = [flags EXCEPT ![t] = "none"] /\ want' = [want EXCEPT ![t] = 0]
        /\ got' = [got EXCEPT ![t] = {}] /\ UNCHANGED stream
    BY <1>6 DEF ScatterReturn, Goto
  <2>2. Delivered(t) \subseteq 1..taken
    BY <2>1, TakenMeans DEF Pending
  <2>3. received' \subseteq 1..taken'
    BY <1>1, <2>1, <2>2 DEF RecvTypeOK, stream
  <2>4. RecvTypeOK'
    BY <1>1, <2>1, <2>3 DEF RecvTypeOK, RecvFlags
  <2> QED
    BY <1>1, <1>2, <2>1, <2>4, TypeParts DEF stream, StreamTypeOK
<1> QED
  BY <1>3, <1>4, <1>5, <1>6

(* Every step keeps the types.                                             *)
LEMMA TypeStep ==
  ASSUME TypeOK, TakenIsReported, CallsNumbered, PartDone, [Next]_vars PROVE TypeOK'
<1>1. StreamTypeOK /\ SendTypeOK /\ RecvTypeOK
  BY TypeParts
<1>2. ASSUME UNCHANGED stream PROVE StreamTypeOK'
  BY <1>1, <1>2 DEF stream, StreamTypeOK
<1>3. ASSUME UNCHANGED <<taken, received, flags, want, got>> PROVE RecvTypeOK'
  BY <1>1, <1>3 DEF RecvTypeOK
<1>4. CASE UNCHANGED vars \/ SetNonblocking \/ PeerResets \/ ConnectCompletes
  <2>1. UNCHANGED <<calls, pc, job, id, part, done, iovs, short, finished>>
    BY <1>4 DEF vars, history, sending, SetNonblocking, PeerResets, ConnectCompletes
  <2>2. UNCHANGED <<taken, received, flags, want, got, sent>>
    BY <1>4 DEF vars, stream, history, receiving, SetNonblocking, PeerResets, ConnectCompletes
  <2>3. conn' \in {"new", "pending", "open", "reset"} /\ nonblocking' \in BOOLEAN
    BY <1>1, <1>4 DEF vars, stream, SetNonblocking, PeerResets, ConnectCompletes, StreamTypeOK
  <2>4. StreamTypeOK'
    BY <1>1, <2>2, <2>3 DEF StreamTypeOK
  <2>5. SendTypeOK'
    BY <1>1, <2>1 DEF SendTypeOK
  <2> QED
    BY <1>3, <2>2, <2>4, <2>5, TypeParts
<1>5. ASSUME NEW t \in Threads, Gather(t) \/ Transmit(t) \/ ConnectEx(t) PROVE TypeOK'
  <2>1. PICK apis : \E to \in {"alloc", "send", "connect"} : Send(t, apis, to)
    BY <1>5 DEF Gather, Transmit, ConnectEx
  <2>2. UNCHANGED stream /\ UNCHANGED <<taken, received, flags, want, got>>
    BY <2>1 DEF Send, stream, receiving
  <2> QED
    BY <1>1, <1>2, <1>3, <2>1, <2>2, SendTypeBegin, TypeParts
<1>6. ASSUME NEW t \in Threads, NEW pcs \in SendingPCs, NEW ok, NEW n, Return(t, pcs, ok, n),
             iovs' \in SUBSET Threads
      PROVE  TypeOK'
  <2> DEFINE c == [id |-> id[t], job |-> job[t], ok |-> ok, bytes |-> n, short |-> t \in short]
  <2>1. Goto(t, pcs, "idle") /\ finished' = finished \cup {c} /\ UNCHANGED <<calls, sending>>
    BY <1>6 DEF Return
  <2>2. c.id = id[t] /\ c.job = job[t]
    OBVIOUS
  <2> HIDE DEF c
  <2>3. SendTypeOK'
    BY <1>6, <2>1, <2>2, SendTypeEnd
  <2>4. UNCHANGED stream /\ UNCHANGED <<taken, received, flags, want, got>>
    BY <1>6 DEF Return, stream, receiving
  <2> QED
    BY <1>2, <1>3, <2>3, <2>4, TypeParts
<1>7. ASSUME NEW t \in Threads,
             \/ GatherAllocFails(t) \/ GatherReturn(t) \/ GatherFails(t)
             \/ TransmitReturn(t) \/ TransmitFails(t) \/ ConnectExReturn(t)
      PROVE  TypeOK'
  <2>1. \E pcs \in SendingPCs : \E ok, n : Return(t, pcs, ok, n)
    BY <1>7 DEF GatherAllocFails, GatherReturn, GatherFails, TransmitReturn, TransmitFails,
                ConnectExReturn, SendingPCs
  <2>2. iovs' \in SUBSET Threads
    BY <1>1, <1>7 DEF GatherAllocFails, GatherReturn, GatherFails, TransmitReturn, TransmitFails,
                      ConnectExReturn, SendTypeOK
  <2> QED
    BY <1>6, <2>1, <2>2
<1>8. ASSUME NEW t \in Threads, ConnectFails(t) PROVE TypeOK'
  <2> DEFINE c == [id |-> id[t], job |-> job[t], ok |-> FALSE, bytes |-> 0, short |-> FALSE]
  <2>1. /\ Goto(t, "connect", "idle") /\ finished' = finished \cup {c} /\ UNCHANGED <<calls, sending>>
        /\ UNCHANGED <<sent, taken, nonblocking, received, flags, want, got, iovs>>
        /\ conn' \in {"pending", conn}
    BY <1>8 DEF ConnectFails, receiving
  <2>2. c.id = id[t] /\ c.job = job[t]
    OBVIOUS
  <2> HIDE DEF c
  <2>3. iovs' \in SUBSET Threads
    BY <1>1, <2>1 DEF SendTypeOK
  <2>4. SendTypeOK'
    BY <2>1, <2>2, <2>3, SendTypeEnd DEF SendingPCs
  <2>5. StreamTypeOK'
    BY <1>1, <2>1 DEF StreamTypeOK
  <2> QED
    BY <1>3, <2>1, <2>4, <2>5, TypeParts
<1>9. ASSUME NEW t \in Threads, GatherAlloc(t) \/ SysSendCut(t) \/ SysSendFails(t) \/ Connect(t)
      PROVE  TypeOK'
  <2>1. /\ UNCHANGED <<calls, job, id, part, done, finished>>
        /\ UNCHANGED <<sent, taken, nonblocking, received, flags, want, got>> /\ conn' \in {"open", conn}
    BY <1>9 DEF GatherAlloc, SysSendCut, SysSendFails, Connect, stream, history, sending, receiving
  <2>2. iovs' \in SUBSET Threads /\ short' \in SUBSET Threads
    BY <1>1, <1>9 DEF GatherAlloc, SysSendCut, SysSendFails, Connect, sending, SendTypeOK
  <2>3. \E pcs, to \in SendingPCs : Goto(t, pcs, to)
    BY <1>9 DEF GatherAlloc, SysSendCut, SysSendFails, Connect, SendingPCs
  <2>4. SendTypeOK'
    BY <1>1, <2>1, <2>2, <2>3, SendTypeMove
  <2>5. StreamTypeOK'
    BY <1>1, <2>1 DEF StreamTypeOK
  <2> QED
    BY <1>3, <2>1, <2>4, <2>5, TypeParts
<1>10. ASSUME NEW t \in Threads, TransmitNext(t) PROVE TypeOK'
  <2>1. /\ pc' = [pc EXCEPT ![t] = "send"] /\ pc[t] = "sent" /\ part' = [part EXCEPT ![t] = @ + 1]
        /\ done' = [done EXCEPT ![t] = 0] /\ part[t] < Len(job[t].parts)
        /\ UNCHANGED <<calls, job, id, finished, iovs, short>>
    BY <1>10 DEF TransmitNext, Goto, history
  <2>2. part'[t] \in DOMAIN job[t].parts
    <3>1. /\ DOMAIN job[t].parts = 1..Len(job[t].parts) /\ Len(job[t].parts) \in Nat
          /\ part[t] \in 1..Len(job[t].parts)
      BY <1>1, <2>1, JobParts DEF SendTypeOK, SendingPCs
    <3>2. part'[t] = part[t] + 1
      BY <1>1, <2>1 DEF SendTypeOK
    <3> QED
      BY <2>1, <3>1, <3>2
  <2>3. pc' \in [Threads -> {"idle"} \cup SendingPCs \cup ReceivingPCs]
    BY <1>1, <2>1 DEF SendTypeOK, SendingPCs
  <2>4. part' \in [Threads -> Nat] /\ done' \in [Threads -> Nat]
    BY <1>1, <2>1 DEF SendTypeOK
  <2>5. \A u \in Threads : pc'[u] \in SendingPCs => part'[u] \in DOMAIN job'[u].parts
    BY <1>1, <2>1, <2>2 DEF SendTypeOK
  <2>6. SendTypeOK'
    BY <1>1, <2>1, <2>3, <2>4, <2>5 DEF SendTypeOK
  <2>7. UNCHANGED stream /\ UNCHANGED <<taken, received, flags, want, got>>
    BY <1>10 DEF TransmitNext, stream, history, receiving
  <2> QED
    BY <1>2, <1>3, <2>6, <2>7, TypeParts
<1> QED
  BY <1>4, <1>5, <1>7, <1>8, <1>9, <1>10, TypeSysSend, TypeReceive DEF Next

(***************************************************************************)
(* The theorems                                                            *)
(***************************************************************************)
(* At the start nothing has been sent.                                     *)
LEMMA InvInit == Init => Inv
<1> SUFFICES ASSUME Init PROVE Inv
  OBVIOUS
<1>1. sent = <<>> /\ sent \in Seq(Bytes) /\ Len(sent) = 0 /\ DOMAIN sent = {}
  BY EmptySeq DEF Init
<1>2. StreamTypeOK
  BY <1>1, BoundsAssumption DEF Init, StreamTypeOK
<1>3. SendTypeOK
  <2>1. job \in [Threads -> Jobs]
    BY JobsAssumption DEF Init
  <2> QED
    BY <2>1, BoundsAssumption DEF Init, SendTypeOK, SendingPCs
<1>4. RecvTypeOK
  BY DEF Init, RecvTypeOK, RecvFlags
<1>5. IovsOwned
  BY DEF Init, IovsOwned
<1>6. TakenIsReported
  BY DEF Init, TakenIsReported
<1>7. \A t \in Threads : pc[t] = "idle" /\ ~Sending(t)
  BY DEF Init, Sending, SendingPCs
<1>8. SendInv
  BY <1>1, <1>7
     DEF Init, SendInv, CallsNumbered, ApiKnown, PartDone, Progress, Ordered, InOrder, ReportedIsSent,
         WholeUnlessShort
<1> QED
  BY <1>2, <1>3, <1>4, <1>5, <1>6, <1>8, TypeParts DEF Inv

(* Every step of a call, of the socket or of the network preserves the     *)
(* invariant.                                                              *)
LEMMA InvStep == Inv /\ [Next]_vars => Inv'
<1> SUFFICES ASSUME Inv, [Next]_vars PROVE Inv'
  OBVIOUS
<1>1. TypeOK /\ IovsOwned /\ TakenIsReported /\ SendInv /\ CallsNumbered /\ PartDone /\ ApiKnown
  BY DEF Inv, SendInv
<1>2. TypeOK'
  BY <1>1, TypeStep
<1>3. IovsOwned'
  BY <1>1, IovsStep
<1>4. TakenIsReported'
  BY <1>1, TakenStep
<1>5. SendInv'
  BY <1>1, SendStep
<1> QED
  BY <1>2, <1>3, <1>4, <1>5 DEF Inv

(* The invariant holds however many calls send and receive at once.        *)
THEOREM Invariance == Spec => []Inv
<1> QED
  BY InvInit, InvStep, PTL DEF Spec

(* The variables keep their types, a call is at one of its parts, and the  *)
(* kernel holds no more than it has room for.                              *)
THEOREM TypeCorrect == Spec => []TypeOK
<1>1. Inv => TypeOK
  BY DEF Inv
<1> QED
  BY <1>1, Invariance, PTL

(* WSASend, WSARecv and their like free the iovec array on every way out,  *)
(* and never one that they have not allocated.                             *)
THEOREM IovsFreed == Spec => []IovsOwned
<1>1. Inv => IovsOwned
  BY DEF Inv
<1> QED
  BY <1>1, Invariance, PTL

(* Whatever other calls send meanwhile, what a call with one part reports  *)
(* is what is in the stream, in its order: no byte is missing or doubled.  *)
THEOREM ReportTrue == Spec => []ReportedIsSent
<1>1. Inv => ReportedIsSent
  BY DEF Inv, SendInv
<1> QED
  BY <1>1, Invariance, PTL

(* TransmitFile and TransmitPackets that return TRUE have put all their    *)
(* parts into the stream, in order, if no send came up short.              *)
THEOREM TransmitWhole == Spec => []WholeUnlessShort
<1>1. Inv => WholeUnlessShort
  BY DEF Inv, SendInv
<1> QED
  BY <1>1, Invariance, PTL

(* Each byte that is taken out of the stream is reported to the            *)
(* application once, by the call that took it.                             *)
THEOREM TakenOnce == Spec => []TakenIsReported
<1>1. Inv => TakenIsReported
  BY DEF Inv
<1> QED
  BY <1>1, Invariance, PTL
=============================================================================

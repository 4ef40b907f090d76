---------------------------- MODULE OutboxProofs ----------------------------
(***************************************************************************)
(* What every operation of the outbox keeps, for a log of any size.  The   *)
(* records of the file are numbered without a gap, they start at or before *)
(* the first event that was not checkpointed, and they end with the last   *)
(* event or with one record more that was written and never confirmed.     *)
(***************************************************************************)
EXTENDS Outbox, TLAPS

\* Identities are drawn once.
Identities ==
  /\ \A n \in 1 .. Len(sent) : sent[n] \in 1 .. born
  /\ \A m, n \in 1 .. Len(sent) : sent[m] = sent[n] => m = n

\* A record that was written and never confirmed.
Unconfirmed(id) ==
  /\ failed \/ ~serving
  /\ id \in 1 .. born /\ \A n \in 1 .. Len(sent) : sent[n] # id

\* The file holds the events that follow number b, an acknowledged one.
FileFrom(b) ==
  /\ serving => b <= acked
  /\ \A i \in 1 .. Len(log) :
       log[i].seq = b + i /\ (b + i <= Len(sent) => log[i].id = sent[b + i])
  /\ b + Len(log) \in {Len(sent), Len(sent) + 1}
  /\ b + Len(log) = Len(sent) + 1 => Unconfirmed(log[Len(log)].id)

File == \E b \in 0 .. ckpt : FileFrom(b)

\* The Store in memory holds exactly what is not acknowledged.
Memory ==
  /\ torn => failed \/ ~serving
  /\ serving =>
       /\ acked <= ckpt /\ latest = Len(sent)
       /\ Len(events) = Len(sent) - acked
       /\ \A i \in 1 .. Len(events) :
            events[i].seq = acked + i /\ events[i].id = sent[acked + i]
       /\ ~failed => Len(log) <= bytes

OutInv ==
  /\ OutTypeOK /\ ckpt <= Len(sent)
  /\ Identities /\ File /\ Memory
-----------------------------------------------------------------------------
(* The operators *)

\* The least and the greatest element are the ones Min and Max choose.
LEMMA MinIs ==
  ASSUME NEW S, NEW m \in S, S \subseteq Int, \A x \in S : m <= x
  PROVE  Min(S) = m
<1>1. Min(S) \in S /\ \A y \in S : Min(S) <= y
  BY Zenon DEF Min
<1>2. Min(S) \in Int /\ m \in Int /\ Min(S) <= m /\ m <= Min(S)
  BY <1>1, Zenon
<1> QED
  BY <1>2

\* The greatest element of a finite set of numbers.
LEMMA MaxIs ==
  ASSUME NEW S, NEW m \in S, S \subseteq Int, \A x \in S : x <= m
  PROVE  Max(S) = m
<1>0. \A y \in S : m >= y
  OBVIOUS
<1>1. Max(S) \in S /\ \A y \in S : Max(S) >= y
  BY <1>0, Zenon DEF Max
<1>2. Max(S) \in Int /\ m \in Int /\ Max(S) <= m /\ Max(S) >= m
  BY <1>1, Zenon
<1> QED
  BY <1>2

\* What a suffix of a sequence is.
LEMMA Suffix ==
  ASSUME NEW T, NEW es \in Seq(T), NEW m \in 1 .. Len(es) + 1
  PROVE  /\ SubSeq(es, m, Len(es)) \in Seq(T)
         /\ Len(SubSeq(es, m, Len(es))) = Len(es) + 1 - m
         /\ \A i \in 1 .. Len(es) + 1 - m : SubSeq(es, m, Len(es))[i] = es[m + i - 1]
OBVIOUS

\* Of a list numbered from k + 1 on, Ack and recoverLog keep what follows n.
LEMMA UnackedIs ==
  ASSUME NEW es \in Seq(Envelope), NEW k \in Nat, NEW n \in Nat,
         k <= n, n <= k + Len(es),
         \A j \in 1 .. Len(es) : es[j].seq = k + j
  PROVE  /\ Unacked(es, n) \in Seq(Envelope)
         /\ Len(Unacked(es, n)) = k + Len(es) - n
         /\ \A i \in 1 .. k + Len(es) - n : Unacked(es, n)[i] = es[n - k + i]
<1> DEFINE S == {i \in 1 .. Len(es) + 1 : \A j \in i .. Len(es) : es[j].seq > n}
           m == n - k + 1
<1>0. m \in 1 .. Len(es) + 1 /\ Len(es) \in Nat
  OBVIOUS
<1>1. m \in S
  BY <1>0
<1>2. \A x \in S : m <= x
  <2> SUFFICES ASSUME NEW x \in S, x < m PROVE FALSE
    BY <1>0
  <2>1. x \in 1 .. Len(es) /\ x \in x .. Len(es)
    BY <1>0
  <2> QED
    BY <1>0, <2>1
<1>3. S \subseteq Int
  OBVIOUS
<1> HIDE DEF m, S
<1>4. Min(S) = m
  BY <1>1, <1>2, <1>3, MinIs
<1>5. Unacked(es, n) = SubSeq(es, m, Len(es))
  BY <1>4 DEF Unacked, S
<1>6. Unacked(es, n) \in Seq(Envelope) /\ Len(Unacked(es, n)) = Len(es) + 1 - m
      /\ \A i \in 1 .. Len(es) + 1 - m : Unacked(es, n)[i] = es[m + i - 1]
  BY <1>0, <1>5, Suffix
<1>7. Len(es) + 1 - m = k + Len(es) - n
  BY <1>0 DEF m
<1>8. ASSUME NEW i \in 1 .. k + Len(es) - n PROVE Unacked(es, n)[i] = es[n - k + i]
  <2>1. m + i - 1 = n - k + i
    BY <1>0 DEF m
  <2> QED
    BY <1>6, <1>7, <2>1
<1> QED
  BY <1>6, <1>7, <1>8

\* recoverLog keeps the whole file.
LEMMA RecoversAll ==
  ASSUME log \in Seq(Envelope), ckpt \in Nat, NEW b \in 0 .. ckpt, FileFrom(b)
  PROVE  Recovered(log, ckpt) = log
<1> DEFINE S == {n \in 0 .. Len(log) :
                   /\ n > 0 => log[1].seq <= ckpt + 1
                   /\ \A i \in 2 .. n : log[i].seq = log[i - 1].seq + 1}
<1>0. Len(log) \in Nat /\ b \in Nat /\ b <= ckpt
  OBVIOUS
<1>1. \A i \in 1 .. Len(log) : log[i].seq = b + i
  BY DEF FileFrom
<1>2. ASSUME NEW i \in 2 .. Len(log) PROVE log[i].seq = log[i - 1].seq + 1
  <2>1. i \in 1 .. Len(log) /\ i - 1 \in 1 .. Len(log)
    BY <1>0
  <2>2. log[i].seq = b + i /\ log[i - 1].seq = b + (i - 1)
    BY <1>1, <2>1
  <2> QED
    BY <1>0, <2>2
<1>3. Len(log) > 0 => log[1].seq <= ckpt + 1
  <2> SUFFICES ASSUME Len(log) > 0 PROVE log[1].seq <= ckpt + 1
    OBVIOUS
  <2>1. log[1].seq = b + 1
    BY <1>0, <1>1
  <2> QED
    BY <1>0, <2>1
<1>4. Len(log) \in S
  BY <1>0, <1>2, <1>3
<1>5. Max(S) = Len(log)
  <2>1. S \subseteq Int /\ \A x \in S : x <= Len(log)
    BY <1>0
  <2> HIDE DEF S
  <2> QED
    BY <1>4, <2>1, MaxIs
<1>6. Recovered(log, ckpt) = SubSeq(log, 1, Len(log))
  BY <1>5 DEF Recovered
<1> QED
  BY <1>6

\* The steps of Ack come in their order.
LEMMA AckOrder ==
  ASSUME NEW how \in AckSteps
  PROVE  /\ Reached(how, "done") => Compacts(how)
         /\ Compacts(how) => Reached(how, "memory")
         /\ Reached(how, "memory") => Reached(how, "checkpoint")
BY DEF AckSteps, Reached, Compacts

\* The space that an event may take is at most all of it.
LEMMA LimitBound ==
  ASSUME NEW p
  PROVE  Limit(p) \in Nat /\ Limit(p) <= MaxBytes
<1>1. MaxBytes \in Nat
  BY MaxBytesAssumption
<1>2. MaxBytes \div 4 \in Nat /\ MaxBytes \div 4 <= MaxBytes
  BY <1>1
<1> QED
  BY <1>1, <1>2 DEF Limit
-----------------------------------------------------------------------------
(* The operations *)

\* The parts of the invariant, as the steps below use them.
LEMMA OutTypes ==
  ASSUME OutInv
  PROVE  /\ log \in Seq(Envelope) /\ Len(log) \in Nat /\ events \in Seq(Envelope)
         /\ Len(events) \in Nat /\ sent \in Seq(Nat) /\ Len(sent) \in Nat
         /\ ckpt \in Nat /\ ckpt <= Len(sent) /\ acked \in Nat /\ latest \in Nat
         /\ bytes \in Nat /\ bytes <= MaxBytes /\ born \in Nat /\ MaxBytes \in Nat
         /\ Len(log) <= MaxBytes
         /\ torn \in BOOLEAN /\ serving \in BOOLEAN /\ failed \in BOOLEAN
BY MaxBytesAssumption DEF OutInv, OutTypeOK

\* A new record at the end of a file, and a new event.
LEMMA Appended ==
  ASSUME NEW T, NEW es \in Seq(T), NEW e \in T
  PROVE  /\ Append(es, e) \in Seq(T) /\ Len(Append(es, e)) = Len(es) + 1
         /\ \A i \in 1 .. Len(es) : Append(es, e)[i] = es[i]
         /\ Append(es, e)[Len(es) + 1] = e
OBVIOUS

\* An empty outbox.
LEMMA OutInitInv == OutInit => OutInv
<1> SUFFICES ASSUME OutInit PROVE OutInv
  OBVIOUS
<1>0. MaxBytes \in Nat
  BY MaxBytesAssumption
<1>1. <<>> \in Seq(Envelope) /\ <<>> \in Seq(Nat) /\ Len(<<>>) = 0
  OBVIOUS
<1>2. OutTypeOK
  <2>1. torn \in BOOLEAN /\ serving \in BOOLEAN /\ failed \in BOOLEAN
    BY Zenon DEF OutInit
  <2>2. 0 \in Nat /\ 0 \in 0 .. MaxBytes /\ 0 <= MaxBytes
    BY <1>0
  <2> QED
    BY <1>1, <2>1, <2>2, Zenon DEF OutInit, OutTypeOK
<1>3. FileFrom(0)
  BY <1>1 DEF OutInit, FileFrom
<1> QED
  BY <1>1, <1>2, <1>3 DEF OutInit, OutInv, Identities, File, Memory

\* Append: the record is in the file when the event is confirmed.
LEMMA AppendKeeps ==
  ASSUME OutInv, NEW p, AppendEvent(p)
  PROVE  OutInv'
<1> DEFINE e == NextEnvelope
<1>t. /\ log \in Seq(Envelope) /\ Len(log) \in Nat /\ events \in Seq(Envelope)
      /\ Len(events) \in Nat /\ sent \in Seq(Nat) /\ Len(sent) \in Nat
      /\ ckpt \in Nat /\ ckpt <= Len(sent) /\ acked \in Nat /\ latest \in Nat
      /\ bytes \in Nat /\ bytes <= MaxBytes /\ born \in Nat /\ MaxBytes \in Nat
      /\ Len(log) <= MaxBytes
      /\ torn \in BOOLEAN /\ serving \in BOOLEAN /\ failed \in BOOLEAN
  BY OutTypes
<1>0. /\ serving /\ ~failed /\ ~torn /\ bytes + 1 <= MaxBytes /\ Len(log) <= bytes
      /\ latest = Len(sent) /\ acked <= ckpt /\ Len(events) = Len(sent) - acked
      /\ \A i \in 1 .. Len(events) :
           events[i].seq = acked + i /\ events[i].id = sent[acked + i]
  <2>1. Limit(p) \in Nat /\ Limit(p) <= MaxBytes
    BY LimitBound
  <2>2. serving /\ ~failed /\ bytes + 1 <= Limit(p)
    BY DEF AppendEvent, MayAppend
  <2>3. bytes + 1 <= MaxBytes
    BY <1>t, <2>1, <2>2
  <2> QED
    BY <2>2, <2>3, Zenon DEF OutInv, Memory
<1>1. e \in Envelope /\ e.seq = Len(sent) + 1 /\ e.id = born + 1
  BY <1>t, <1>0 DEF NextEnvelope, Envelope
<1>2. /\ log' = Append(log, e) /\ events' = Append(events, e) /\ sent' = Append(sent, e.id)
      /\ born' = born + 1 /\ latest' = Len(sent) + 1 /\ bytes' = bytes + 1
      /\ UNCHANGED <<torn, ckpt, serving, acked, failed>>
  BY <1>t, <1>0, <1>1 DEF AppendEvent, Written
<1> HIDE DEF e
<1>3. /\ sent' \in Seq(Nat) /\ Len(sent') = Len(sent) + 1 /\ sent'[Len(sent) + 1] = born + 1
      /\ \A n \in 1 .. Len(sent) : sent'[n] = sent[n]
  BY <1>t, <1>1, <1>2, Appended
<1>4. /\ log' \in Seq(Envelope) /\ Len(log') = Len(log) + 1 /\ log'[Len(log) + 1] = e
      /\ \A i \in 1 .. Len(log) : log'[i] = log[i]
  BY <1>t, <1>1, <1>2, Appended
<1>5. /\ events' \in Seq(Envelope) /\ Len(events') = Len(events) + 1
      /\ events'[Len(events) + 1] = e
      /\ \A i \in 1 .. Len(events) : events'[i] = events[i]
  BY <1>t, <1>1, <1>2, Appended
<1>6. OutTypeOK'
  BY <1>t, <1>0, <1>2, <1>3, <1>4, <1>5 DEF OutTypeOK
<1>7. Identities'
  <2>1. \A n \in 1 .. Len(sent) : sent[n] \in 1 .. born
    BY DEF OutInv, Identities
  <2>2. \A m, n \in 1 .. Len(sent) : sent[m] = sent[n] => m = n
    BY DEF OutInv, Identities
  <2>3. \A n \in 1 .. Len(sent') : n \in 1 .. Len(sent) \/ n = Len(sent) + 1
    BY <1>t, <1>3
  <2>4. \A n \in 1 .. Len(sent') : sent'[n] \in 1 .. born'
    BY <1>t, <1>2, <1>3, <2>1, <2>3
  <2>5. \A m, n \in 1 .. Len(sent') : sent'[m] = sent'[n] => m = n
    <3> SUFFICES ASSUME NEW m \in 1 .. Len(sent'), NEW n \in 1 .. Len(sent'),
                        sent'[m] = sent'[n]
                 PROVE  m = n
      OBVIOUS
    <3>1. \A k \in 1 .. Len(sent) : sent'[k] = sent[k] /\ sent[k] <= born
      BY <1>3, <2>1
    <3>2. ASSUME NEW k \in 1 .. Len(sent) PROVE sent'[k] # born + 1
      <4>1. sent'[k] \in 1 .. born /\ born \in Nat
        BY <1>t, <2>1, <3>1
      <4> QED
        BY <4>1
    <3> QED
      BY <1>3, <2>2, <2>3, <3>1, <3>2
  <2> QED
    BY <1>t, <2>4, <2>5 DEF Identities
<1>8. File'
  <2>1. PICK b \in 0 .. ckpt : FileFrom(b)
    BY DEF OutInv, File
  <2>2. b \in Nat /\ Len(log) \in Nat /\ Len(sent) \in Nat /\ b + Len(log) = Len(sent)
    BY <1>t, <1>0, <2>1 DEF FileFrom, Unconfirmed
  <2>3. ASSUME NEW i \in 1 .. Len(log')
        PROVE  log'[i].seq = b + i /\ log'[i].id = sent'[b + i]
    <3>1. CASE i \in 1 .. Len(log)
      <4>1. b + i \in 1 .. Len(sent) /\ log'[i] = log[i] /\ sent'[b + i] = sent[b + i]
        <5>1. b + i \in 1 .. Len(sent)
          BY <2>2, <3>1
        <5> QED
          BY <1>3, <1>4, <3>1, <5>1
      <4> QED
        <5>1. log[i].seq = b + i /\ (b + i <= Len(sent) => log[i].id = sent[b + i])
          BY <2>1, <3>1 DEF FileFrom
        <5> QED
          BY <4>1, <5>1
    <3>2. CASE i = Len(log) + 1
      <4>1. b + i = Len(sent) + 1
        BY <1>t, <2>2, <3>2
      <4> QED
        BY <1>t, <1>1, <1>3, <1>4, <3>2, <4>1
    <3> QED
      BY <1>t, <1>4, <3>1, <3>2
  <2>4. b + Len(log') = Len(sent')
    <3>1. Len(log') = Len(log) + 1 /\ Len(sent') = Len(sent) + 1
      BY <1>3, <1>4
    <3> QED
      BY <2>2, <3>1
  <2>5. serving' => b <= acked'
    BY <1>2, <2>1 DEF FileFrom
  <2>6. FileFrom(b)'
    BY <1>t, <1>3, <1>4, <2>2, <2>3, <2>4, <2>5 DEF FileFrom
  <2> QED
    BY <1>t, <1>2, <2>6 DEF File
<1>9. Memory'
  <2>1. ASSUME NEW i \in 1 .. Len(events')
        PROVE  events'[i].seq = acked' + i /\ events'[i].id = sent'[acked' + i]
    <3>1. CASE i \in 1 .. Len(events)
      <4>1. acked + i \in 1 .. Len(sent) /\ acked' = acked
        BY <1>t, <1>0, <1>2, <3>1
      <4> QED
        BY <1>t, <1>0, <1>3, <1>5, <3>1, <4>1
    <3>2. CASE i = Len(events) + 1
      <4>1. acked' + i = Len(sent) + 1
        BY <1>t, <1>0, <1>2, <3>2
      <4> QED
        BY <1>t, <1>1, <1>3, <1>5, <3>2, <4>1
    <3> QED
      BY <1>t, <1>5, <3>1, <3>2
  <2>2. Len(events') = Len(sent') - acked' /\ acked' <= ckpt' /\ latest' = Len(sent')
    BY <1>t, <1>0, <1>2, <1>3, <1>5
  <2>3. Len(log') <= bytes'
    BY <1>t, <1>0, <1>2, <1>4
  <2> QED
    BY <1>t, <1>0, <1>2, <2>1, <2>2, <2>3 DEF Memory
<1>10. ckpt' <= Len(sent')
  BY <1>t, <1>2, <1>3
<1> QED
  BY <1>t, <1>6, <1>7, <1>8, <1>9, <1>10 DEF OutInv

\* A write that failed leaves at most one record more in the file.
LEMMA AppendFailsKeeps ==
  ASSUME OutInv, NEW left, AppendFails(left)
  PROVE  OutInv'
<1> DEFINE e == NextEnvelope
<1>t. /\ log \in Seq(Envelope) /\ Len(log) \in Nat /\ events \in Seq(Envelope)
      /\ Len(events) \in Nat /\ sent \in Seq(Nat) /\ Len(sent) \in Nat
      /\ ckpt \in Nat /\ ckpt <= Len(sent) /\ acked \in Nat /\ latest \in Nat
      /\ bytes \in Nat /\ bytes <= MaxBytes /\ born \in Nat /\ MaxBytes \in Nat
      /\ Len(log) <= MaxBytes
      /\ torn \in BOOLEAN /\ serving \in BOOLEAN /\ failed \in BOOLEAN
  BY OutTypes
<1>0. /\ serving /\ ~failed /\ ~torn /\ bytes + 1 <= MaxBytes /\ Len(log) <= bytes
      /\ latest = Len(sent) /\ acked <= ckpt /\ Len(events) = Len(sent) - acked
      /\ \A i \in 1 .. Len(events) :
           events[i].seq = acked + i /\ events[i].id = sent[acked + i]
  <2>1. Limit("critical") \in Nat /\ Limit("critical") <= MaxBytes
    BY LimitBound
  <2>2. serving /\ ~failed /\ bytes + 1 <= Limit("critical")
    BY DEF AppendFails, MayAppend
  <2>3. bytes + 1 <= MaxBytes
    BY <1>t, <2>1, <2>2
  <2> QED
    BY <2>2, <2>3, Zenon DEF OutInv, Memory
<1>1. e \in Envelope /\ e.seq = Len(sent) + 1 /\ e.id = born + 1
  BY <1>t, <1>0 DEF NextEnvelope, Envelope
<1>2. /\ log' = log \/ log' = Append(log, e)
      /\ failed' /\ failed' \in BOOLEAN /\ torn' \in BOOLEAN /\ born' = born + 1
      /\ UNCHANGED <<ckpt, serving, events, acked, latest, bytes, sent>>
  BY <1>t, <1>0, Zenon DEF AppendFails, Written
<1> HIDE DEF e
<1>3. PICK b \in 0 .. ckpt : FileFrom(b)
  BY DEF OutInv, File
<1>4. b \in Nat /\ b + Len(log) = Len(sent)
  BY <1>t, <1>0, <1>3 DEF FileFrom, Unconfirmed
<1>5. Identities'
  <2>1. \A n \in 1 .. Len(sent) : sent[n] \in 1 .. born
    BY DEF OutInv, Identities
  <2>2. 1 .. born \subseteq 1 .. born'
    BY <1>t, <1>2
  <2> QED
    BY <1>2, <2>1, <2>2 DEF OutInv, Identities
<1>6. log' \in Seq(Envelope) /\ Len(log') \in {Len(log), Len(log) + 1}
  <2>1. CASE log' = log
    BY <1>t, <2>1
  <2>2. CASE log' = Append(log, e)
    BY <1>t, <1>1, <2>2, Appended
  <2> QED
    BY <1>2, <2>1, <2>2
<1>7. OutTypeOK'
  <2>1. Len(log') <= MaxBytes
    BY <1>t, <1>0, <1>6
  <2>2. born' \in Nat
    BY <1>t, <1>2
  <2> QED
    BY <1>2, <1>6, <2>1, <2>2, Zenon DEF OutInv, OutTypeOK
<1>8. FileFrom(b)'
  <2>1. CASE log' = log
    BY <1>t, <1>2, <1>3, <1>4, <2>1 DEF FileFrom
  <2>2. CASE log' = Append(log, e)
    <3>1. /\ Len(log') = Len(log) + 1 /\ log'[Len(log) + 1] = e
          /\ \A i \in 1 .. Len(log) : log'[i] = log[i]
      BY <1>t, <1>1, <2>2, Appended
    <3>2. ASSUME NEW i \in 1 .. Len(log')
          PROVE  log'[i].seq = b + i /\ (b + i <= Len(sent) => log'[i].id = sent[b + i])
      <4>1. CASE i \in 1 .. Len(log)
        BY <1>3, <3>1, <4>1 DEF FileFrom
      <4>2. CASE i = Len(log) + 1
        BY <1>t, <1>1, <1>4, <3>1, <4>2
      <4> QED
        BY <1>t, <3>1, <4>1, <4>2
    <3>3. b + Len(log') = Len(sent) + 1
      BY <1>t, <1>4, <3>1
    <3>4. Unconfirmed(log[Len(log)].id)'
      <4>1. log'[Len(log')].id = born + 1
        BY <1>1, <3>1
      <4>2. \A n \in 1 .. Len(sent) : sent[n] # born + 1
        BY <1>t DEF OutInv, Identities
      <4>3. born + 1 \in 1 .. born'
        BY <1>t, <1>2
      <4> QED
        BY <1>2, <4>1, <4>2, <4>3 DEF Unconfirmed
    <3>5. serving' => b <= acked'
      BY <1>2, <1>3 DEF FileFrom
    <3> QED
      BY <1>2, <3>2, <3>3, <3>4, <3>5 DEF FileFrom
  <2> QED
    BY <1>2, <2>1, <2>2
<1>9. File'
  BY <1>2, <1>8 DEF File
<1>10. Memory'
  BY <1>0, <1>2, Zenon DEF Memory
<1>11. ckpt' <= Len(sent')
  BY <1>t, <1>2
<1> QED
  BY <1>5, <1>7, <1>9, <1>10, <1>11 DEF OutInv

\* Ack: the checkpoint, the list in memory and the file, as far as it came.
LEMMA AckKeeps ==
  ASSUME OutInv, NEW n \in Nat, NEW how \in AckSteps, Ack(n, how)
  PROVE  OutInv' /\ ckpt' \in {ckpt, n}
<1>t. /\ log \in Seq(Envelope) /\ Len(log) \in Nat /\ events \in Seq(Envelope)
      /\ Len(events) \in Nat /\ sent \in Seq(Nat) /\ Len(sent) \in Nat
      /\ ckpt \in Nat /\ ckpt <= Len(sent) /\ acked \in Nat /\ latest \in Nat
      /\ bytes \in Nat /\ bytes <= MaxBytes /\ born \in Nat /\ MaxBytes \in Nat
      /\ Len(log) <= MaxBytes
      /\ torn \in BOOLEAN /\ serving \in BOOLEAN /\ failed \in BOOLEAN
  BY OutTypes
<1>0. /\ serving /\ latest = Len(sent) /\ acked <= ckpt /\ Len(events) = Len(sent) - acked
      /\ \A i \in 1 .. Len(events) :
           events[i].seq = acked + i /\ events[i].id = sent[acked + i]
  BY Zenon DEF OutInv, Memory, Ack
<1>1. n > acked /\ n <= Len(sent)
  BY <1>0 DEF Ack, CanAck
<1> DEFINE rest == Unacked(events, n)
<1>2. /\ rest \in Seq(Envelope) /\ Len(rest) = Len(sent) - n
      /\ \A i \in 1 .. Len(rest) : rest[i].seq = n + i /\ rest[i].id = sent[n + i]
  <2>1. acked <= n /\ n <= acked + Len(events)
    BY <1>t, <1>0, <1>1
  <2>2. /\ rest \in Seq(Envelope) /\ Len(rest) = acked + Len(events) - n
        /\ \A i \in 1 .. acked + Len(events) - n : rest[i] = events[n - acked + i]
    <3>1. \A j \in 1 .. Len(events) : events[j].seq = acked + j
      BY <1>0
    <3> QED
      BY <1>t, <2>1, <3>1, UnackedIs
  <2> HIDE DEF rest
  <2>3. Len(rest) = Len(sent) - n /\ Len(rest) = acked + Len(events) - n
    BY <1>t, <1>0, <2>2
  <2>4. ASSUME NEW i \in 1 .. Len(rest) PROVE rest[i].seq = n + i /\ rest[i].id = sent[n + i]
    <3>1. rest[i] = events[n - acked + i]
      BY <2>2, <2>3
    <3>2. n - acked + i \in 1 .. Len(events) /\ acked + (n - acked + i) = n + i
      BY <1>t, <1>0, <1>1, <2>3
    <3> QED
      BY <1>0, <3>1, <3>2
  <2> QED
    BY <2>2, <2>3, <2>4
<1>3. PICK b \in 0 .. ckpt : FileFrom(b)
  BY DEF OutInv, File
<1>4. b \in Nat /\ b <= acked /\ b + Len(log) \in {Len(sent), Len(sent) + 1}
  BY <1>0, <1>3 DEF FileFrom
<1>5. Len(rest) \in Nat /\ Len(rest) <= Len(log) /\ Len(rest) <= MaxBytes
  <2>1. Len(rest) = Len(sent) - n /\ Len(sent) \in Nat /\ Len(log) \in Nat /\ acked \in Nat
        /\ MaxBytes \in Nat /\ Len(log) <= MaxBytes
    BY <1>t, <1>2
  <2> HIDE DEF rest
  <2> QED
    BY <1>1, <1>4, <2>1
<1> HIDE DEF rest
<1>6. /\ UNCHANGED <<serving, latest, failed, sent, born>>
      /\ ckpt' = IF Reached(how, "checkpoint") THEN n ELSE ckpt
      /\ IF Reached(how, "memory") THEN acked' = n /\ events' = rest
                                   ELSE acked' = acked /\ events' = events
      /\ IF Compacts(how) THEN log' = rest /\ torn' = FALSE ELSE log' = log /\ torn' = torn
      /\ bytes' = IF Reached(how, "done") THEN Len(events') ELSE bytes
  BY <1>t DEF Ack, rest
<1>7. /\ ckpt' \in Nat /\ ckpt' <= Len(sent) /\ ckpt' \in {ckpt, n}
      /\ acked' \in Nat /\ acked' <= ckpt' /\ b <= acked'
      /\ Reached(how, "done") => Compacts(how) /\ Reached(how, "memory")
      /\ Compacts(how) => acked' = n
  <2>1. /\ Reached(how, "done") => Compacts(how)
        /\ Compacts(how) => Reached(how, "memory")
        /\ Reached(how, "memory") => Reached(how, "checkpoint")
    BY AckOrder
  <2>2. ckpt' \in {ckpt, n} /\ acked' \in {acked, n} /\ (acked' = n => ckpt' = n \/ acked = n)
    BY <1>6, <2>1
  <2>3. Len(sent) \in Nat /\ ckpt \in Nat /\ acked \in Nat /\ ckpt <= Len(sent)
    BY <1>t
  <2> QED
    BY <1>0, <1>1, <1>4, <1>6, <2>1, <2>2, <2>3
<1>8. /\ events' \in Seq(Envelope) /\ Len(events') = Len(sent) - acked'
      /\ \A i \in 1 .. Len(events') :
           events'[i].seq = acked' + i /\ events'[i].id = sent[acked' + i]
  BY <1>t, <1>0, <1>2, <1>6
<1>9. /\ log' \in Seq(Envelope) /\ Len(log') \in Nat /\ Len(log') <= Len(log)
      /\ bytes' \in Nat /\ bytes' <= MaxBytes /\ torn' \in BOOLEAN
  <2>1. Reached(how, "done") => bytes' = Len(rest)
    BY <1>6, <1>7
  <2> QED
    <3>1. CASE Compacts(how)
      BY <1>t, <1>2, <1>5, <1>6, <2>1, <3>1
    <3>2. CASE ~Compacts(how)
      BY <1>t, <1>6, <1>7, <3>2
    <3> QED
      BY <3>1, <3>2
<1>10. OutTypeOK'
  <2>1. Len(log') <= MaxBytes /\ bytes' \in 0 .. MaxBytes
    BY <1>t, <1>9
  <2> QED
    BY <1>6, <1>7, <1>8, <1>9, <2>1, Zenon DEF OutInv, OutTypeOK
<1>11. Identities'
  BY <1>6 DEF OutInv, Identities
<1>12. File'
  <2>1. CASE Compacts(how)
    <3>1. /\ \A i \in 1 .. Len(log') : log'[i].seq = n + i /\ log'[i].id = sent[n + i]
          /\ n + Len(log') = Len(sent) /\ acked' = n
      BY <1>t, <1>2, <1>6, <1>7, <2>1
    <3>2. FileFrom(n)'
      <4>1. n \in Nat /\ Len(sent) \in Nat /\ sent' = sent
        BY <1>t, <1>6
      <4> QED
        BY <3>1, <4>1 DEF FileFrom
    <3>3. n \in 0 .. ckpt'
      BY <1>7, <3>1
    <3> QED
      BY <3>2, <3>3 DEF File
  <2>2. CASE ~Compacts(how)
    <3>1. log' = log
      BY <1>6, <2>2
    <3>2. FileFrom(b)'
      BY <1>3, <1>6, <1>7, <3>1 DEF FileFrom, Unconfirmed
    <3>3. b \in 0 .. ckpt'
      BY <1>4, <1>7
    <3> QED
      BY <3>2, <3>3 DEF File
  <2> QED
    BY <2>1, <2>2
<1>13. Memory'
  <2>1. torn' => failed' \/ ~serving'
    BY <1>6 DEF OutInv, Memory
  <2>2. ~failed' => Len(log') <= bytes'
    <3>1. CASE Reached(how, "done")
      <4>1. log' = rest /\ bytes' = Len(rest)
        BY <1>6, <1>7, <3>1
      <4> QED
        BY <1>5, <4>1
    <3>2. CASE ~Reached(how, "done")
      <4>1. bytes' = bytes /\ failed' = failed
        BY <1>6, <3>2
      <4>2. ~failed => Len(log) <= bytes
        BY <1>0, Zenon DEF OutInv, Memory
      <4> QED
        BY <1>t, <1>9, <4>1, <4>2
    <3> QED
      BY <3>1, <3>2
  <2> QED
    BY <1>0, <1>6, <1>7, <1>8, <2>1, <2>2 DEF Memory
<1>14. ckpt' <= Len(sent')
  BY <1>6, <1>7
<1> QED
  BY <1>7, <1>10, <1>11, <1>12, <1>13, <1>14 DEF OutInv

\* The process stops: only the file is left.
LEMMA StopKeeps ==
  ASSUME OutInv, StopOutbox
  PROVE  OutInv'
<1>t. /\ log \in Seq(Envelope) /\ Len(log) \in Nat /\ events \in Seq(Envelope)
      /\ Len(events) \in Nat /\ sent \in Seq(Nat) /\ Len(sent) \in Nat
      /\ ckpt \in Nat /\ ckpt <= Len(sent) /\ acked \in Nat /\ latest \in Nat
      /\ bytes \in Nat /\ bytes <= MaxBytes /\ born \in Nat /\ MaxBytes \in Nat
      /\ Len(log) <= MaxBytes
      /\ torn \in BOOLEAN /\ serving \in BOOLEAN /\ failed \in BOOLEAN
  BY OutTypes
<1>1. /\ ~serving' /\ serving' \in BOOLEAN /\ failed' \in BOOLEAN /\ events' = <<>>
      /\ acked' = 0 /\ latest' = 0 /\ bytes' = 0
      /\ UNCHANGED <<log, torn, ckpt, sent, born>>
  BY Zenon DEF StopOutbox
<1>2. OutTypeOK'
  <2>1. 0 \in Nat /\ 0 \in 0 .. MaxBytes /\ <<>> \in Seq(Envelope)
    BY <1>t
  <2> QED
    BY <1>1, <2>1, Zenon DEF OutInv, OutTypeOK
<1>3. File'
  <2>1. PICK b \in 0 .. ckpt : FileFrom(b)
    BY DEF OutInv, File
  <2>2. FileFrom(b)'
    BY <1>1, <2>1 DEF FileFrom, Unconfirmed
  <2> QED
    BY <1>1, <2>2 DEF File
<1>4. Memory'
  BY <1>1 DEF Memory
<1>5. Identities' /\ ckpt' <= Len(sent')
  BY <1>1 DEF OutInv, Identities
<1> QED
  BY <1>2, <1>3, <1>4, <1>5 DEF OutInv

\* Open: the file comes back whole, and a record that was not confirmed is
\* an event now, with an identity nobody has.
LEMMA OpenKeeps ==
  ASSUME OutInv, OpenOutbox
  PROVE  /\ OutInv' /\ ckpt' = ckpt /\ born' = born
         /\ \/ sent' = sent
            \/ \E e \in 1 .. born : /\ sent' = Append(sent, e)
                                    /\ \A n \in 1 .. Len(sent) : sent[n] # e
<1>t. /\ log \in Seq(Envelope) /\ Len(log) \in Nat /\ events \in Seq(Envelope)
      /\ Len(events) \in Nat /\ sent \in Seq(Nat) /\ Len(sent) \in Nat
      /\ ckpt \in Nat /\ ckpt <= Len(sent) /\ acked \in Nat /\ latest \in Nat
      /\ bytes \in Nat /\ bytes <= MaxBytes /\ born \in Nat /\ MaxBytes \in Nat
      /\ Len(log) <= MaxBytes
      /\ torn \in BOOLEAN /\ serving \in BOOLEAN /\ failed \in BOOLEAN
  BY OutTypes
<1>0. /\ ~serving /\ serving' /\ serving' \in BOOLEAN /\ torn' = FALSE /\ acked' = ckpt
      /\ log' = Recovered(log, ckpt) /\ latest' = LatestOf(log', ckpt)
      /\ events' = Unacked(log', ckpt) /\ bytes' = Len(log')
      /\ sent' = IF latest' > Len(sent) THEN Append(sent, log'[Len(log')].id) ELSE sent
      /\ UNCHANGED <<ckpt, failed, born>>
  BY Zenon DEF OpenOutbox
<1>1. PICK b \in 0 .. ckpt : FileFrom(b)
  BY DEF OutInv, File
<1>2. log' = log
  BY <1>t, <1>0, <1>1, RecoversAll
<1>3. b \in Nat /\ b <= ckpt /\ b + Len(log) \in {Len(sent), Len(sent) + 1}
  BY <1>t, <1>1 DEF FileFrom
<1>4. \A i \in 1 .. Len(log) :
        log[i].seq = b + i /\ (b + i <= Len(sent) => log[i].id = sent[b + i])
  BY <1>1 DEF FileFrom
<1>5. latest' = b + Len(log)
  <2>1. CASE log = <<>>
    <3>1. Len(log) = 0 /\ latest' = ckpt
      BY <1>0, <1>2, <2>1 DEF LatestOf
    <3> QED
      BY <1>t, <1>3, <3>1
  <2>2. CASE log # <<>>
    <3>1. Len(log) \in 1 .. Len(log)
      BY <1>t, <2>2
    <3>2. log[Len(log)].seq = b + Len(log)
      BY <1>4, <3>1
    <3>3. latest' = IF log[Len(log)].seq > ckpt THEN log[Len(log)].seq ELSE ckpt
      BY <1>0, <1>2, <2>2 DEF LatestOf
    <3>4. Len(sent) \in Nat /\ ckpt \in Nat /\ ckpt <= Len(sent) /\ Len(log) \in Nat
      BY <1>t
    <3> QED
      BY <1>3, <3>2, <3>3, <3>4
  <2> QED
    BY <2>1, <2>2
<1>6. /\ events' \in Seq(Envelope) /\ Len(events') = b + Len(log) - ckpt
      /\ \A i \in 1 .. b + Len(log) - ckpt : events'[i] = log[ckpt - b + i]
  <2>1. b <= ckpt /\ ckpt <= b + Len(log)
    <3>1. Len(sent) \in Nat /\ ckpt \in Nat /\ ckpt <= Len(sent) /\ Len(log) \in Nat
      BY <1>t
    <3> QED
      BY <1>3, <3>1
  <2>2. events' = Unacked(log, ckpt)
    BY <1>0, <1>2
  <2>3. \A j \in 1 .. Len(log) : log[j].seq = b + j
    BY <1>4
  <2>4. log \in Seq(Envelope) /\ b \in Nat /\ ckpt \in Nat
    BY <1>t, <1>3
  <2>5. /\ Unacked(log, ckpt) \in Seq(Envelope)
        /\ Len(Unacked(log, ckpt)) = b + Len(log) - ckpt
        /\ \A i \in 1 .. b + Len(log) - ckpt : Unacked(log, ckpt)[i] = log[ckpt - b + i]
    BY <2>1, <2>3, <2>4, UnackedIs
  <2> QED
    BY <2>2, <2>5
<1>7. CASE b + Len(log) = Len(sent)
  <2>1. latest' = Len(sent) /\ sent' = sent
    BY <1>t, <1>0, <1>5, <1>7
  <2>2. OutTypeOK'
    <3>1. bytes' \in 0 .. MaxBytes /\ torn' \in BOOLEAN
      <4>1. bytes' = Len(log) /\ torn' = FALSE
        BY <1>0, <1>2
      <4>2. Len(log) \in 0 .. MaxBytes
        BY <1>t
      <4> QED
        BY <4>1, <4>2, Zenon
    <3>2. latest' \in Nat
      BY <1>t, <2>1
    <3> QED
      BY <1>0, <1>2, <1>6, <2>1, <3>1, <3>2, Zenon DEF OutInv, OutTypeOK
  <2>3. File'
    <3>1. Len(sent) \in Nat /\ sent' = sent /\ log' = log /\ acked' = ckpt
      BY <1>t, <1>0, <1>2, <2>1
    <3>2. FileFrom(b)'
      BY <1>3, <1>4, <1>7, <3>1 DEF FileFrom
    <3> QED
      BY <1>0, <3>2 DEF File
  <2>4. ASSUME NEW i \in 1 .. Len(events')
        PROVE  events'[i].seq = acked' + i /\ events'[i].id = sent'[acked' + i]
    <3>1. events'[i] = log[ckpt - b + i]
      BY <1>6
    <3>2. ckpt - b + i \in 1 .. Len(log) /\ b + (ckpt - b + i) = ckpt + i /\ ckpt + i <= Len(sent)
      BY <1>t, <1>3, <1>6, <1>7
    <3> QED
      BY <1>0, <1>4, <2>1, <3>1, <3>2
  <2>5. Len(events') = Len(sent') - acked' /\ acked' <= ckpt' /\ Len(log') <= bytes'
    <3>1. bytes' = Len(log') /\ Len(log') \in Nat /\ ckpt \in Nat /\ acked' = ckpt /\ ckpt' = ckpt
      BY <1>t, <1>0, <1>2
    <3> QED
      BY <1>6, <1>7, <2>1, <3>1
  <2>6. Memory'
    BY <1>0, <2>1, <2>4, <2>5 DEF Memory
  <2>7. Identities' /\ ckpt' <= Len(sent')
    BY <1>0, <2>1 DEF OutInv, Identities
  <2> QED
    BY <1>0, <2>1, <2>2, <2>3, <2>6, <2>7 DEF OutInv
<1>8. CASE b + Len(log) = Len(sent) + 1
  <2> DEFINE e == log[Len(log)].id
  <2>1. Unconfirmed(e)
    BY <1>1, <1>8 DEF FileFrom
  <2>2. e \in 1 .. born /\ e \in Nat /\ \A n \in 1 .. Len(sent) : sent[n] # e
    BY <1>t, <2>1 DEF Unconfirmed
  <2>3. latest' = Len(sent) + 1 /\ sent' = Append(sent, e)
    BY <1>t, <1>0, <1>2, <1>5, <1>8
  <2>4. /\ sent' \in Seq(Nat) /\ Len(sent') = Len(sent) + 1 /\ sent'[Len(sent) + 1] = e
        /\ \A n \in 1 .. Len(sent) : sent'[n] = sent[n]
    BY <1>t, <2>2, <2>3, Appended
  <2>5. Len(log) \in 1 .. Len(log)
    BY <1>t, <1>3, <1>8
  <2>6. ASSUME NEW i \in 1 .. Len(log) PROVE log[i].seq = b + i /\ log[i].id = sent'[b + i]
    <3>1. CASE b + i <= Len(sent)
      <4>1. b + i \in 1 .. Len(sent)
        BY <1>t, <1>3, <3>1
      <4> QED
        BY <1>4, <2>4, <3>1, <4>1
    <3>2. CASE b + i > Len(sent)
      <4>1. i = Len(log) /\ b + i = Len(sent) + 1
        <5>1. Len(log) \in Nat /\ Len(sent) \in Nat /\ i \in Nat /\ i <= Len(log)
          BY <1>t
        <5> QED
          BY <1>3, <1>8, <3>2, <5>1
      <4> QED
        BY <1>4, <2>4, <4>1
    <3> QED
      BY <1>t, <1>3, <3>1, <3>2
  <2> HIDE DEF e
  <2>7. OutTypeOK'
    <3>1. bytes' \in 0 .. MaxBytes /\ torn' \in BOOLEAN
      <4>1. bytes' = Len(log) /\ torn' = FALSE
        BY <1>0, <1>2
      <4>2. Len(log) \in 0 .. MaxBytes
        BY <1>t
      <4> QED
        BY <4>1, <4>2, Zenon
    <3>2. latest' \in Nat
      BY <1>t, <2>3
    <3> QED
      BY <1>0, <1>2, <1>6, <2>4, <3>1, <3>2, Zenon DEF OutInv, OutTypeOK
  <2>8. File'
    <3>1. b \in Nat /\ b + Len(log) = Len(sent') /\ Len(sent') \in Nat /\ log' = log /\ acked' = ckpt
      BY <1>t, <1>0, <1>2, <1>3, <1>8, <2>4
    <3>2. FileFrom(b)'
      BY <1>3, <2>6, <3>1 DEF FileFrom
    <3> QED
      BY <1>0, <3>2 DEF File
  <2>9. ASSUME NEW i \in 1 .. Len(events')
        PROVE  events'[i].seq = acked' + i /\ events'[i].id = sent'[acked' + i]
    <3>1. events'[i] = log[ckpt - b + i]
      BY <1>6
    <3>2. ckpt - b + i \in 1 .. Len(log) /\ b + (ckpt - b + i) = ckpt + i
      BY <1>t, <1>3, <1>6
    <3> QED
      BY <1>0, <2>6, <3>1, <3>2
  <2>10. /\ Len(events') = Len(sent') - acked' /\ acked' <= ckpt' /\ Len(log') <= bytes'
         /\ latest' = Len(sent') /\ ckpt' <= Len(sent')
    BY <1>t, <1>0, <1>2, <1>6, <1>8, <2>3, <2>4
  <2>11. Memory'
    BY <1>0, <2>9, <2>10 DEF Memory
  <2>12. Identities'
    <3>1. \A n \in 1 .. Len(sent') : n \in 1 .. Len(sent) \/ n = Len(sent) + 1
      BY <1>t, <2>4
    <3>2. /\ \A n \in 1 .. Len(sent) : sent[n] \in 1 .. born
          /\ \A m, n \in 1 .. Len(sent) : sent[m] = sent[n] => m = n
      BY DEF OutInv, Identities
    <3>3. \A n \in 1 .. Len(sent') : sent'[n] \in 1 .. born'
      BY <1>0, <2>2, <2>4, <3>1, <3>2
    <3>4. \A m, n \in 1 .. Len(sent') : sent'[m] = sent'[n] => m = n
      BY <2>2, <2>4, <3>1, <3>2
    <3> QED
      BY <3>3, <3>4 DEF Identities
  <2> QED
    BY <1>0, <2>2, <2>3, <2>7, <2>8, <2>10, <2>11, <2>12 DEF OutInv
<1> QED
  BY <1>3, <1>7, <1>8

\* What was confirmed and not checkpointed is in the file.
LEMMA FileHoldsAll ==
  ASSUME OutInv
  PROVE  NothingLost
<1>t. /\ log \in Seq(Envelope) /\ Len(log) \in Nat /\ events \in Seq(Envelope)
      /\ Len(events) \in Nat /\ sent \in Seq(Nat) /\ Len(sent) \in Nat
      /\ ckpt \in Nat /\ ckpt <= Len(sent) /\ acked \in Nat /\ latest \in Nat
      /\ bytes \in Nat /\ bytes <= MaxBytes /\ born \in Nat /\ MaxBytes \in Nat
      /\ Len(log) <= MaxBytes
      /\ torn \in BOOLEAN /\ serving \in BOOLEAN /\ failed \in BOOLEAN
  BY OutTypes
<1>1. PICK b \in 0 .. ckpt : FileFrom(b)
  BY DEF OutInv, File
<1>2. Recovered(log, ckpt) = log
  BY <1>t, <1>1, RecoversAll
<1>3. b \in Nat /\ b <= ckpt /\ b + Len(log) \in {Len(sent), Len(sent) + 1}
  BY <1>t, <1>1 DEF FileFrom
<1> SUFFICES ASSUME NEW n \in ckpt + 1 .. Len(sent)
             PROVE  \E i \in DOMAIN log : log[i] = [seq |-> n, id |-> sent[n]]
  BY <1>2 DEF NothingLost
<1>4. n - b \in 1 .. Len(log) /\ b + (n - b) = n /\ n \in Nat /\ n <= Len(sent)
  BY <1>t, <1>3
<1>5. log[n - b].seq = n /\ log[n - b].id = sent[n]
  BY <1>1, <1>4 DEF FileFrom
<1>6. log[n - b] \in Envelope /\ n - b \in DOMAIN log
  BY <1>t, <1>4
<1>7. log[n - b] = [seq |-> n, id |-> sent[n]]
  BY <1>5, <1>6 DEF Envelope
<1> QED
  BY <1>6, <1>7
=============================================================================

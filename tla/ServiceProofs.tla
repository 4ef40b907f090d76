---------------------------- MODULE ServiceProofs ----------------------------
(***************************************************************************)
(* Services of the server, for any addresses, sessions, keys, callers,     *)
(* clients, limits and times: the temporary administrator tokens           *)
(* (AdminAccess), the cache (Cache), the WebSocket feed (LiveFeed), for    *)
(* one operator at a time the settings (Settings), the queries of the      *)
(* agent (QueryBroker), the buffers of the monitor frames (MonitorBuffer), *)
(* the four limiters (Limits) and the half floats of the positions (Half). *)
(* They share no state; each part has an inductive invariant of its own.   *)
(***************************************************************************)
EXTENDS AdminAccess, Cache, LiveFeed, Settings, QueryBroker, MonitorBuffer, Limits, Half,
        Integers, FiniteSetTheorems, SequenceTheorems, TLAPS

(* Administrator tokens *)

\* The calls of verifyOTP that have judged the code of s to be right.
IssuingOf(s) == {i \in issuing : i.ssid = s}

Approval == [ip : Ips, exp : Nat, status : {"pending", "approved", "denied"}]

AType ==
  /\ opened \subseteq Ssids /\ aclock \in Nat
  /\ DOMAIN otps \subseteq opened /\ DOMAIN approvals \subseteq opened
  /\ failSsid \in [Ssids -> Nat] /\ DOMAIN banSsid \subseteq opened
  /\ issued \in [Ssids -> Nat] /\ handed \in [Ssids -> Nat] /\ wrong \in [Ssids -> Nat]
  /\ \A i \in issuing : i.ssid \in opened
  /\ \A s \in DOMAIN approvals : approvals[s] \in Approval

\* A session that was not requested has no history.
Fresh(s) == issued[s] = 0 /\ handed[s] = 0 /\ wrong[s] = 0 /\ failSsid[s] = 0

\* A session that a code may open: its wrong codes are all counted, and it is gone
\* as soon as they reach the limit.
OtpOpen(s) ==
  /\ issued[s] = 0 /\ handed[s] = 0 /\ IssuingOf(s) = {}
  /\ wrong[s] = failSsid[s] /\ wrong[s] < OtpMaxAttempts /\ s \notin DOMAIN banSsid

\* A session on the operator's list: its token exists once it is approved, and is
\* given out when it leaves the list.
CliOpen(s) ==
  /\ handed[s] = 0 /\ IssuingOf(s) = {} /\ s \notin DOMAIN otps
  /\ issued[s] = IF approvals[s].status = "approved" THEN 1 ELSE 0

AccessInv ==
  /\ AType
  /\ \A s \in Ssids \ opened : Fresh(s)
  /\ \A s \in DOMAIN otps : OtpOpen(s)
  /\ \A s \in DOMAIN approvals : CliOpen(s)
  /\ \A i \in issuing : issued[i.ssid] = 0 /\ handed[i.ssid] = 0
  /\ \A i, j \in issuing : i.ssid = j.ssid => i = j
  /\ \A s \in Ssids : issued[s] <= 1 /\ handed[s] <= issued[s] /\ wrong[s] <= OtpMaxAttempts

\* The properties follow from the invariant.
LEMMA AccessIsSafe == AccessInv => SessionsAreOneUse
<1> SUFFICES ASSUME AccessInv, NEW s \in Ssids
             PROVE  issued[s] + Cardinality(IssuingOf(s)) <= 1
  BY DEF AccessInv, SessionsAreOneUse, IssuingOf
<1>1. issued[s] \in Nat /\ issued[s] <= 1
  BY DEF AccessInv, AType
<1>2. CASE IssuingOf(s) = {}
  BY <1>1, <1>2, FS_EmptySet
<1>3. ASSUME NEW i \in IssuingOf(s) PROVE issued[s] + Cardinality(IssuingOf(s)) <= 1
  <2>1. IssuingOf(s) = {i} /\ issued[s] = 0
    BY <1>3 DEF AccessInv, IssuingOf
  <2>2. Cardinality(IssuingOf(s)) = 1
    BY <2>1, FS_Singleton
  <2> QED
    BY <2>1, <2>2
<1> QED
  BY <1>2, <1>3

\* The start.
LEMMA AccessInit == AInit => AccessInv
<1> SUFFICES ASSUME AInit PROVE AccessInv
  OBVIOUS
<1>1. AType
  BY DEF AInit, AType
<1>2. \A s \in Ssids : Fresh(s)
  BY DEF AInit, Fresh
<1>3. OtpMaxAttempts \in Nat
  BY AdminAssumption
<1> QED
  BY <1>1, <1>2, <1>3 DEF AInit, AccessInv, Fresh

\* Pruning removes sessions and bans, and clears counts of banned sessions only.
LEMMA PruneFacts ==
  ASSUME AccessInv
  PROVE  /\ DOMAIN LiveOtps \subseteq DOMAIN otps
         /\ DOMAIN Without(banSsid, Over(banSsid)) = DOMAIN banSsid \ Over(banSsid)
         /\ Pruned(failSsid, banSsid) \in [Ssids -> Nat]
         /\ \A s \in Ssids : s \notin DOMAIN banSsid => Pruned(failSsid, banSsid)[s] = failSsid[s]
         /\ \A s \in Ssids : failSsid[s] = 0 => Pruned(failSsid, banSsid)[s] = 0
<1>1. failSsid \in [Ssids -> Nat]
  BY DEF AccessInv, AType
<1>2. DOMAIN LiveOtps \subseteq DOMAIN otps
  BY DEF LiveOtps, Without
<1>3. DOMAIN Without(banSsid, Over(banSsid)) = DOMAIN banSsid \ Over(banSsid)
  BY DEF Without
<1>4. Pruned(failSsid, banSsid) = [s \in Ssids |-> IF s \in Over(banSsid) THEN 0 ELSE failSsid[s]]
  BY <1>1 DEF Pruned
<1>5. Over(banSsid) \subseteq DOMAIN banSsid
  BY DEF Over
<1> QED
  BY <1>1, <1>2, <1>3, <1>4, <1>5

\* A step that opens and judges nothing.
LEMMA AccessFrame ==
  ASSUME AccessInv, UNCHANGED <<opened, issuing, issued, handed, wrong>>, aclock' \in Nat,
         DOMAIN otps' \subseteq DOMAIN otps, DOMAIN banSsid' \subseteq DOMAIN banSsid,
         failSsid' \in [Ssids -> Nat],
         \A s \in Ssids : s \notin DOMAIN banSsid => failSsid'[s] = failSsid[s],
         DOMAIN approvals' \subseteq DOMAIN approvals,
         \A s \in DOMAIN approvals' :
           /\ approvals'[s] \in Approval
           /\ approvals[s].status = "approved" <=> approvals'[s].status = "approved"
  PROVE  AccessInv'
<1>1. AType'
  BY DEF AccessInv, AType
<1>2. \A s : IssuingOf(s)' = IssuingOf(s)
  BY DEF IssuingOf
<1>3. \A s \in Ssids' \ opened' : Fresh(s)'
  BY DEF AccessInv, AType, Fresh
<1>4. \A s \in DOMAIN otps' : OtpOpen(s)'
  BY <1>2 DEF AccessInv, AType, OtpOpen
<1>5. \A s \in DOMAIN approvals' : CliOpen(s)'
  BY <1>2 DEF AccessInv, AType, CliOpen
<1> QED
  BY <1>1, <1>3, <1>4, <1>5 DEF AccessInv

\* A session is requested.
LEMMA RequestOtpStep ==
  ASSUME AccessInv, NEW s \in Ssids, RequestOtp(s)
  PROVE  AccessInv'
<1>1. /\ s \notin opened /\ opened' = opened \cup {s}
      /\ otps' = With(LiveOtps, s, aclock + OtpTTL)
      /\ banSsid' = Without(banSsid, Over(banSsid)) /\ failSsid' = Pruned(failSsid, banSsid)
      /\ UNCHANGED <<issuing, approvals, issued, handed, wrong, aclock>>
  BY DEF RequestOtp, PruneBans
<1>2. /\ DOMAIN otps' \subseteq DOMAIN otps \cup {s} /\ DOMAIN banSsid' \subseteq DOMAIN banSsid
      /\ failSsid' \in [Ssids -> Nat]
      /\ \A t \in Ssids : t \notin DOMAIN banSsid => failSsid'[t] = failSsid[t]
  <2>1. DOMAIN otps' = DOMAIN LiveOtps \cup {s}
    BY <1>1 DEF With
  <2> QED
    BY <1>1, <2>1, PruneFacts
<1>3. Fresh(s) /\ s \notin DOMAIN banSsid /\ IssuingOf(s) = {} /\ s \notin DOMAIN approvals
  BY <1>1 DEF AccessInv, AType, IssuingOf
<1>4. AType'
  BY <1>1, <1>2 DEF AccessInv, AType
<1>5. \A t : IssuingOf(t)' = IssuingOf(t)
  BY <1>1 DEF IssuingOf
<1>6. \A t \in Ssids' \ opened' : Fresh(t)'
  BY <1>1, <1>2 DEF AccessInv, AType, Fresh
<1>7. ASSUME NEW t \in DOMAIN otps' PROVE OtpOpen(t)'
  <2>1. CASE t = s
    <3>1. 0 < OtpMaxAttempts
      BY AdminAssumption
    <3>2. t \notin DOMAIN banSsid'
      BY <1>2, <1>3, <2>1
    <3> QED
      BY <1>1, <1>2, <1>3, <1>5, <2>1, <3>1, <3>2 DEF OtpOpen, Fresh
  <2>2. CASE t # s
    <3>1. t \in DOMAIN otps /\ t \in Ssids
      BY <1>2, <2>2 DEF AccessInv, AType
    <3>2. OtpOpen(t)
      BY <3>1 DEF AccessInv
    <3> QED
      BY <1>1, <1>2, <1>5, <3>1, <3>2 DEF OtpOpen
  <2> QED
    BY <2>1, <2>2
<1>8. \A t \in DOMAIN approvals' : CliOpen(t)'
  <2>1. \A t \in DOMAIN approvals : CliOpen(t) /\ t # s
    BY <1>3 DEF AccessInv
  <2> QED
    BY <1>1, <1>2, <1>5, <2>1 DEF CliOpen
<1> QED
  BY <1>1, <1>4, <1>6, <1>7, <1>8 DEF AccessInv

\* An approval is requested.
LEMMA RequestCliStep ==
  ASSUME AccessInv, NEW s \in Ssids, NEW ip \in Ips, RequestCli(s, ip)
  PROVE  AccessInv'
<1> DEFINE rec == [ip |-> ip, exp |-> aclock + OtpTTL, status |-> "pending"]
<1>1. /\ s \notin opened /\ opened' = opened \cup {s} /\ approvals' = With(approvals, s, rec)
      /\ UNCHANGED <<otps, banSsid, failSsid, issuing, issued, handed, wrong, aclock>>
  BY DEF RequestCli, otpVars
<1>2. /\ DOMAIN approvals' = DOMAIN approvals \cup {s} /\ approvals'[s].status = "pending"
      /\ approvals'[s] \in Approval
      /\ \A t \in DOMAIN approvals \ {s} : approvals'[t] = approvals[t]
  <2>1. approvals' = [t \in DOMAIN approvals \cup {s} |-> IF t = s THEN rec ELSE approvals[t]]
    BY <1>1 DEF With
  <2>2. rec \in Approval
    BY AdminAssumption DEF AccessInv, AType, Approval
  <2> QED
    BY <2>1, <2>2
<1>3. Fresh(s) /\ IssuingOf(s) = {} /\ s \notin DOMAIN approvals /\ s \notin DOMAIN otps
  BY <1>1 DEF AccessInv, AType, IssuingOf
<1>4. AType'
  BY <1>1, <1>2 DEF AccessInv, AType
<1>5. \A t : IssuingOf(t)' = IssuingOf(t)
  BY <1>1 DEF IssuingOf
<1>6. \A t \in Ssids' \ opened' : Fresh(t)'
  BY <1>1 DEF AccessInv, Fresh
<1>7. \A t \in DOMAIN otps' : OtpOpen(t)'
  BY <1>1, <1>5 DEF AccessInv, OtpOpen
<1>8. \A t \in DOMAIN approvals' : CliOpen(t)'
  BY <1>1, <1>2, <1>3, <1>5 DEF AccessInv, CliOpen, Fresh
<1> QED
  BY <1>1, <1>4, <1>6, <1>7, <1>8 DEF AccessInv

\* The right code spends the session.
LEMMA VerifyRightStep ==
  ASSUME AccessInv, NEW s \in Ssids, NEW ip, VerifyRight(s, ip)
  PROVE  AccessInv'
<1> DEFINE new == [ssid |-> s, ip |-> ip, exp |-> aclock + TokenTTL]
<1>1. /\ s \in DOMAIN LiveOtps /\ otps' = Without(LiveOtps, {s})
      /\ failSsid' = [Pruned(failSsid, banSsid) EXCEPT ![s] = 0]
      /\ banSsid' = Without(banSsid, Over(banSsid)) /\ issuing' = issuing \cup {new}
      /\ UNCHANGED <<approvals, opened, issued, handed, wrong, aclock>>
  BY DEF VerifyRight, Judged, cliVars, history
<1>2. /\ DOMAIN otps' \subseteq DOMAIN otps \ {s} /\ DOMAIN banSsid' \subseteq DOMAIN banSsid
      /\ s \in DOMAIN otps
  <2>1. DOMAIN otps' = DOMAIN LiveOtps \ {s}
    BY <1>1 DEF Without
  <2> QED
    BY <1>1, <2>1, PruneFacts
<1>3. /\ failSsid' \in [Ssids -> Nat]
      /\ \A t \in Ssids \ {s} : t \notin DOMAIN banSsid => failSsid'[t] = failSsid[t]
  BY <1>1, PruneFacts
<1>4. OtpOpen(s) /\ s \in opened /\ s \notin DOMAIN approvals
  BY <1>2 DEF AccessInv, AType, CliOpen
<1>5. new.ssid = s
  OBVIOUS
<1> HIDE DEF new
<1>6. \A t : t # s => IssuingOf(t)' = IssuingOf(t)
  BY <1>1, <1>5 DEF IssuingOf
<1>7. AType'
  BY <1>1, <1>2, <1>3, <1>4, <1>5 DEF AccessInv, AType
<1>8. \A t \in Ssids' \ opened' : Fresh(t)'
  BY <1>1, <1>3, <1>4 DEF AccessInv, AType, Fresh
<1>9. \A t \in DOMAIN otps' : OtpOpen(t)'
  <2>1. \A t \in DOMAIN otps' : t # s /\ t \in Ssids /\ OtpOpen(t)
    BY <1>2 DEF AccessInv, AType
  <2> QED
    BY <1>1, <1>2, <1>3, <1>6, <2>1 DEF OtpOpen
<1>10. \A t \in DOMAIN approvals' : CliOpen(t)'
  <2>1. \A t \in DOMAIN approvals : t # s /\ CliOpen(t)
    BY <1>4 DEF AccessInv
  <2> QED
    BY <1>1, <1>2, <1>6, <2>1 DEF CliOpen
<1>11. \A i \in issuing' : issued'[i.ssid] = 0 /\ handed'[i.ssid] = 0
  BY <1>1, <1>4, <1>5 DEF AccessInv, OtpOpen
<1>12. \A i, j \in issuing' : i.ssid = j.ssid => i = j
  BY <1>1, <1>4, <1>5 DEF AccessInv, OtpOpen, IssuingOf
<1> QED
  BY <1>1, <1>7, <1>8, <1>9, <1>10, <1>11, <1>12 DEF AccessInv

\* A wrong code is counted; the last one closes the session.
LEMMA VerifyWrongStep ==
  ASSUME AccessInv, NEW s \in Ssids, NEW ip, VerifyWrong(s, ip)
  PROVE  AccessInv'
<1>1. /\ s \in DOMAIN LiveOtps /\ failSsid' = Plus1(Pruned(failSsid, banSsid), s)
      /\ wrong' = Plus1(wrong, s)
      /\ UNCHANGED <<issuing, approvals, opened, issued, handed, aclock>>
  BY DEF VerifyWrong, Judged, cliVars
<1>2. s \in DOMAIN otps /\ OtpOpen(s) /\ s \in opened /\ s \notin DOMAIN approvals
  BY <1>1, PruneFacts DEF AccessInv, AType, CliOpen
<1>3. /\ failSsid' \in [Ssids -> Nat] /\ failSsid'[s] = failSsid[s] + 1
      /\ \A t \in Ssids \ {s} : t \notin DOMAIN banSsid => failSsid'[t] = failSsid[t]
  BY <1>1, <1>2, PruneFacts DEF Plus1, OtpOpen
<1>4. /\ wrong' \in [Ssids -> Nat] /\ wrong'[s] = wrong[s] + 1
      /\ \A t \in Ssids \ {s} : wrong'[t] = wrong[t]
  BY <1>1 DEF Plus1, AccessInv, AType
<1>5. \/ /\ failSsid'[s] >= OtpMaxAttempts
         /\ banSsid' = With(Without(banSsid, Over(banSsid)), s, aclock + BanTTL)
         /\ otps' = Without(LiveOtps, {s})
      \/ /\ ~(failSsid'[s] >= OtpMaxAttempts)
         /\ banSsid' = Without(banSsid, Over(banSsid)) /\ otps' = LiveOtps
  BY DEF VerifyWrong
<1>6. /\ DOMAIN otps' \subseteq DOMAIN otps /\ DOMAIN banSsid' \subseteq DOMAIN banSsid \cup {s}
      /\ s \in DOMAIN otps' =>
           ~(failSsid'[s] >= OtpMaxAttempts) /\ DOMAIN banSsid' \subseteq DOMAIN banSsid
  <2> DEFINE left == DOMAIN banSsid \ Over(banSsid)
  <2>1. DOMAIN Without(banSsid, Over(banSsid)) = left
    BY PruneFacts
  <2>2. DOMAIN With(Without(banSsid, Over(banSsid)), s, aclock + BanTTL) = left \cup {s}
    BY <2>1 DEF With
  <2>3. DOMAIN Without(LiveOtps, {s}) = DOMAIN LiveOtps \ {s}
    BY DEF Without
  <2>4. DOMAIN LiveOtps \subseteq DOMAIN otps /\ left \subseteq DOMAIN banSsid
    BY PruneFacts
  <2> HIDE DEF left
  <2> QED
    BY <1>5, <2>1, <2>2, <2>3, <2>4, Zenon
<1>7. \A t : IssuingOf(t)' = IssuingOf(t)
  BY <1>1 DEF IssuingOf
<1>8. AType'
  BY <1>1, <1>2, <1>3, <1>4, <1>6 DEF AccessInv, AType
<1>9. \A t \in Ssids' \ opened' : Fresh(t)'
  BY <1>1, <1>2, <1>3, <1>4 DEF AccessInv, AType, Fresh
<1>10. ASSUME NEW t \in DOMAIN otps' PROVE OtpOpen(t)'
  <2>1. t \in DOMAIN otps /\ t \in Ssids /\ OtpOpen(t)
    BY <1>6 DEF AccessInv, AType
  <2>2. CASE t = s
    <3>1. wrong'[t] = failSsid'[t] /\ wrong'[t] \in Nat /\ OtpMaxAttempts \in Nat
      BY <1>2, <1>3, <1>4, <2>2, AdminAssumption DEF OtpOpen
    <3>2. wrong'[t] < OtpMaxAttempts
      BY <1>6, <2>2, <3>1
    <3>3. t \notin DOMAIN banSsid'
      BY <1>6, <2>1, <2>2 DEF OtpOpen
    <3> QED
      BY <1>1, <1>7, <2>1, <3>1, <3>2, <3>3 DEF OtpOpen
  <2>3. CASE t # s
    BY <1>1, <1>3, <1>4, <1>6, <1>7, <2>1, <2>3 DEF OtpOpen
  <2> QED
    BY <2>2, <2>3
<1>11. \A t \in DOMAIN approvals' : CliOpen(t)'
  <2>1. \A t \in DOMAIN approvals : CliOpen(t)
    BY DEF AccessInv
  <2> QED
    BY <1>1, <1>6, <1>7, <2>1 DEF CliOpen
<1>12. wrong'[s] <= OtpMaxAttempts
  <2>1. wrong[s] \in Nat /\ wrong[s] < OtpMaxAttempts /\ OtpMaxAttempts \in Nat
    BY <1>2, AdminAssumption DEF OtpOpen, AccessInv, AType
  <2> QED
    BY <1>4, <2>1
<1>13. \A t \in Ssids : issued'[t] <= 1 /\ handed'[t] <= issued'[t] /\ wrong'[t] <= OtpMaxAttempts
  BY <1>1, <1>4, <1>12 DEF AccessInv
<1> QED
  BY <1>1, <1>8, <1>9, <1>10, <1>11, <1>13 DEF AccessInv

\* The token of a session that a code has opened.
LEMMA StoreTokenStep ==
  ASSUME AccessInv, NEW i \in issuing, StoreToken(i)
  PROVE  AccessInv'
<1> DEFINE s == i.ssid
<1>1. /\ issuing' = issuing \ {i} /\ issued' = Plus1(issued, s) /\ handed' = Plus1(handed, s)
      /\ UNCHANGED <<otps, failSsid, banSsid, approvals, opened, wrong, aclock>>
  BY DEF StoreToken, otpVars
<1>2. s \in Ssids /\ s \in opened /\ issued[s] = 0 /\ handed[s] = 0 /\ i \in IssuingOf(s)
  BY DEF AccessInv, AType, IssuingOf
<1>3. s \notin DOMAIN otps /\ s \notin DOMAIN approvals
  BY <1>2 DEF AccessInv, OtpOpen, CliOpen
<1> HIDE DEF s
<1>4. /\ issued' \in [Ssids -> Nat] /\ issued'[s] = 1 /\ \A t \in Ssids \ {s} : issued'[t] = issued[t]
      /\ handed' \in [Ssids -> Nat] /\ handed'[s] = 1 /\ \A t \in Ssids \ {s} : handed'[t] = handed[t]
  BY <1>1, <1>2 DEF Plus1, AccessInv, AType
<1>5. \A t : t # s => IssuingOf(t)' = IssuingOf(t)
  BY <1>1 DEF IssuingOf, s
<1>6. AType'
  BY <1>1, <1>4 DEF AccessInv, AType
<1>7. \A t \in Ssids' \ opened' : Fresh(t)'
  BY <1>1, <1>2, <1>4 DEF AccessInv, Fresh
<1>8. \A t \in DOMAIN otps' : OtpOpen(t)'
  <2>1. \A t \in DOMAIN otps : t # s /\ t \in Ssids /\ OtpOpen(t)
    BY <1>3 DEF AccessInv, AType
  <2> QED
    BY <1>1, <1>4, <1>5, <2>1 DEF OtpOpen
<1>9. \A t \in DOMAIN approvals' : CliOpen(t)'
  <2>1. \A t \in DOMAIN approvals : t # s /\ t \in Ssids /\ CliOpen(t)
    BY <1>3 DEF AccessInv, AType
  <2> QED
    BY <1>1, <1>4, <1>5, <2>1 DEF CliOpen
<1>10. \A j \in issuing' : j.ssid # s /\ j.ssid \in Ssids /\ issued[j.ssid] = 0 /\ handed[j.ssid] = 0
  BY <1>1 DEF AccessInv, AType, s
<1>11. \A j \in issuing' : issued'[j.ssid] = 0 /\ handed'[j.ssid] = 0
  BY <1>4, <1>10
<1>12. \A j, k \in issuing' : j.ssid = k.ssid => j = k
  BY <1>1 DEF AccessInv
<1>13. \A t \in Ssids : issued'[t] <= 1 /\ handed'[t] <= issued'[t] /\ wrong'[t] <= OtpMaxAttempts
  BY <1>1, <1>4 DEF AccessInv
<1> QED
  BY <1>6, <1>7, <1>8, <1>9, <1>11, <1>12, <1>13 DEF AccessInv

\* The operator approves, or finds the session late.
LEMMA ApproveStep ==
  ASSUME AccessInv, NEW s \in Ssids, Approve(s)
  PROVE  AccessInv'
<1>0. /\ UNCHANGED <<otps, failSsid, banSsid, issuing, opened, handed, wrong, aclock>>
      /\ s \in DOMAIN approvals
  BY DEF Approve, otpVars
<1>t. aclock \in Nat /\ failSsid \in [Ssids -> Nat] /\ issued \in [Ssids -> Nat] /\ s \in opened
  BY <1>0 DEF AccessInv, AType
<1>1. CASE approvals' = Without(approvals, {s}) /\ issued' = issued
  <2>1. /\ DOMAIN approvals' \subseteq DOMAIN approvals
        /\ \A t \in DOMAIN approvals' : approvals'[t] = approvals[t]
    BY <1>1 DEF Without
  <2>2. \A t \in DOMAIN approvals' : approvals'[t] \in Approval
    BY <2>1 DEF AccessInv, AType
  <2> QED
    BY <1>0, <1>t, <1>1, <2>1, <2>2, AccessFrame
<1>2. CASE /\ approvals[s].status = "pending"
           /\ approvals' = [approvals EXCEPT ![s].status = "approved"] /\ issued' = Plus1(issued, s)
  <2>1. CliOpen(s) /\ issued[s] = 0
    BY <1>0, <1>2 DEF AccessInv, CliOpen
  <2>2. issued' \in [Ssids -> Nat] /\ issued'[s] = 1 /\ \A t \in Ssids \ {s} : issued'[t] = issued[t]
    BY <1>t, <1>2, <2>1 DEF Plus1
  <2>3. /\ DOMAIN approvals' = DOMAIN approvals /\ approvals'[s].status = "approved"
        /\ approvals'[s] \in Approval
        /\ \A t \in DOMAIN approvals \ {s} : approvals'[t] = approvals[t]
    <3>1. approvals' = [t \in DOMAIN approvals |->
                          IF t = s THEN [approvals[s] EXCEPT !.status = "approved"] ELSE approvals[t]]
      BY <1>2
    <3>2. s \in DOMAIN approvals
      BY <1>0
    <3>3. approvals'[s].status = "approved" /\ approvals'[s] \in Approval
      <4>1. approvals[s] \in Approval
        BY <1>0 DEF AccessInv, AType
      <4>2. approvals'[s] = [approvals[s] EXCEPT !.status = "approved"]
        BY <3>1, <3>2
      <4> QED
        BY <4>1, <4>2 DEF Approval
    <3> QED
      BY <3>1, <3>3
  <2>4. \A t : IssuingOf(t)' = IssuingOf(t)
    BY <1>0 DEF IssuingOf
  <2>5. AType'
    BY <1>0, <2>2, <2>3 DEF AccessInv, AType
  <2>6. \A t \in Ssids' \ opened' : Fresh(t)'
    BY <1>0, <1>t, <2>2 DEF AccessInv, Fresh
  <2>7. \A t \in DOMAIN otps' : OtpOpen(t)'
    <3>1. \A t \in DOMAIN otps : t # s /\ t \in Ssids /\ OtpOpen(t)
      BY <2>1 DEF AccessInv, AType, CliOpen
    <3> QED
      BY <1>0, <2>2, <2>4, <3>1 DEF OtpOpen
  <2>8. \A t \in DOMAIN approvals' : CliOpen(t)'
    <3>1. \A t \in DOMAIN approvals : t \in Ssids /\ CliOpen(t)
      BY DEF AccessInv, AType
    <3> QED
      BY <1>0, <2>2, <2>3, <2>4, <3>1 DEF CliOpen
  <2>9. \A i \in issuing' : i.ssid # s /\ i.ssid \in Ssids
    BY <1>0, <2>1 DEF AccessInv, AType, CliOpen, IssuingOf
  <2>10. \A i \in issuing' : issued'[i.ssid] = 0 /\ handed'[i.ssid] = 0
    BY <1>0, <2>2, <2>9 DEF AccessInv
  <2>11. \A t \in Ssids : issued'[t] <= 1 /\ handed'[t] <= issued'[t] /\ wrong'[t] <= OtpMaxAttempts
    BY <1>0, <2>1, <2>2 DEF AccessInv, CliOpen
  <2> QED
    BY <1>0, <2>5, <2>6, <2>7, <2>8, <2>10, <2>11 DEF AccessInv
<1> QED
  BY <1>1, <1>2 DEF Approve

\* The client is answered, once.
LEMMA VerifyCliStep ==
  ASSUME AccessInv, NEW s \in Ssids, NEW ip, VerifyCli(s, ip)
  PROVE  AccessInv'
<1>0. /\ UNCHANGED <<otps, failSsid, banSsid, issuing, opened, issued, wrong, aclock>>
      /\ s \in DOMAIN approvals /\ approvals' = Without(approvals, {s})
      /\ handed' = IF ~Late(s) /\ approvals[s].status = "approved" THEN Plus1(handed, s) ELSE handed
  BY DEF VerifyCli, otpVars
<1>t. /\ aclock \in Nat /\ failSsid \in [Ssids -> Nat] /\ handed \in [Ssids -> Nat]
      /\ s \in opened /\ CliOpen(s)
  BY <1>0 DEF AccessInv, AType
<1>1. /\ DOMAIN approvals' = DOMAIN approvals \ {s}
      /\ \A t \in DOMAIN approvals' : approvals'[t] = approvals[t]
  BY <1>0 DEF Without
<1>2. CASE handed' = handed
  <2>1. \A t \in DOMAIN approvals' : approvals'[t] \in Approval
    BY <1>1 DEF AccessInv, AType
  <2> QED
    BY <1>0, <1>t, <1>1, <1>2, <2>1, AccessFrame
<1>3. CASE approvals[s].status = "approved" /\ handed' = Plus1(handed, s)
  <2>1. issued[s] = 1 /\ handed[s] = 0
    BY <1>t, <1>3 DEF CliOpen
  <2>2. handed' \in [Ssids -> Nat] /\ handed'[s] = 1 /\ \A t \in Ssids \ {s} : handed'[t] = handed[t]
    BY <1>t, <1>3, <2>1 DEF Plus1
  <2>3. \A t : IssuingOf(t)' = IssuingOf(t)
    BY <1>0 DEF IssuingOf
  <2>4. AType'
    BY <1>0, <1>1, <2>2 DEF AccessInv, AType
  <2>5. \A t \in Ssids' \ opened' : Fresh(t)'
    BY <1>0, <1>t, <2>2 DEF AccessInv, Fresh
  <2>6. \A t \in DOMAIN otps' : OtpOpen(t)'
    <3>1. \A t \in DOMAIN otps : t # s /\ t \in Ssids /\ OtpOpen(t)
      BY <1>t DEF AccessInv, AType, CliOpen
    <3> QED
      BY <1>0, <2>2, <2>3, <3>1 DEF OtpOpen
  <2>7. \A t \in DOMAIN approvals' : CliOpen(t)'
    <3>1. \A t \in DOMAIN approvals' : t # s /\ t \in Ssids /\ CliOpen(t)
      BY <1>1 DEF AccessInv, AType
    <3> QED
      BY <1>0, <1>1, <2>2, <2>3, <3>1 DEF CliOpen
  <2>8. \A i \in issuing' : i.ssid # s /\ i.ssid \in Ssids
    BY <1>0, <1>t DEF AccessInv, AType, CliOpen, IssuingOf
  <2>9. \A i \in issuing' : issued'[i.ssid] = 0 /\ handed'[i.ssid] = 0
    BY <1>0, <2>2, <2>8 DEF AccessInv
  <2>10. \A t \in Ssids : issued'[t] <= 1 /\ handed'[t] <= issued'[t] /\ wrong'[t] <= OtpMaxAttempts
    BY <1>0, <2>1, <2>2 DEF AccessInv
  <2> QED
    BY <1>0, <2>4, <2>5, <2>6, <2>7, <2>9, <2>10 DEF AccessInv
<1> QED
  BY <1>0, <1>2, <1>3

\* Denials, pruning, cleanups, checks and the clock.
LEMMA AccessQuiet ==
  ASSUME AccessInv,
         \/ \E s \in Ssids : Deny(s)
         \/ \E s \in Ssids, ip \in Ips : CheckTemp(s, ip)
         \/ \E ip \in Ips, right \in BOOLEAN : CheckStatic(ip, right)
         \/ PruneOnly \/ Pending \/ RunCleanup \/ ConfigureToken \/ ATick
         \/ UNCHANGED aVars
  PROVE  AccessInv'
<1>t. aclock \in Nat /\ failSsid \in [Ssids -> Nat]
  BY DEF AccessInv, AType
<1>1. UNCHANGED <<opened, issuing, issued, handed, wrong>>
  BY Zenon DEF Deny, CheckTemp, CheckStatic, PruneOnly, Pending, RunCleanup, ConfigureToken, ATick,
    aVars, history
<1>2. aclock' \in Nat
  <2>1. aclock' = aclock \/ aclock' = aclock + 1
    BY Zenon DEF Deny, CheckTemp, CheckStatic, PruneOnly, Pending, RunCleanup, ConfigureToken, ATick,
      aVars
  <2> QED
    BY <1>t, <2>1
<1>3. \/ UNCHANGED <<otps, banSsid, failSsid>>
      \/ otps' = LiveOtps /\ PruneBans
  BY Zenon DEF Deny, CheckTemp, CheckStatic, PruneOnly, Pending, RunCleanup, ConfigureToken, ATick,
    aVars, otpVars
<1>4. /\ DOMAIN otps' \subseteq DOMAIN otps /\ DOMAIN banSsid' \subseteq DOMAIN banSsid
      /\ failSsid' \in [Ssids -> Nat]
      /\ \A s \in Ssids : s \notin DOMAIN banSsid => failSsid'[s] = failSsid[s]
  BY <1>t, <1>3, PruneFacts DEF PruneBans
<1>5. \/ approvals' = approvals
      \/ \E ks : approvals' = Without(approvals, ks)
      \/ \E s \in Ssids : Deny(s)
  BY Zenon DEF CheckTemp, CheckStatic, PruneOnly, Pending, RunCleanup, ConfigureToken, ATick,
    aVars, cliVars
<1>6. /\ DOMAIN approvals' \subseteq DOMAIN approvals
      /\ \A s \in DOMAIN approvals' :
           /\ approvals'[s] \in Approval
           /\ approvals[s].status = "approved" <=> approvals'[s].status = "approved"
  <2>0. \A s \in DOMAIN approvals : approvals[s] \in Approval
    BY DEF AccessInv, AType
  <2>1. CASE approvals' = approvals
    BY <2>0, <2>1
  <2>2. ASSUME NEW ks, approvals' = Without(approvals, ks)
        PROVE  /\ DOMAIN approvals' \subseteq DOMAIN approvals
               /\ \A s \in DOMAIN approvals' : approvals[s] = approvals'[s]
    BY <2>2 DEF Without
  <2>3. ASSUME NEW s \in Ssids, Deny(s)
        PROVE  /\ DOMAIN approvals' = DOMAIN approvals
               /\ \A t \in DOMAIN approvals \ {s} : approvals[t] = approvals'[t]
               /\ approvals[s].status # "approved" /\ approvals'[s].status # "approved"
               /\ approvals'[s] \in Approval
    <3>1. /\ s \in DOMAIN approvals /\ approvals[s].status = "pending"
          /\ approvals' = [approvals EXCEPT ![s].status = "denied"]
      BY <2>3 DEF Deny
    <3>2. approvals'[s] = [approvals[s] EXCEPT !.status = "denied"]
      BY <3>1
    <3>3. approvals[s] \in Approval
      BY <2>0, <3>1
    <3>4. approvals'[s].status = "denied" /\ approvals'[s] \in Approval
      BY <3>2, <3>3 DEF Approval
    <3> QED
      BY <3>1, <3>4
  <2> QED
    BY <1>5, <2>0, <2>1, <2>2, <2>3
<1> QED
  BY <1>1, <1>2, <1>4, <1>6, AccessFrame

\* The invariant always holds.
LEMMA AccessStep == AccessInv /\ [ANext]_aVars => AccessInv'
<1> SUFFICES ASSUME AccessInv, [ANext]_aVars PROVE AccessInv'
  OBVIOUS
<1> QED
  BY RequestOtpStep, RequestCliStep, VerifyRightStep, VerifyWrongStep, StoreTokenStep, ApproveStep,
    VerifyCliStep, AccessQuiet, Zenon DEF ANext

\* A session for administrator access yields at most one token, which is given out at
\* most once, and stands at most OtpMaxAttempts wrong codes, from whatever addresses
\* they come and however bans expire (verifyOTP, cmdApprove, verifyCLIApproval).
THEOREM AccessIsOneUse == ASpec => []SessionsAreOneUse
BY AccessInit, AccessStep, AccessIsSafe, PTL DEF ASpec

-----------------------------------------------------------------------------
(* The cache *)

CacheEntry == [at : Nat, used : Nat]

\* What the file and the memory hold beyond what has expired is the same.
SameAlive ==
  \A k : /\ (k \in DOMAIN file /\ ~Expired(file[k])) <=> (k \in DOMAIN mem /\ ~Expired(mem[k].at))
         /\ (k \in DOMAIN file /\ ~Expired(file[k])) => (file[k] = mem[k].at)

CType ==
  /\ clock \in Nat /\ accesses \in Nat
  /\ \A k \in DOMAIN mem : mem[k] \in CacheEntry
  /\ \A k \in DOMAIN file : file[k] \in Nat

\* A timer that runs has a save to do, and without one the file is up to date.
CacheInv ==
  /\ CType
  /\ saveTimer => cpending
  /\ (~redis /\ ~saveTimer /\ fileOk) => SameAlive

\* The property follows from the invariant.
LEMMA CacheIsSafe == CacheInv => DiskFollows
<1> SUFFICES ASSUME CacheInv, ~redis, ~saveTimer, fileOk PROVE Alive(file) = Alive(Times(mem))
  BY DEF DiskFollows
<1>1. SameAlive
  BY DEF CacheInv
<1>2. DOMAIN Times(mem) = DOMAIN mem /\ \A k \in DOMAIN mem : Times(mem)[k] = mem[k].at
  BY DEF Times
<1>3. {i \in DOMAIN file : ~Expired(file[i])} = {i \in DOMAIN Times(mem) : ~Expired(Times(mem)[i])}
  BY <1>1, <1>2 DEF SameAlive
<1>4. \A k \in {i \in DOMAIN file : ~Expired(file[i])} : file[k] = Times(mem)[k]
  BY <1>1, <1>2 DEF SameAlive
<1> QED
  BY <1>3, <1>4 DEF Alive

\* The start.
LEMMA CacheInit == CInit => CacheInv
  BY DEF CInit, CacheInv, CType, SameAlive

\* A lookup drops what has expired and notes the access of what has not.
LEMMA GetOrSetStep ==
  ASSUME CacheInv, NEW c \in CCallers, NEW k \in CKeys, GetOrSet(c, k)
  PROVE  CacheInv'
<1>1. accesses' = accesses + 1 /\ UNCHANGED <<file, fileOk, saveTimer, cpending, redis, clock>>
  BY DEF GetOrSet
<1>2. \/ mem' = mem
      \/ k \in DOMAIN mem /\ ~Expired(mem[k].at) /\ mem' = [mem EXCEPT ![k].used = accesses']
      \/ ~(k \in DOMAIN mem /\ ~Expired(mem[k].at)) /\ mem' = Drop(mem, {k})
  BY DEF GetOrSet
<1>t. clock \in Nat /\ accesses \in Nat /\ \A i \in DOMAIN mem : mem[i] \in [at : Nat, used : Nat]
  BY DEF CacheInv, CType, CacheEntry
<1>3. /\ \A i \in DOMAIN mem' : i \in DOMAIN mem /\ mem'[i] \in [at : Nat, used : Nat] /\ mem'[i].at = mem[i].at
      /\ \A i \in DOMAIN mem : ~Expired(mem[i].at) => i \in DOMAIN mem'
  <2>1. CASE mem' = mem
    BY <1>t, <2>1
  <2>2. CASE k \in DOMAIN mem /\ mem' = [mem EXCEPT ![k].used = accesses']
    BY <1>1, <1>t, <2>2
  <2>3. CASE ~(k \in DOMAIN mem /\ ~Expired(mem[k].at)) /\ mem' = Drop(mem, {k})
    BY <1>t, <2>3 DEF Drop
  <2> QED
    BY <1>2, <2>1, <2>2, <2>3
<1>4. CType'
  BY <1>1, <1>3 DEF CacheInv, CType, CacheEntry
<1>5. SameAlive => SameAlive'
  BY <1>1, <1>3 DEF SameAlive, Expired
<1> QED
  BY <1>1, <1>4, <1>5 DEF CacheInv

\* A value is stored, and the save it needs is scheduled.
LEMMA FetchOkStep ==
  ASSUME CacheInv, NEW c \in CCallers, FetchOk(c)
  PROVE  CacheInv'
<1> DEFINE k == caller[c].key
           m == Put(mem, k, [at |-> clock, used |-> accesses'])
<1>1. accesses' = accesses + 1 /\ UNCHANGED <<file, fileOk, redis, clock>>
  BY DEF FetchOk
<1>2. \/ UNCHANGED <<mem, saveTimer, cpending>>
      \/ mem' \in Evicted(m) /\ saveTimer' = TRUE /\ cpending' = TRUE
  BY DEF FetchOk, SetLocal, ScheduleSave
<1>t. clock \in Nat /\ accesses \in Nat /\ \A i \in DOMAIN mem : mem[i] \in [at : Nat, used : Nat]
  BY DEF CacheInv, CType, CacheEntry
<1>3. CASE UNCHANGED <<mem, saveTimer, cpending>>
  BY <1>1, <1>3, <1>t DEF CacheInv, CType, SameAlive, Expired
<1>4. CASE mem' \in Evicted(m) /\ saveTimer' = TRUE /\ cpending' = TRUE
  <2>1. \A i \in DOMAIN m : m[i] \in [at : Nat, used : Nat]
    BY <1>1, <1>t DEF Put
  <2> HIDE DEF m
  <2>2. mem' = m \/ \E j : mem' = Drop(m, {j})
    BY <1>4 DEF Evicted
  <2>3. \A i \in DOMAIN mem' : mem'[i] \in [at : Nat, used : Nat]
    BY <2>1, <2>2 DEF Drop
  <2> QED
    BY <1>1, <1>4, <1>t, <2>3 DEF CacheInv, CType, CacheEntry
<1> QED
  BY <1>2, <1>3, <1>4

\* An entry near its end is deleted, and the save scheduled.
LEMMA DeleteStep ==
  ASSUME CacheInv, NEW k \in CKeys, Delete(k)
  PROVE  CacheInv'
<1>1. mem' = Drop(mem, {k}) /\ saveTimer' = TRUE /\ cpending' = TRUE /\ UNCHANGED <<file, fileOk, accesses, clock>>
  BY DEF Delete, ScheduleSave
<1>2. \A i \in DOMAIN mem' : i \in DOMAIN mem /\ mem'[i] = mem[i]
  BY <1>1 DEF Drop
<1> QED
  BY <1>1, <1>2 DEF CacheInv, CType

\* The save: it brings the file up to date, or fails.
LEMMA SaveFiresStep == ASSUME CacheInv, SaveFires PROVE CacheInv'
<1>1. saveTimer /\ cpending /\ saveTimer' = FALSE /\ UNCHANGED <<mem, accesses, redis, clock>>
  BY DEF SaveFires, CacheInv
<1>2. (file' = Times(mem) /\ fileOk' = TRUE) \/ (file' = file /\ fileOk' = FALSE)
  BY <1>1 DEF SaveFires, Flush
<1>3. CASE file' = file /\ fileOk' = FALSE
  BY <1>1, <1>3 DEF CacheInv, CType
<1>4. CASE file' = Times(mem)
  <2>1. DOMAIN file' = DOMAIN mem' /\ \A k \in DOMAIN mem' : file'[k] = mem'[k].at
    BY <1>1, <1>4 DEF Times
  <2>2. SameAlive'
    BY <2>1 DEF SameAlive, Expired
  <2>3. CType'
    BY <1>1, <2>1 DEF CacheInv, CType, CacheEntry
  <2> QED
    BY <1>1, <2>2, <2>3 DEF CacheInv
<1> QED
  BY <1>2, <1>3, <1>4

\* A restart reads what the file holds and has not expired.
LEMMA CacheRestartStep == ASSUME CacheInv, NEW b \in BOOLEAN, Restart(b) PROVE CacheInv'
<1> DEFINE live == {k \in DOMAIN file : ~Expired(file[k])}
<1>1. saveTimer' = FALSE /\ redis' = b /\ UNCHANGED <<file, fileOk, accesses, clock>>
  BY DEF Restart
<1>2. mem' = IF b THEN <<>> ELSE [k \in live |-> [at |-> file[k], used |-> accesses]]
  BY DEF Restart
<1>3. CType'
  BY <1>1, <1>2 DEF CacheInv, CType, CacheEntry
<1>4. ~b => SameAlive'
  <2> SUFFICES ASSUME ~b PROVE SameAlive'
    OBVIOUS
  <2>1. DOMAIN mem' = live /\ \A k \in live : mem'[k].at = file[k]
    BY <1>2
  <2>2. \A k : k \in live <=> (k \in DOMAIN file' /\ ~Expired(file[k]))
    BY <1>1
  <2> HIDE DEF live
  <2>3. DOMAIN file' = DOMAIN file /\ \A k \in live : ~Expired(mem'[k].at)
    BY <1>1, <2>1, <2>2
  <2>4. \A k : /\ (k \in DOMAIN file' /\ ~Expired(file'[k])) <=> (k \in DOMAIN mem' /\ ~Expired(mem'[k].at))
               /\ (k \in DOMAIN file' /\ ~Expired(file'[k])) => (file'[k] = mem'[k].at)
    BY <1>1, <2>1, <2>2, <2>3
  <2> QED
    BY <1>1, <2>4 DEF SameAlive, Expired
<1> QED
  BY <1>1, <1>3, <1>4 DEF CacheInv

\* As time passes what has expired stays so, in the file as in the memory.
LEMMA CTickStep == ASSUME CacheInv, CTick PROVE CacheInv'
<1>1. clock' = clock + 1 /\ UNCHANGED <<mem, file, fileOk, saveTimer, cpending, accesses, redis>>
  BY DEF CTick
<1>t. /\ clock \in Nat /\ CTTL \in Nat
      /\ \A k \in DOMAIN mem : mem[k].at \in Nat
      /\ \A k \in DOMAIN file : file[k] \in Nat
  BY CAssumption DEF CacheInv, CType, CacheEntry
<1>2. CType'
  BY <1>1 DEF CacheInv, CType
<1>3. \A t \in Nat : (clock + 1) - t > CTTL \/ (~((clock + 1) - t > CTTL) /\ ~(clock - t > CTTL))
  BY <1>t
<1>4. SameAlive => SameAlive'
  BY <1>1, <1>t, <1>3 DEF SameAlive, Expired
<1> QED
  BY <1>1, <1>2, <1>4 DEF CacheInv

\* What the callers of GetOrSet do among themselves.
LEMMA CacheFrame ==
  ASSUME CacheInv, UNCHANGED <<mem, file, fileOk, saveTimer, cpending, accesses, redis, clock>>
  PROVE  CacheInv'
  BY DEF CacheInv, CType, SameAlive, Expired

\* Set, Delete and the debounced save: for every number of keys, callers and
\* entries, every time to live and every sequence of lookups, fetches that fail or
\* not, saves that fail or not, restarts and changes of the backend, the file holds
\* what the memory holds whenever no save is owed and the last one succeeded.
THEOREM SavedIsCurrent == CSpec => []DiskFollows
<1>1. CInit => CacheInv
  BY CacheInit
<1>2. CacheInv /\ [CNext]_cVars => CacheInv'
  <2> SUFFICES ASSUME CacheInv, [CNext]_cVars PROVE CacheInv'
    OBVIOUS
  <2>1. CASE \E c \in CCallers, k \in CKeys : GetOrSet(c, k)
    BY <2>1, GetOrSetStep
  <2>2. CASE \E c \in CCallers : FetchOk(c)
    BY <2>2, FetchOkStep
  <2>3. CASE \E c \in CCallers : Join(c) \/ FetchFails(c) \/ CloseFlight(c) \/ EndFlight(c)
    BY <2>3, CacheFrame DEF Join, FetchFails, CloseFlight, EndFlight
  <2>4. CASE \E k \in CKeys : Delete(k)
    BY <2>4, DeleteStep
  <2>5. CASE \E b \in BOOLEAN : Restart(b)
    BY <2>5, CacheRestartStep
  <2>6. CASE SaveFires
    BY <2>6, SaveFiresStep
  <2>7. CASE CTick
    BY <2>7, CTickStep
  <2>8. CASE UNCHANGED cVars
    BY <2>8, CacheFrame DEF cVars
  <2> QED
    BY <2>1, <2>2, <2>3, <2>4, <2>5, <2>6, <2>7, <2>8 DEF CNext
<1>3. CacheInv => DiskFollows
  BY CacheIsSafe
<1> QED
  BY <1>1, <1>2, <1>3, PTL DEF CSpec

-----------------------------------------------------------------------------
(* The WebSocket feed *)

ReaderTask == [pc : {"rest", "leave", "enter", "show", "snapshot", "shown"}, v : Nat]
Notice == [pc : {"rest", "copy", "send", "admin"}, to : SUBSET Clients, v : Nat]
WsConn == [Clients -> {"new", "open", "closed", "removed"}]
Flushes == Seq([to : SUBSET Clients, v : Nat])

FType ==
  /\ version \in Nat /\ announced \in Nat /\ pushed \in Nat
  /\ admins \subseteq Clients /\ roomSubs \subseteq Clients
  /\ wsConn \in WsConn
  /\ adminLast \in [Clients -> Nat] /\ roomLast \in [Clients -> Nat]
  /\ task \in [Clients -> ReaderTask]
  /\ flushes \in Flushes
  /\ notices \in [Locks -> Notice]

\* Nobody has seen, and nobody has announced, rooms that do not exist yet.
NotAhead ==
  /\ version > 0 /\ announced <= version /\ pushed <= version
  /\ \A c \in Clients : adminLast[c] <= version /\ task[c].v <= version
  /\ \A i \in DOMAIN flushes : flushes[i].v <= version

\* A client subscribes only once it is connected.
Subscribed(c) == wsConn[c] = "new" => (c \notin admins /\ c \notin roomSubs /\ task[c].pc = "rest")

\* A list of version x has been read for the administrator c and not yet been sent.
Carries(c, x) ==
  \/ task[c].pc = "shown" /\ task[c].v = x
  \/ \E i \in DOMAIN flushes : c \in flushes[i].to /\ flushes[i].v = x /\ x > 0

\* Somebody still brings what was announced to the administrator c, or has.
AdminFed(c) ==
  \/ adminLast[c] >= announced \/ armed \/ task[c].pc = "snapshot"
  \/ \E i \in DOMAIN flushes : c \in flushes[i].to /\ flushes[i].v = 0
  \/ \E x \in Nat : Carries(c, x) /\ x >= announced

\* The lists on their way to c, when none of them was crossed, are of one version, which
\* is not older than what c has.
OneList(c) ==
  c \notin crossed =>
    \A x, y \in Nat : Carries(c, x) /\ Carries(c, y) => x = y /\ x >= adminLast[c]

AdminKept(c) == OneList(c) /\ (wsConn[c] = "open" /\ c \in admins /\ c \notin crossed => AdminFed(c))

\* A notice is about to send a frame to c.
Sending(l, c) == notices[l].pc = "send" /\ c \in notices[l].to

\* The frames on their way to c, when no race was noted, are not older than what was pushed.
RoomKept(c) ==
  c \notin raced =>
    /\ Subscribing(c) => task[c].v >= pushed
    /\ Subscribing(c) \/ c \in roomSubs => \A l \in Locks : Sending(l, c) => notices[l].v >= pushed
    /\ (wsConn[c] = "open" /\ c \in roomSubs /\ ~Subscribing(c)) =>
         (roomLast[c] >= pushed \/ \E l \in Locks : Sending(l, c))

Kept(c) == Subscribed(c) /\ AdminKept(c) /\ RoomKept(c)

FeedInv ==
  /\ FType /\ NotAhead
  /\ armed => adminPending
  /\ \A c \in Clients : Kept(c)

\* The invariant contains the property.
LEMMA FeedIsSafe == FeedInv => FeedsFollow
<1> SUFFICES ASSUME FeedInv, NEW c \in Clients, wsConn[c] = "open"
             PROVE  /\ c \in admins \ crossed =>
                         \/ adminLast[c] >= announced \/ armed \/ task[c].pc = "snapshot"
                         \/ task[c].pc = "shown" /\ task[c].v >= announced
                         \/ \E i \in DOMAIN flushes : c \in flushes[i].to /\ (flushes[i].v = 0 \/ flushes[i].v >= announced)
                    /\ c \in roomSubs \ raced =>
                         IF Subscribing(c) THEN task[c].v >= pushed
                         ELSE \/ roomLast[c] >= pushed
                              \/ \E l \in Locks : notices[l].pc = "send" /\ c \in notices[l].to /\ notices[l].v >= pushed
  BY DEF FeedsFollow
<1>1. AdminKept(c) /\ RoomKept(c)
  BY DEF FeedInv, Kept
<1>2. ASSUME c \in admins \ crossed
      PROVE  \/ adminLast[c] >= announced \/ armed \/ task[c].pc = "snapshot"
             \/ task[c].pc = "shown" /\ task[c].v >= announced
             \/ \E i \in DOMAIN flushes : c \in flushes[i].to /\ (flushes[i].v = 0 \/ flushes[i].v >= announced)
  <2>1. AdminFed(c)
    BY <1>1, <1>2 DEF AdminKept
  <2> QED
    BY <2>1 DEF AdminFed, Carries
<1>3. ASSUME c \in roomSubs \ raced
      PROVE  IF Subscribing(c) THEN task[c].v >= pushed
             ELSE \/ roomLast[c] >= pushed
                  \/ \E l \in Locks : notices[l].pc = "send" /\ c \in notices[l].to /\ notices[l].v >= pushed
  BY <1>1, <1>3 DEF RoomKept, Sending
<1> QED
  BY <1>2, <1>3

\* The start.
LEMMA FeedInit == FInit => FeedInv
<1> SUFFICES ASSUME FInit PROVE FeedInv
  OBVIOUS
<1>1. \A c \in Clients : wsConn[c] = "new" /\ task[c] = [pc |-> "rest", v |-> 0] /\ adminLast[c] = 0
  BY DEF FInit, Resting
<1>2. /\ version = 1 /\ announced = 1 /\ pushed = 1 /\ admins = {} /\ roomSubs = {} /\ armed = FALSE /\ flushes = <<>>
  BY DEF FInit
<1>3. FType
  <2>1. wsConn \in WsConn /\ adminLast \in [Clients -> Nat] /\ roomLast \in [Clients -> Nat]
    BY DEF FInit, WsConn
  <2>2. task = [c \in Clients |-> [pc |-> "rest", v |-> 0]]
    BY DEF FInit, Resting
  <2>3. task \in [Clients -> ReaderTask]
    BY <2>2 DEF ReaderTask
  <2>4. notices = [l \in Locks |-> [pc |-> "rest", to |-> {}, v |-> 0]]
    BY DEF FInit, NoNotice
  <2>5. notices \in [Locks -> Notice]
    BY <2>4 DEF Notice
  <2>6. flushes \in Flushes
    BY <1>2 DEF Flushes
  <2> QED
    BY <1>2, <2>1, <2>3, <2>5, <2>6 DEF FType
<1>4. NotAhead
  BY <1>1, <1>2 DEF NotAhead
<1>5. ASSUME NEW c \in Clients PROVE Kept(c)
  <2>1. \A x \in Nat : ~Carries(c, x)
    BY <1>1, <1>2 DEF Carries
  <2>2. \A l \in Locks : ~Sending(l, c)
    BY DEF FInit, NoNotice, Sending
  <2>3. ~Subscribing(c)
    BY <1>1 DEF Subscribing
  <2> QED
    BY <1>1, <1>2, <2>1, <2>2, <2>3 DEF Kept, Subscribed, AdminKept, OneList, RoomKept
<1> QED
  BY <1>2, <1>3, <1>4, <1>5 DEF FeedInv

\* The flushes under way are records.
LEMMA FlushFacts ==
  ASSUME FType, NEW i \in DOMAIN flushes
  PROVE  flushes[i] \in [to : SUBSET Clients, v : Nat]
<1>1. flushes \in Seq([to : SUBSET Clients, v : Nat]) /\ i \in 1 .. Len(flushes)
  BY DEF FType, Flushes
<1> QED
  BY <1>1, ElementOfSeq

\* RemoveAt takes out one element and keeps all others.
LEMMA RemoveAtFacts ==
  ASSUME NEW S, NEW s \in Seq(S), NEW i \in DOMAIN s
  PROVE  /\ RemoveAt(s, i) \in Seq(S)
         /\ \A j \in DOMAIN s : j # i => \E k \in DOMAIN RemoveAt(s, i) : RemoveAt(s, i)[k] = s[j]
         /\ \A k \in DOMAIN RemoveAt(s, i) : \E j \in DOMAIN s : RemoveAt(s, i)[k] = s[j]
<1> DEFINE a == SubSeq(s, 1, i - 1)
           b == SubSeq(s, i + 1, Len(s))
           r == RemoveAt(s, i)
<1>1. i \in Nat /\ i >= 1 /\ i <= Len(s) /\ Len(s) \in Nat /\ DOMAIN s = 1 .. Len(s)
  OBVIOUS
<1>2. a \in Seq(S) /\ Len(a) = i - 1 /\ \A j \in 1 .. (i - 1) : a[j] = s[j]
  BY <1>1
<1>3. b \in Seq(S) /\ Len(b) = Len(s) - i /\ \A j \in 1 .. (Len(s) - i) : b[j] = s[i + j]
  BY <1>1
<1>4. r = a \o b
  BY DEF RemoveAt
<1> HIDE DEF a, b, r
<1>5. /\ r \in Seq(S) /\ Len(r) = Len(s) - 1 /\ DOMAIN r = 1 .. (Len(s) - 1)
      /\ \A k \in 1 .. (Len(s) - 1) : r[k] = IF k <= i - 1 THEN a[k] ELSE b[k - (i - 1)]
  <2>1. /\ r \in Seq(S) /\ Len(r) = Len(a) + Len(b)
        /\ \A k \in 1 .. Len(a) + Len(b) : r[k] = IF k <= Len(a) THEN a[k] ELSE b[k - Len(a)]
    BY <1>2, <1>3, <1>4, ConcatProperties
  <2>2. Len(a) + Len(b) = Len(s) - 1
    BY <1>1, <1>2, <1>3
  <2>3. DOMAIN r = 1 .. Len(r)
    BY <2>1
  <2> QED
    BY <1>2, <2>1, <2>2, <2>3
<1>6. ASSUME NEW k \in 1 .. (Len(s) - 1) PROVE r[k] = IF k <= i - 1 THEN s[k] ELSE s[k + 1]
  <2>1. CASE k <= i - 1
    <3>1. k \in 1 .. (i - 1)
      BY <1>1, <2>1
    <3> QED
      BY <1>2, <1>5, <2>1, <3>1
  <2>2. CASE ~(k <= i - 1)
    <3>1. k - (i - 1) \in 1 .. (Len(s) - i) /\ i + (k - (i - 1)) = k + 1
      BY <1>1, <2>2
    <3> QED
      BY <1>3, <1>5, <2>2, <3>1
  <2> QED
    BY <2>1, <2>2
<1>7. ASSUME NEW j \in DOMAIN s, j # i PROVE \E k \in DOMAIN r : r[k] = s[j]
  <2>1. CASE j < i
    BY <1>1, <1>5, <1>6, <2>1
  <2>2. CASE j > i
    <3>1. j - 1 \in 1 .. (Len(s) - 1) /\ ~(j - 1 <= i - 1) /\ (j - 1) + 1 = j
      BY <1>1, <2>2
    <3> QED
      BY <1>5, <1>6, <3>1
  <2> QED
    BY <1>1, <1>7, <2>1, <2>2
<1>8. ASSUME NEW k \in DOMAIN r PROVE \E j \in DOMAIN s : r[k] = s[j]
  <2>1. k \in 1 .. (Len(s) - 1) /\ k \in DOMAIN s /\ k + 1 \in DOMAIN s
    BY <1>1, <1>5
  <2> QED
    BY <1>6, <2>1
<1> QED
  BY <1>5, <1>7, <1>8 DEF r

\* enqueue closes who cannot be served and opens nobody.
LEMMA EnqueueFacts ==
  ASSUME FType, NEW cs \in SUBSET Clients, Enqueue(cs)
  PROVE  /\ wsConn' \in WsConn
         /\ \A c \in Clients : /\ wsConn'[c] = "open" => wsConn[c] = "open"
                               /\ (wsConn'[c] = "open" /\ c \in cs) => c \in Sent(cs)
                               /\ wsConn'[c] = "new" => wsConn[c] = "new"
                               /\ c \notin cs => wsConn'[c] = wsConn[c]
<1>1. wsConn \in WsConn
  BY DEF FType
<1>2. wsConn' = [c \in Clients |-> IF c \in cs \ Sent(cs) /\ wsConn[c] = "open" THEN "closed" ELSE wsConn[c]]
  BY DEF Enqueue
<1> QED
  BY <1>1, <1>2 DEF WsConn

\* What leaves the lists of c alone.
LEMMA AdminLeftAlone ==
  ASSUME NEW c \in Clients, AdminKept(c),
         announced' = announced, adminLast'[c] = adminLast[c], armed' = armed, flushes' = flushes,
         c \in crossed' <=> c \in crossed, c \in admins' <=> c \in admins,
         wsConn'[c] = "open" => wsConn[c] = "open" \/ c \notin admins,
         task'[c] = task[c] \/ (task[c].pc \notin {"snapshot", "shown"} /\ task'[c].pc \notin {"snapshot", "shown"})
  PROVE  AdminKept(c)'
<1>1. \A x \in Nat : Carries(c, x)' <=> Carries(c, x)
  BY DEF Carries
<1>2. OneList(c)'
  BY <1>1 DEF AdminKept, OneList
<1>3. AdminFed(c) => AdminFed(c)'
  BY <1>1 DEF AdminFed
<1> QED
  BY <1>2, <1>3 DEF AdminKept

\* What leaves the frames of c alone.
LEMMA RoomLeftAlone ==
  ASSUME NEW c \in Clients, RoomKept(c),
         pushed' = pushed, roomLast'[c] = roomLast[c],
         \A l \in Locks : notices'[l].v = notices[l].v /\ (Sending(l, c)' <=> Sending(l, c)),
         c \in raced' <=> c \in raced, c \in roomSubs' <=> c \in roomSubs,
         wsConn'[c] = "open" => wsConn[c] = "open" \/ c \notin roomSubs,
         task'[c] = task[c] \/ (~Subscribing(c) /\ ~Subscribing(c)')
  PROVE  RoomKept(c)'
<1>1. Subscribing(c)' <=> Subscribing(c)
  BY DEF Subscribing
<1>2. Subscribing(c) => task'[c] = task[c]
  BY <1>1
<1> QED
  BY <1>1, <1>2 DEF RoomKept

\* A step of one client leaves the others as they were.
LEMMA OneClientStep ==
  ASSUME FeedInv, NEW c \in Clients, UNCHANGED <<version, announced, pushed, armed, adminPending, flushes, notices>>,
         wsConn' \in WsConn,
         task' \in [Clients -> ReaderTask], adminLast' \in [Clients -> Nat], roomLast' \in [Clients -> Nat],
         admins' \in {admins, admins \cup {c}, admins \ {c}},
         roomSubs' \in {roomSubs, roomSubs \cup {c}, roomSubs \ {c}},
         \A d \in Clients \ {c} : /\ wsConn'[d] = wsConn[d] /\ task'[d] = task[d]
                                  /\ adminLast'[d] = adminLast[d] /\ roomLast'[d] = roomLast[d]
                                  /\ (d \in crossed' <=> d \in crossed) /\ (d \in raced' <=> d \in raced),
         adminLast'[c] <= version, task'[c].v <= version,
         Kept(c)'
  PROVE  FeedInv'
<1>1. FType'
  BY DEF FeedInv, FType
<1>2. NotAhead'
  BY DEF FeedInv, NotAhead
<1>3. ASSUME NEW d \in Clients \ {c} PROVE Kept(d)'
  <2>1. /\ wsConn'[d] = wsConn[d] /\ task'[d] = task[d] /\ adminLast'[d] = adminLast[d] /\ roomLast'[d] = roomLast[d]
        /\ (d \in crossed' <=> d \in crossed) /\ (d \in raced' <=> d \in raced)
    OBVIOUS
  <2>2. /\ d \in admins' <=> d \in admins
        /\ d \in roomSubs' <=> d \in roomSubs
    OBVIOUS
  <2>3. Subscribed(d) /\ AdminKept(d) /\ RoomKept(d)
    BY DEF FeedInv, Kept
  <2>4. Subscribed(d)'
    BY <2>1, <2>2, <2>3 DEF Subscribed
  <2>5. AdminKept(d)'
    BY <2>1, <2>2, <2>3, AdminLeftAlone
  <2>6. \A l \in Locks : notices'[l].v = notices[l].v /\ (Sending(l, d)' <=> Sending(l, d))
    BY DEF Sending
  <2>7. RoomKept(d)'
    BY <2>1, <2>2, <2>3, <2>6, RoomLeftAlone
  <2> QED
    BY <2>4, <2>5, <2>7 DEF Kept
<1> QED
  BY <1>1, <1>2, <1>3 DEF FeedInv

\* Facts about one client that every step of it starts from.
LEMMA ClientFacts ==
  ASSUME FeedInv, NEW c \in Clients
  PROVE  /\ FType /\ wsConn \in WsConn
         /\ task \in [Clients -> ReaderTask] /\ adminLast \in [Clients -> Nat] /\ roomLast \in [Clients -> Nat]
         /\ version \in Nat /\ announced \in Nat /\ pushed \in Nat
         /\ version > 0 /\ announced <= version /\ pushed <= version
         /\ task[c].v \in Nat /\ adminLast[c] \in Nat /\ roomLast[c] \in Nat
         /\ adminLast[c] <= version /\ task[c].v <= version
         /\ Subscribed(c) /\ AdminKept(c) /\ RoomKept(c)
  BY DEF FeedInv, FType, NotAhead, ReaderTask, Kept

\* A client connects or its connection ends.
LEMMA ConnStep ==
  ASSUME FeedInv, NEW c \in Clients, Accept(c) \/ Disconnect(c) \/ RemoveClient(c) \/ \E ok \in BOOLEAN : Write(c, ok)
  PROVE  FeedInv'
<1>f. /\ wsConn \in WsConn /\ task \in [Clients -> ReaderTask] /\ adminLast \in [Clients -> Nat] /\ roomLast \in [Clients -> Nat]
      /\ adminLast[c] <= version /\ task[c].v <= version /\ Subscribed(c) /\ AdminKept(c) /\ RoomKept(c)
  BY ClientFacts
<1>1. /\ UNCHANGED <<version, armed, adminPending, flushes, task, adminLast, roomLast, notices, announced, pushed, crossed, raced>>
      /\ \/ UNCHANGED <<admins, roomSubs>>
         \/ wsConn' = [wsConn EXCEPT ![c] = "removed"] /\ admins' = admins \ {c} /\ roomSubs' = roomSubs \ {c} /\ task[c] = Resting
  BY DEF Accept, Disconnect, RemoveClient, Write, told
<1>2. \/ wsConn' = wsConn
      \/ wsConn[c] = "new" /\ wsConn' = [wsConn EXCEPT ![c] = "open"]
      \/ wsConn' = [wsConn EXCEPT ![c] = "closed"] \/ wsConn' = [wsConn EXCEPT ![c] = "removed"]
  BY DEF Accept, Disconnect, RemoveClient, Write
<1>3. /\ wsConn' \in WsConn
      /\ \A d \in Clients \ {c} : wsConn'[d] = wsConn[d]
      /\ wsConn'[c] = "new" => wsConn[c] = "new"
      /\ wsConn'[c] = "open" => (wsConn[c] = "open" \/ wsConn[c] = "new")
      /\ wsConn' = [wsConn EXCEPT ![c] = "removed"] => wsConn'[c] = "removed"
  BY <1>f, <1>2 DEF WsConn
<1>4. Subscribed(c)'
  BY <1>f, <1>1, <1>3 DEF Subscribed
<1>s. \A l \in Locks : notices'[l].v = notices[l].v /\ (Sending(l, c)' <=> Sending(l, c))
  BY <1>1 DEF Sending
<1>5. AdminKept(c)' /\ RoomKept(c)'
  <2>1. CASE UNCHANGED <<admins, roomSubs>>
    <3>1. wsConn'[c] = "open" => wsConn[c] = "open" \/ (c \notin admins /\ c \notin roomSubs)
      BY <1>f, <1>3 DEF Subscribed
    <3>2. AdminKept(c)'
      BY <1>f, <1>1, <2>1, <3>1, AdminLeftAlone
    <3>3. RoomKept(c)'
      BY <1>f, <1>1, <1>s, <2>1, <3>1, RoomLeftAlone
    <3> QED
      BY <3>2, <3>3
  <2>2. CASE wsConn' = [wsConn EXCEPT ![c] = "removed"] /\ admins' = admins \ {c} /\ roomSubs' = roomSubs \ {c} /\ task[c] = Resting
    <3>1. wsConn'[c] = "removed" /\ c \notin roomSubs' /\ task'[c].pc = "rest"
      BY <1>1, <1>3, <2>2 DEF Resting
    <3>2. \A x \in Nat : Carries(c, x)' <=> Carries(c, x)
      BY <1>1 DEF Carries
    <3>3. OneList(c)'
      BY <1>f, <1>1, <3>2 DEF AdminKept, OneList
    <3> QED
      BY <3>1, <3>3 DEF AdminKept, RoomKept, Subscribing
  <2> QED
    BY <1>1, <2>1, <2>2
<1> QED
  BY <1>f, <1>1, <1>3, <1>4, <1>5, OneClientStep DEF Kept

\* A client reads a room, leaves the one it is in and enters the new one.
LEMMA SubscribeStep ==
  ASSUME FeedInv, NEW c \in Clients, SubscribeRead(c) \/ SubscribeLeave(c) \/ SubscribeEnter(c)
  PROVE  FeedInv'
<1>f. /\ wsConn \in WsConn /\ task \in [Clients -> ReaderTask] /\ adminLast \in [Clients -> Nat] /\ roomLast \in [Clients -> Nat]
      /\ version \in Nat /\ pushed \in Nat /\ pushed <= version /\ task[c].v \in Nat
      /\ adminLast[c] <= version /\ task[c].v <= version /\ Subscribed(c) /\ AdminKept(c) /\ RoomKept(c)
  BY ClientFacts
<1>n. \A l \in Locks : notices[l].v \in Nat
  BY DEF FeedInv, FType, Notice
<1>1. UNCHANGED <<version, armed, adminPending, flushes, wsConn, admins, adminLast, roomLast, notices, announced, pushed, crossed>>
  BY DEF SubscribeRead, SubscribeLeave, SubscribeEnter, told
<1>2. \/ /\ task[c].pc = "rest" /\ wsConn[c] = "open" /\ task' = [task EXCEPT ![c] = [pc |-> "leave", v |-> version]]
         /\ UNCHANGED roomSubs
         /\ raced' = IF OlderFrame(c, version) THEN raced \cup {c} ELSE raced \ {c}
      \/ /\ task[c].pc = "leave" /\ task' = [task EXCEPT ![c] = [pc |-> "enter", v |-> task[c].v]]
         /\ roomSubs' = roomSubs \ {c} /\ raced' = raced
      \/ /\ task[c].pc = "enter" /\ task' = [task EXCEPT ![c] = [pc |-> "show", v |-> task[c].v]]
         /\ roomSubs' = roomSubs \cup {c} /\ raced' = raced
  BY DEF SubscribeRead, SubscribeLeave, SubscribeEnter, Doing, LeaveRoom, Resting, told
<1>3. /\ task' \in [Clients -> ReaderTask] /\ task'[c].v <= version
      /\ \A d \in Clients \ {c} : task'[d] = task[d] /\ (d \in raced' <=> d \in raced)
  BY <1>f, <1>2 DEF ReaderTask
<1>4. /\ task'[c].pc \in {"leave", "enter", "show"} /\ task[c].pc \in {"rest", "leave", "enter"}
      /\ wsConn[c] # "new"
  BY <1>f, <1>2 DEF Subscribed
<1>5. Subscribed(c)'
  BY <1>1, <1>4 DEF Subscribed
<1>6. AdminKept(c)'
  BY <1>f, <1>1, <1>4, AdminLeftAlone
<1>s. \A l \in Locks : Sending(l, c)' <=> Sending(l, c)
  BY <1>1 DEF Sending
<1>7. RoomKept(c)'
  <2>1. Subscribing(c)'
    BY <1>4 DEF Subscribing
  <2>2. CASE task[c].pc = "rest"
    <3>1. task'[c].v = version /\ (c \notin raced' => ~OlderFrame(c, version))
      BY <1>f, <1>2, <2>2
    <3>2. c \notin raced' => \A l \in Locks : Sending(l, c) => ~(notices[l].v < version)
      BY <3>1 DEF OlderFrame, Sending
    <3>3. c \notin raced' => \A l \in Locks : Sending(l, c) => notices[l].v >= pushed
      BY <1>f, <1>n, <3>2
    <3> QED
      BY <1>f, <1>1, <1>s, <2>1, <3>1, <3>3 DEF RoomKept
  <2>3. CASE task[c].pc # "rest"
    <3>1. Subscribing(c) /\ task'[c].v = task[c].v /\ raced' = raced
      BY <1>f, <1>2, <2>3 DEF Subscribing
    <3> QED
      BY <1>f, <1>1, <1>s, <2>1, <3>1 DEF RoomKept
  <2> QED
    BY <2>2, <2>3
<1> QED
  BY <1>f, <1>1, <1>2, <1>3, <1>5, <1>6, <1>7, OneClientStep DEF Kept

\* The frame of a subscription is sent, or the client leaves its room.
LEMMA ShowStep ==
  ASSUME FeedInv, NEW c \in Clients, SubscribeShow(c) \/ Unsubscribe(c)
  PROVE  FeedInv'
<1>f. /\ FType /\ wsConn \in WsConn /\ task \in [Clients -> ReaderTask] /\ adminLast \in [Clients -> Nat] /\ roomLast \in [Clients -> Nat]
      /\ version \in Nat /\ pushed \in Nat /\ task[c].v \in Nat
      /\ adminLast[c] <= version /\ task[c].v <= version /\ Subscribed(c) /\ AdminKept(c) /\ RoomKept(c)
  BY ClientFacts
<1>1. UNCHANGED <<version, armed, adminPending, flushes, admins, adminLast, notices, announced, pushed, crossed, raced>>
  BY DEF SubscribeShow, Unsubscribe, told
<1>2. Enqueue({c})
  BY DEF SubscribeShow, Unsubscribe
<1>3. /\ wsConn' \in WsConn
      /\ wsConn'[c] = "open" => (wsConn[c] = "open" /\ c \in Sent({c}))
      /\ wsConn'[c] = "new" => wsConn[c] = "new"
      /\ \A d \in Clients \ {c} : wsConn'[d] = wsConn[d]
  BY <1>f, <1>2, EnqueueFacts
<1>4. /\ task[c].pc \in {"rest", "show"} /\ (task[c].pc = "rest" => wsConn[c] # "new")
      /\ task' = [task EXCEPT ![c] = [pc |-> "rest", v |-> 0]]
      /\ roomSubs' \in {roomSubs, roomSubs \ {c}}
      /\ task[c].pc = "rest" => c \notin roomSubs'
      /\ task[c].pc = "show" => roomSubs' = roomSubs
  BY <1>f DEF SubscribeShow, Unsubscribe, Resting, LeaveRoom
<1>5. /\ roomLast' \in [Clients -> Nat]
      /\ \A d \in Clients \ {c} : roomLast'[d] = roomLast[d]
      /\ (task[c].pc = "show" /\ c \in Sent({c})) => roomLast'[c] = task[c].v
  <2>1. CASE SubscribeShow(c)
    <3>1. roomLast' = [d \in Clients |-> IF d \in Sent({c}) THEN task[c].v ELSE roomLast[d]]
      BY <2>1 DEF SubscribeShow, ShowRoom
    <3>2. \A d \in Clients \ {c} : d \notin Sent({c})
      BY DEF Sent
    <3> QED
      BY <1>f, <3>1, <3>2
  <2>2. CASE Unsubscribe(c)
    BY <1>f, <2>2 DEF Unsubscribe, Resting
  <2> QED
    BY <2>1, <2>2
<1>6. /\ task' \in [Clients -> ReaderTask] /\ task'[c].v <= version /\ task'[c].pc = "rest"
      /\ \A d \in Clients \ {c} : task'[d] = task[d]
  BY <1>f, <1>4 DEF ReaderTask
<1>7. Subscribed(c)'
  BY <1>f, <1>1, <1>3, <1>4, <1>6 DEF Subscribed
<1>8. AdminKept(c)'
  BY <1>f, <1>1, <1>3, <1>4, <1>6, AdminLeftAlone
<1>s. \A l \in Locks : Sending(l, c)' <=> Sending(l, c)
  BY <1>1 DEF Sending
<1>9. RoomKept(c)'
  <2>1. ~Subscribing(c)'
    BY <1>6 DEF Subscribing
  <2>2. CASE task[c].pc = "rest"
    BY <1>4, <2>1, <2>2 DEF RoomKept
  <2>3. CASE task[c].pc = "show"
    <3>1. Subscribing(c)
      BY <2>3 DEF Subscribing
    <3>2. wsConn'[c] = "open" => roomLast'[c] = task[c].v
      BY <1>3, <1>5, <2>3
    <3> QED
      BY <1>f, <1>1, <1>4, <1>s, <2>1, <2>3, <3>1, <3>2 DEF RoomKept
  <2> QED
    BY <1>4, <2>2, <2>3
<1> QED
  BY <1>f, <1>1, <1>3, <1>4, <1>5, <1>6, <1>7, <1>8, <1>9, OneClientStep DEF Kept

\* A client becomes an administrator's feed and is sent the rooms as they are, or
\* stops being one.
LEMMA AdminClientStep ==
  ASSUME FeedInv, NEW c \in Clients, AdminSubscribe(c) \/ SnapshotRead(c) \/ SnapshotSend(c) \/ AdminUnsubscribe(c)
  PROVE  FeedInv'
<1>f. /\ FType /\ wsConn \in WsConn /\ task \in [Clients -> ReaderTask] /\ adminLast \in [Clients -> Nat] /\ roomLast \in [Clients -> Nat]
      /\ version \in Nat /\ version > 0 /\ announced \in Nat /\ announced <= version /\ task[c].v \in Nat /\ adminLast[c] \in Nat
      /\ adminLast[c] <= version /\ task[c].v <= version /\ Subscribed(c) /\ AdminKept(c) /\ RoomKept(c)
  BY ClientFacts
<1>1. UNCHANGED <<version, armed, adminPending, flushes, roomSubs, roomLast, notices, announced, pushed, raced>>
  BY DEF AdminSubscribe, SnapshotRead, SnapshotSend, AdminUnsubscribe, told
<1>s. \A l \in Locks : notices'[l].v = notices[l].v /\ (Sending(l, c)' <=> Sending(l, c))
  BY <1>1 DEF Sending
<1>2. CASE AdminSubscribe(c)
  <2>1. /\ UNCHANGED <<wsConn, adminLast, crossed>> /\ admins' = admins \cup {c} /\ wsConn[c] # "new"
        /\ task[c].pc = "rest" /\ task' = [task EXCEPT ![c] = [pc |-> "snapshot", v |-> 0]]
    BY <1>2 DEF AdminSubscribe, Resting, Doing, told
  <2>2. /\ task' \in [Clients -> ReaderTask] /\ task'[c].v <= version /\ task'[c].pc = "snapshot"
        /\ \A d \in Clients \ {c} : task'[d] = task[d]
    BY <1>f, <2>1 DEF ReaderTask
  <2>3. Subscribed(c)'
    BY <2>1 DEF Subscribed
  <2>4. RoomKept(c)'
    BY <1>f, <1>1, <1>s, <2>1, <2>2, RoomLeftAlone DEF Subscribing
  <2>5. \A x \in Nat : Carries(c, x)' <=> Carries(c, x)
    BY <1>1, <2>1, <2>2 DEF Carries
  <2>6. OneList(c)'
    BY <1>f, <2>1, <2>5 DEF AdminKept, OneList
  <2>7. AdminFed(c)'
    BY <2>2 DEF AdminFed
  <2> QED
    BY <1>f, <1>1, <2>1, <2>2, <2>3, <2>4, <2>6, <2>7, OneClientStep DEF Kept, AdminKept
<1>3. CASE SnapshotRead(c)
  <2>1. /\ UNCHANGED <<wsConn, adminLast, admins>>
        /\ crossed' = (crossed \ {c}) \cup {d \in {c} : OlderList(d)}
        /\ task[c].pc = "snapshot" /\ task' = [task EXCEPT ![c] = [pc |-> "shown", v |-> version]]
    BY <1>3 DEF SnapshotRead, Doing, ListsTo
  <2>2. /\ task' \in [Clients -> ReaderTask] /\ task'[c].v = version /\ task'[c].pc = "shown"
        /\ \A d \in Clients \ {c} : task'[d] = task[d] /\ (d \in crossed' <=> d \in crossed)
    BY <1>f, <2>1 DEF ReaderTask
  <2>3. Subscribed(c)'
    BY <1>f, <2>1 DEF Subscribed
  <2>4. RoomKept(c)'
    BY <1>f, <1>1, <1>s, <2>1, <2>2, RoomLeftAlone DEF Subscribing
  <2>5. Carries(c, version)'
    BY <1>1, <2>2 DEF Carries
  <2>6. ASSUME c \notin crossed', NEW x \in Nat, Carries(c, x)' PROVE x = version
    <3>1. ~OlderList(c)
      BY <2>1, <2>6
    <3>2. CASE task'[c].pc = "shown" /\ task'[c].v = x
      BY <2>2, <3>2
    <3>3. CASE \E i \in DOMAIN flushes : c \in flushes[i].to /\ flushes[i].v = x /\ x > 0
      <4>1. PICK i \in DOMAIN flushes : c \in flushes[i].to /\ flushes[i].v = x /\ x > 0
        BY <3>3
      <4>2. x <= version
        BY <4>1 DEF FeedInv, NotAhead
      <4>3. x \notin 1 .. (version - 1)
        BY <3>1, <4>1 DEF OlderList
      <4> QED
        BY <1>f, <4>1, <4>2, <4>3
    <3> QED
      BY <1>1, <2>6, <3>2, <3>3 DEF Carries
  <2>7. OneList(c)'
    BY <1>f, <2>1, <2>6 DEF OneList
  <2>8. AdminFed(c)'
    <3>1. version >= announced' /\ version \in Nat
      BY <1>f, <1>1
    <3> QED
      BY <1>1, <2>5, <3>1 DEF AdminFed
  <2> QED
    BY <1>f, <1>1, <2>1, <2>2, <2>3, <2>4, <2>7, <2>8, OneClientStep DEF Kept, AdminKept
<1>4. CASE SnapshotSend(c)
  <2>1. /\ Enqueue({c}) /\ task' = [task EXCEPT ![c] = [pc |-> "rest", v |-> 0]] /\ task[c].pc = "shown"
        /\ adminLast' = [d \in Clients |-> IF d \in Sent({c}) THEN task[c].v ELSE adminLast[d]]
        /\ UNCHANGED <<admins, crossed>>
    BY <1>4 DEF SnapshotSend, Resting, ShowAdmin, told
  <2>2. /\ wsConn' \in WsConn
        /\ wsConn'[c] = "open" => (wsConn[c] = "open" /\ c \in Sent({c}))
        /\ wsConn'[c] = "new" => wsConn[c] = "new"
        /\ \A d \in Clients \ {c} : wsConn'[d] = wsConn[d]
    BY <1>f, <2>1, EnqueueFacts
  <2>3. /\ task' \in [Clients -> ReaderTask] /\ task'[c].v <= version /\ task'[c].pc = "rest"
        /\ \A d \in Clients \ {c} : task'[d] = task[d]
    BY <1>f, <2>1 DEF ReaderTask
  <2>4. /\ adminLast' \in [Clients -> Nat] /\ adminLast'[c] <= version
        /\ \A d \in Clients \ {c} : adminLast'[d] = adminLast[d]
        /\ adminLast'[c] = task[c].v \/ adminLast'[c] = adminLast[c]
        /\ c \in Sent({c}) => adminLast'[c] = task[c].v
    <3>1. \A d \in Clients \ {c} : d \notin Sent({c})
      BY DEF Sent
    <3> QED
      BY <1>f, <2>1, <3>1
  <2>5. Subscribed(c)'
    BY <1>f, <1>1, <2>1, <2>2, <2>3 DEF Subscribed
  <2>6. RoomKept(c)'
    BY <1>f, <1>1, <1>s, <2>1, <2>2, <2>3, RoomLeftAlone DEF Subscribing
  <2>7. Carries(c, task[c].v)
    BY <2>1 DEF Carries
  <2>8. \A x \in Nat : Carries(c, x)' => Carries(c, x)
    BY <1>1, <2>3 DEF Carries
  <2>9. ASSUME c \notin crossed, NEW x \in Nat, Carries(c, x)
        PROVE  x = task[c].v /\ task[c].v >= adminLast[c]
    BY <1>f, <2>7, <2>9 DEF AdminKept, OneList
  <2>10. OneList(c)'
    <3> SUFFICES ASSUME c \notin crossed, NEW x \in Nat, NEW y \in Nat, Carries(c, x)', Carries(c, y)'
                 PROVE  x = y /\ x >= adminLast'[c]
      BY <2>1 DEF OneList
    <3>1. x = task[c].v /\ y = task[c].v /\ task[c].v >= adminLast[c]
      BY <2>8, <2>9
    <3> QED
      BY <1>f, <2>4, <3>1
  <2>11. ASSUME wsConn'[c] = "open", c \in admins', c \notin crossed' PROVE AdminFed(c)'
    <3>1. AdminFed(c) /\ adminLast'[c] = task[c].v
      BY <1>f, <2>1, <2>2, <2>4, <2>11 DEF AdminKept
    <3>2. CASE adminLast[c] >= announced \/ \E x \in Nat : Carries(c, x) /\ x >= announced
      <4>1. task[c].v >= announced
        BY <1>f, <2>1, <2>7, <2>9, <2>11, <3>2
      <4> QED
        BY <1>1, <3>1, <4>1 DEF AdminFed
    <3>3. CASE armed \/ \E i \in DOMAIN flushes : c \in flushes[i].to /\ flushes[i].v = 0
      BY <1>1, <3>3 DEF AdminFed
    <3> QED
      BY <2>1, <3>1, <3>2, <3>3 DEF AdminFed
  <2> QED
    BY <1>f, <1>1, <2>1, <2>2, <2>3, <2>4, <2>5, <2>6, <2>10, <2>11, OneClientStep DEF Kept, AdminKept
<1>5. CASE AdminUnsubscribe(c)
  <2>1. Enqueue({c}) /\ UNCHANGED <<task, adminLast, crossed>> /\ admins' = admins \ {c} /\ wsConn[c] = "open"
    BY <1>5 DEF AdminUnsubscribe, told
  <2>2. /\ wsConn' \in WsConn
        /\ wsConn'[c] = "open" => wsConn[c] = "open"
        /\ wsConn'[c] = "new" => wsConn[c] = "new"
        /\ \A d \in Clients \ {c} : wsConn'[d] = wsConn[d]
    BY <1>f, <2>1, EnqueueFacts
  <2>3. Subscribed(c)'
    BY <1>1, <2>1, <2>2 DEF Subscribed
  <2>4. RoomKept(c)'
    BY <1>f, <1>1, <1>s, <2>1, <2>2, RoomLeftAlone
  <2>5. \A x \in Nat : Carries(c, x)' <=> Carries(c, x)
    BY <1>1, <2>1 DEF Carries
  <2>6. OneList(c)'
    BY <1>f, <2>1, <2>5 DEF AdminKept, OneList
  <2>7. c \notin admins'
    BY <2>1
  <2> QED
    BY <1>f, <1>1, <2>1, <2>2, <2>3, <2>4, <2>6, <2>7, OneClientStep DEF Kept, AdminKept
<1> QED
  BY <1>2, <1>3, <1>4, <1>5

\* The rooms change; the announcement, if there is one, has not begun.
LEMMA ChangeStep ==
  ASSUME FeedInv, QuietChange \/ \E l \in Locks : Change(l)
  PROVE  FeedInv'
<1>1. /\ version' = version + 1
      /\ UNCHANGED <<admins, roomSubs, wsConn, adminLast, roomLast, task, armed, adminPending, flushes, announced, pushed, crossed, raced>>
  BY DEF QuietChange, Change, told
<1>2. \/ notices' = notices
      \/ \E l \in Locks : notices[l].pc = "rest" /\ notices' = [notices EXCEPT ![l].pc = "copy"]
  BY DEF QuietChange, Change
<1>t. notices \in [Locks -> Notice]
  BY DEF FeedInv, FType
<1>3. /\ notices' \in [Locks -> Notice]
      /\ \A k \in Locks : /\ notices'[k].v = notices[k].v
                          /\ (notices'[k].pc = "send" <=> notices[k].pc = "send")
                          /\ notices'[k].to = notices[k].to
  <2>1. CASE notices' = notices
    BY <1>t, <2>1
  <2>2. ASSUME NEW l \in Locks, notices[l].pc = "rest", notices' = [notices EXCEPT ![l].pc = "copy"]
        PROVE  /\ notices' \in [Locks -> Notice]
               /\ \A k \in Locks : /\ notices'[k].v = notices[k].v
                                   /\ (notices'[k].pc = "send" <=> notices[k].pc = "send")
                                   /\ notices'[k].to = notices[k].to
    BY <1>t, <2>2 DEF Notice
  <2> QED
    BY <1>2, <2>1, <2>2
<1>4. FType'
  BY <1>1, <1>3 DEF FeedInv, FType
<1>5. NotAhead'
  <2>1. /\ version \in Nat /\ announced \in Nat /\ pushed \in Nat
        /\ \A c \in Clients : adminLast[c] \in Nat /\ task[c].v \in Nat
        /\ \A i \in DOMAIN flushes : flushes[i].v \in Nat
    BY FlushFacts DEF FeedInv, FType, ReaderTask
  <2>2. NotAhead
    BY DEF FeedInv
  <2> QED
    BY <1>1, <2>1, <2>2 DEF NotAhead
<1>6. ASSUME NEW c \in Clients PROVE Kept(c)'
  <2>1. Subscribed(c) /\ AdminKept(c) /\ RoomKept(c)
    BY DEF FeedInv, Kept
  <2>2. Subscribed(c)'
    BY <1>1, <2>1 DEF Subscribed
  <2>3. AdminKept(c)'
    BY <1>1, <2>1, AdminLeftAlone
  <2>4. \A l \in Locks : notices'[l].v = notices[l].v /\ (Sending(l, c)' <=> Sending(l, c))
    BY <1>3 DEF Sending
  <2>5. RoomKept(c)'
    BY <1>1, <2>1, <2>4, RoomLeftAlone
  <2> QED
    BY <2>2, <2>3, <2>5 DEF Kept
<1> QED
  BY <1>1, <1>4, <1>5, <1>6 DEF FeedInv

\* A notice takes its targets: all who are in the room.
LEMMA NoticeCopyStep ==
  ASSUME FeedInv, NEW l \in Locks, NoticeCopy(l)
  PROVE  FeedInv'
<1> DEFINE n == [pc |-> IF roomSubs = {} THEN "admin" ELSE "send", to |-> roomSubs, v |-> version]
<1>1. /\ notices[l].pc = "copy" /\ notices' = [notices EXCEPT ![l] = n]
      /\ pushed' = version /\ raced' = (raced \ roomSubs) \cup {c \in Clients : OlderFrame(c, version)}
      /\ UNCHANGED <<version, admins, roomSubs, wsConn, adminLast, roomLast, task, armed, adminPending, flushes, announced, crossed>>
  BY DEF NoticeCopy, FramesFor
<1>t. /\ notices \in [Locks -> Notice] /\ version \in Nat /\ roomSubs \subseteq Clients
      /\ \A c \in Clients : task[c].v \in Nat
  BY DEF FeedInv, FType, ReaderTask
<1>2. n \in Notice /\ n.to = roomSubs /\ n.v = version /\ (roomSubs # {} => n.pc = "send")
  BY <1>t DEF Notice
<1> HIDE DEF n
<1>3. /\ notices' \in [Locks -> Notice] /\ notices'[l] = n
      /\ \A k \in Locks : k # l => notices'[k] = notices[k]
  BY <1>1, <1>2, <1>t
<1>4. FType'
  BY <1>1, <1>3 DEF FeedInv, FType
<1>5. NotAhead'
  BY <1>1, <1>t DEF FeedInv, NotAhead
<1>6. ASSUME NEW c \in Clients PROVE Kept(c)'
  <2>1. Subscribed(c) /\ AdminKept(c)
    BY DEF FeedInv, Kept
  <2>2. Subscribed(c)'
    BY <1>1, <2>1 DEF Subscribed
  <2>3. AdminKept(c)'
    BY <1>1, <2>1, AdminLeftAlone
  <2>4. RoomKept(c)'
    <3>1. Subscribing(c)' <=> Subscribing(c)
      BY <1>1 DEF Subscribing
    <3>2. ASSUME c \notin raced' PROVE ~OlderFrame(c, version)
      BY <1>1, <3>2
    <3>3. ASSUME c \notin raced', Subscribing(c) PROVE task'[c].v >= pushed'
      <4>1. ~(task[c].v < version)
        BY <3>2, <3>3 DEF OlderFrame
      <4> QED
        BY <1>1, <1>t, <4>1
    <3>4. ASSUME c \notin raced', NEW k \in Locks, Sending(k, c)' PROVE notices'[k].v >= pushed'
      <4>1. CASE k = l
        BY <1>1, <1>2, <1>3, <1>t, <4>1
      <4>2. CASE k # l
        <5>1. notices[k].pc = "send" /\ c \in notices[k].to /\ notices'[k].v = notices[k].v /\ notices[k].v \in Nat
          BY <1>3, <1>t, <3>4, <4>2 DEF Sending, Notice
        <5>2. ~(notices[k].v < version)
          BY <3>2, <3>4, <5>1 DEF OlderFrame
        <5> QED
          BY <1>1, <1>t, <5>1, <5>2
      <4> QED
        BY <4>1, <4>2
    <3>5. c \in roomSubs' => Sending(l, c)'
      BY <1>1, <1>2, <1>3 DEF Sending
    <3> QED
      BY <3>1, <3>3, <3>4, <3>5 DEF RoomKept
  <2> QED
    BY <2>2, <2>3, <2>4 DEF Kept
<1> QED
  BY <1>1, <1>4, <1>5, <1>6 DEF FeedInv

\* A notice sends its frame.
LEMMA NoticeSendStep ==
  ASSUME FeedInv, NEW l \in Locks, NEW v \in Nat, NoticeSend(l, v)
  PROVE  FeedInv'
<1> DEFINE to == notices[l].to
<1>1. /\ notices[l].pc = "send" /\ notices[l].v <= v /\ notices' = [notices EXCEPT ![l].pc = "admin"]
      /\ Enqueue(to) /\ roomLast' = [c \in Clients |-> IF c \in Sent(to) THEN v ELSE roomLast[c]]
      /\ UNCHANGED <<version, admins, roomSubs, adminLast, task, armed, adminPending, flushes, announced, pushed, crossed, raced>>
  BY DEF NoticeSend, ShowRoom, told
<1>t. /\ FType /\ notices \in [Locks -> Notice] /\ roomLast \in [Clients -> Nat] /\ pushed \in Nat
      /\ to \in SUBSET Clients /\ notices[l].v \in Nat
  BY DEF FeedInv, FType, Notice
<1>2. /\ notices' \in [Locks -> Notice] /\ notices'[l].pc = "admin"
      /\ \A k \in Locks : notices'[k].v = notices[k].v /\ (k # l => notices'[k] = notices[k])
  BY <1>1, <1>t DEF Notice
<1>3. /\ wsConn' \in WsConn
      /\ \A c \in Clients : /\ wsConn'[c] = "open" => wsConn[c] = "open"
                            /\ (wsConn'[c] = "open" /\ c \in to) => c \in Sent(to)
                            /\ wsConn'[c] = "new" => wsConn[c] = "new"
  BY <1>1, <1>t, EnqueueFacts
<1>4. Sent(to) \subseteq to
  BY DEF Sent
<1>v. \A c \in Clients : c \in to <=> c \in notices[l].to
  OBVIOUS
<1> HIDE DEF to
<1>5. FType'
  <2>1. roomLast' \in [Clients -> Nat]
    BY <1>1, <1>t
  <2> QED
    BY <1>1, <1>2, <1>3, <2>1 DEF FeedInv, FType
<1>6. NotAhead'
  BY <1>1 DEF FeedInv, NotAhead
<1>7. ASSUME NEW c \in Clients PROVE Kept(c)'
  <2>1. Subscribed(c) /\ AdminKept(c) /\ RoomKept(c)
    BY DEF FeedInv, Kept
  <2>2. Subscribed(c)'
    BY <1>1, <1>3, <2>1 DEF Subscribed
  <2>3. AdminKept(c)'
    BY <1>1, <1>3, <2>1, AdminLeftAlone
  <2>s. /\ ~Sending(l, c)'
        /\ \A k \in Locks : Sending(k, c)' => Sending(k, c)
        /\ \A k \in Locks : k # l => (Sending(k, c)' <=> Sending(k, c))
    BY <1>2 DEF Sending
  <2>4. CASE c \in to
    <3>1. Sending(l, c)
      BY <1>1, <1>v, <2>4 DEF Sending
    <3>2. Subscribing(c)' <=> Subscribing(c)
      BY <1>1 DEF Subscribing
    <3>3. ASSUME c \notin raced, Subscribing(c) \/ c \in roomSubs PROVE v >= pushed
      <4>1. notices[l].v >= pushed
        BY <2>1, <3>1, <3>3 DEF RoomKept
      <4> QED
        BY <1>1, <1>t, <4>1
    <3>4. wsConn'[c] = "open" => roomLast'[c] = v
      BY <1>1, <1>3, <2>4
    <3>5. RoomKept(c)'
      BY <1>1, <1>2, <2>1, <2>s, <3>2, <3>3, <3>4 DEF RoomKept
    <3> QED
      BY <2>2, <2>3, <3>5 DEF Kept
  <2>5. CASE c \notin to
    <3>1. \A k \in Locks : notices'[k].v = notices[k].v /\ (Sending(k, c)' <=> Sending(k, c))
      <4>1. ~Sending(l, c)
        BY <1>v, <2>5 DEF Sending
      <4> QED
        BY <1>2, <2>s, <4>1
    <3>2. roomLast'[c] = roomLast[c]
      BY <1>1, <1>4, <2>5
    <3>3. RoomKept(c)'
      BY <1>1, <1>3, <2>1, <3>1, <3>2, RoomLeftAlone
    <3> QED
      BY <2>2, <2>3, <3>3 DEF Kept
  <2> QED
    BY <2>4, <2>5
<1> QED
  BY <1>1, <1>5, <1>6, <1>7 DEF FeedInv

\* A notice ends: where there are administrators the timer runs.
LEMMA NoticeAdminStep ==
  ASSUME FeedInv, NEW l \in Locks, NoticeAdmin(l)
  PROVE  FeedInv'
<1>1. /\ notices[l].pc = "admin" /\ notices' = [notices EXCEPT ![l] = NoNotice] /\ announced' = version
      /\ UNCHANGED <<version, admins, roomSubs, wsConn, adminLast, roomLast, task, flushes, pushed, crossed, raced>>
  BY DEF NoticeAdmin
<1>2. \/ admins = {} /\ UNCHANGED <<armed, adminPending>>
      \/ armed' = TRUE /\ adminPending' = TRUE
  BY DEF NoticeAdmin, BroadcastAdminUpdate
<1>t. notices \in [Locks -> Notice] /\ version \in Nat
  BY DEF FeedInv, FType
<1>3. /\ notices' \in [Locks -> Notice] /\ notices'[l].pc = "rest"
      /\ \A k \in Locks : k # l => notices'[k] = notices[k]
  BY <1>1, <1>t DEF NoNotice, Notice
<1>4. FType'
  BY <1>1, <1>3 DEF FeedInv, FType
<1>5. NotAhead'
  BY <1>1, <1>t DEF FeedInv, NotAhead
<1>6. armed' => adminPending'
  BY <1>2 DEF FeedInv
<1>7. ASSUME NEW c \in Clients PROVE Kept(c)'
  <2>1. Subscribed(c) /\ AdminKept(c) /\ RoomKept(c)
    BY DEF FeedInv, Kept
  <2>2. Subscribed(c)'
    BY <1>1, <2>1 DEF Subscribed
  <2>3. \A x \in Nat : Carries(c, x)' <=> Carries(c, x)
    BY <1>1 DEF Carries
  <2>4. OneList(c)'
    BY <1>1, <2>1, <2>3 DEF AdminKept, OneList
  <2>5. c \in admins' => AdminFed(c)'
    BY <1>1, <1>2 DEF AdminFed
  <2>6. \A k \in Locks : (Sending(k, c)' <=> Sending(k, c)) /\ (Sending(k, c) => notices'[k].v = notices[k].v)
    BY <1>1, <1>3 DEF Sending
  <2>7. Subscribing(c)' <=> Subscribing(c)
    BY <1>1 DEF Subscribing
  <2>8. RoomKept(c)'
    BY <1>1, <2>1, <2>6, <2>7 DEF RoomKept
  <2> QED
    BY <2>2, <2>4, <2>5, <2>8 DEF Kept, AdminKept
<1> QED
  BY <1>4, <1>5, <1>6, <1>7 DEF FeedInv

\* The timer fires: whoever is an administrator now will be served by this flush.
LEMMA FlushTakeStep == ASSUME FeedInv, FlushTake PROVE FeedInv'
<1>1. /\ armed' = FALSE /\ adminPending
      /\ UNCHANGED <<version, admins, roomSubs, wsConn, adminLast, roomLast, task, notices, announced, pushed, crossed, raced>>
  BY DEF FlushTake, FeedInv, told
<1>2. \/ admins = {} /\ flushes' = flushes
      \/ flushes' = Append(flushes, [to |-> admins, v |-> 0])
  BY <1>1 DEF FlushTake
<1>t. /\ flushes \in Seq([to : SUBSET Clients, v : Nat]) /\ admins \subseteq Clients /\ version \in Nat
      /\ \A i \in DOMAIN flushes : flushes[i].v <= version
  BY DEF FeedInv, FType, NotAhead, Flushes
<1>3. /\ flushes' \in Seq([to : SUBSET Clients, v : Nat])
      /\ \A i \in DOMAIN flushes' : (i \in DOMAIN flushes /\ flushes'[i] = flushes[i]) \/ flushes'[i].v = 0
      /\ admins # {} => \E i \in DOMAIN flushes' : flushes'[i].to = admins /\ flushes'[i].v = 0
  <2>1. CASE flushes' = Append(flushes, [to |-> admins, v |-> 0])
    <3> DEFINE n == Len(flushes)
    <3>1. [to |-> admins, v |-> 0] \in [to : SUBSET Clients, v : Nat]
      BY <1>t
    <3>2. /\ flushes' \in Seq([to : SUBSET Clients, v : Nat]) /\ n \in Nat /\ DOMAIN flushes = 1 .. n
          /\ DOMAIN flushes' = 1 .. (n + 1) /\ flushes'[n + 1] = [to |-> admins, v |-> 0]
          /\ \A i \in 1 .. n : flushes'[i] = flushes[i]
      BY <1>t, <2>1, <3>1
    <3>3. \A i \in 1 .. (n + 1) : i \in 1 .. n \/ i = n + 1
      BY <3>2
    <3>4. /\ n + 1 \in DOMAIN flushes'
          /\ flushes'[n + 1].to = admins /\ flushes'[n + 1].v = 0
      BY <3>2
    <3> HIDE DEF n
    <3> QED
      BY <3>2, <3>3, <3>4
  <2> QED
    BY <1>2, <1>t, <2>1
<1>4. FType'
  BY <1>1, <1>3 DEF FeedInv, FType, Flushes
<1>5. NotAhead'
  <2>1. \A i \in DOMAIN flushes' : flushes'[i].v <= version
    BY <1>3, <1>t
  <2> QED
    BY <1>1, <2>1 DEF FeedInv, NotAhead
<1>6. ASSUME NEW c \in Clients PROVE Kept(c)'
  <2>1. Subscribed(c) /\ AdminKept(c) /\ RoomKept(c)
    BY DEF FeedInv, Kept
  <2>2. Subscribed(c)'
    BY <1>1, <2>1 DEF Subscribed
  <2>3. \A l \in Locks : notices'[l].v = notices[l].v /\ (Sending(l, c)' <=> Sending(l, c))
    BY <1>1 DEF Sending
  <2>4. RoomKept(c)'
    BY <1>1, <2>1, <2>3, RoomLeftAlone
  <2>5. \A x \in Nat : Carries(c, x)' => Carries(c, x)
    BY <1>1, <1>3 DEF Carries
  <2>6. OneList(c)'
    BY <1>1, <2>1, <2>5 DEF AdminKept, OneList
  <2>7. c \in admins' => AdminFed(c)'
    <3> SUFFICES ASSUME c \in admins PROVE AdminFed(c)'
      BY <1>1
    <3>1. PICK i \in DOMAIN flushes' : flushes'[i].to = admins /\ flushes'[i].v = 0
      BY <1>3
    <3> QED
      BY <3>1 DEF AdminFed
  <2> QED
    BY <2>2, <2>4, <2>6, <2>7 DEF Kept, AdminKept
<1> QED
  BY <1>1, <1>4, <1>5, <1>6 DEF FeedInv

\* A flush reads the rooms.
LEMMA FlushReadStep == ASSUME FeedInv, NEW i \in DOMAIN flushes, FlushRead(i) PROVE FeedInv'
<1>1. /\ flushes[i].v = 0 /\ flushes' = [flushes EXCEPT ![i].v = version]
      /\ crossed' = (crossed \ flushes[i].to) \cup {c \in flushes[i].to : OlderList(c)}
      /\ UNCHANGED <<version, admins, roomSubs, wsConn, adminLast, roomLast, task, armed, adminPending, notices, announced, pushed, raced>>
  BY DEF FlushRead, ListsTo
<1>t. /\ flushes \in Seq([to : SUBSET Clients, v : Nat]) /\ version \in Nat /\ version > 0
      /\ announced \in Nat /\ announced <= version
      /\ \A c \in Clients : /\ adminLast[c] \in Nat /\ adminLast[c] <= version
                            /\ task[c].v \in Nat /\ task[c].v <= version
      /\ \A j \in DOMAIN flushes : flushes[j].v <= version
  BY DEF FeedInv, FType, NotAhead, Flushes, ReaderTask
<1>2. flushes[i] \in [to : SUBSET Clients, v : Nat]
  BY FlushFacts DEF FeedInv
<1>3. /\ flushes' \in Seq([to : SUBSET Clients, v : Nat]) /\ DOMAIN flushes' = DOMAIN flushes
      /\ flushes'[i].to = flushes[i].to /\ flushes'[i].v = version
      /\ \A j \in DOMAIN flushes : j # i => flushes'[j] = flushes[j]
  <2> DEFINE r == [flushes[i] EXCEPT !.v = version]
  <2>1. r \in [to : SUBSET Clients, v : Nat] /\ r.to = flushes[i].to /\ r.v = version
    BY <1>2, <1>t
  <2>2. flushes' = [flushes EXCEPT ![i] = r]
    BY <1>1
  <2> HIDE DEF r
  <2>3. flushes' \in Seq([to : SUBSET Clients, v : Nat])
    BY <1>t, <2>1, <2>2, ExceptSeq
  <2> QED
    BY <2>1, <2>2, <2>3
<1>4. FType'
  BY <1>1, <1>3 DEF FeedInv, FType, Flushes
<1>5. NotAhead'
  <2>1. ASSUME NEW j \in DOMAIN flushes' PROVE flushes'[j].v <= version
    <3>1. CASE j = i
      BY <1>3, <1>t, <3>1
    <3>2. CASE j # i
      BY <1>3, <1>t, <3>2
    <3> QED
      BY <3>1, <3>2
  <2> QED
    BY <1>1, <2>1 DEF FeedInv, NotAhead
<1>6. ASSUME NEW c \in Clients PROVE Kept(c)'
  <2>1. Subscribed(c) /\ AdminKept(c) /\ RoomKept(c)
    BY DEF FeedInv, Kept
  <2>2. Subscribed(c)'
    BY <1>1, <2>1 DEF Subscribed
  <2>3. \A l \in Locks : notices'[l].v = notices[l].v /\ (Sending(l, c)' <=> Sending(l, c))
    BY <1>1 DEF Sending
  <2>4. RoomKept(c)'
    BY <1>1, <2>1, <2>3, RoomLeftAlone
  <2>5. CASE c \in flushes[i].to
    <3>1. Carries(c, version)'
      BY <1>1, <1>3, <1>t, <2>5 DEF Carries
    <3>2. ASSUME c \notin crossed', NEW x \in Nat, Carries(c, x)' PROVE x = version
      <4>1. ~OlderList(c)
        BY <1>1, <2>5, <3>2
      <4>2. CASE task'[c].pc = "shown" /\ task'[c].v = x
        <5>1. ~(task[c].v < version) /\ task[c].v = x
          BY <1>1, <4>1, <4>2 DEF OlderList
        <5> QED
          BY <1>t, <5>1
      <4>3. CASE \E j \in DOMAIN flushes' : c \in flushes'[j].to /\ flushes'[j].v = x /\ x > 0
        <5>1. PICK j \in DOMAIN flushes' : c \in flushes'[j].to /\ flushes'[j].v = x /\ x > 0
          BY <4>3
        <5>2. CASE j = i
          BY <1>3, <5>1, <5>2
        <5>3. CASE j # i
          <6>1. j \in DOMAIN flushes /\ c \in flushes[j].to /\ flushes[j].v = x
            BY <1>3, <5>1, <5>3
          <6>2. x \notin 1 .. (version - 1) /\ x <= version
            BY <1>t, <4>1, <6>1 DEF OlderList
          <6> QED
            BY <1>t, <5>1, <6>2
        <5> QED
          BY <5>2, <5>3
      <4> QED
        BY <3>2, <4>2, <4>3 DEF Carries
    <3>3. OneList(c)'
      BY <1>1, <1>t, <3>2 DEF OneList
    <3>4. AdminFed(c)'
      <4>1. version >= announced' /\ version \in Nat
        BY <1>t, <1>1
      <4> QED
        BY <1>1, <3>1, <4>1 DEF AdminFed
    <3> QED
      BY <2>2, <2>4, <3>3, <3>4 DEF Kept, AdminKept
  <2>6. CASE c \notin flushes[i].to
    <3>1. c \in crossed' <=> c \in crossed
      BY <1>1, <2>6
    <3>2. ASSUME NEW j \in DOMAIN flushes
          PROVE  (c \in flushes'[j].to <=> c \in flushes[j].to) /\ (c \in flushes[j].to => flushes'[j].v = flushes[j].v)
      BY <1>3, <2>6
    <3>3. \A x \in Nat : Carries(c, x)' <=> Carries(c, x)
      BY <1>1, <1>3, <3>2 DEF Carries
    <3>4. OneList(c)'
      BY <1>1, <2>1, <3>1, <3>3 DEF AdminKept, OneList
    <3>5. AdminFed(c) => AdminFed(c)'
      BY <1>1, <1>3, <3>2, <3>3 DEF AdminFed
    <3> QED
      BY <1>1, <2>1, <2>2, <2>4, <3>1, <3>4, <3>5 DEF Kept, AdminKept
  <2> QED
    BY <2>5, <2>6
<1> QED
  BY <1>1, <1>4, <1>5, <1>6 DEF FeedInv

\* A flush sends what it has read to whom it took.
LEMMA FlushSendStep == ASSUME FeedInv, NEW i \in DOMAIN flushes, FlushSend(i) PROVE FeedInv'
<1> DEFINE to == flushes[i].to
           v == flushes[i].v
<1>1. /\ v > 0 /\ flushes' = RemoveAt(flushes, i) /\ Enqueue(to)
      /\ adminLast' = [c \in Clients |-> IF c \in Sent(to) THEN v ELSE adminLast[c]]
      /\ UNCHANGED <<version, admins, roomSubs, roomLast, task, armed, adminPending, notices, announced, pushed, crossed, raced>>
  BY DEF FlushSend, ShowAdmin, told
<1>t. /\ FType /\ flushes \in Seq([to : SUBSET Clients, v : Nat]) /\ version \in Nat /\ adminLast \in [Clients -> Nat]
      /\ to \in SUBSET Clients /\ v \in Nat /\ v <= version /\ announced \in Nat
      /\ \A c \in Clients : adminLast[c] <= version
  <2>1. flushes \in Seq([to : SUBSET Clients, v : Nat]) /\ version \in Nat /\ adminLast \in [Clients -> Nat] /\ announced \in Nat /\ FType
    BY DEF FeedInv, FType, Flushes
  <2>2. flushes[i] \in [to : SUBSET Clients, v : Nat]
    BY FlushFacts DEF FeedInv
  <2> QED
    BY <2>1, <2>2 DEF FeedInv, NotAhead
<1>2. /\ wsConn' \in WsConn
      /\ \A c \in Clients : /\ wsConn'[c] = "open" => wsConn[c] = "open"
                            /\ (wsConn'[c] = "open" /\ c \in to) => c \in Sent(to)
                            /\ wsConn'[c] = "new" => wsConn[c] = "new"
  BY <1>1, <1>t, EnqueueFacts
<1>3. /\ flushes' \in Seq([to : SUBSET Clients, v : Nat])
      /\ \A j \in DOMAIN flushes : j # i => \E k \in DOMAIN flushes' : flushes'[k] = flushes[j]
      /\ \A k \in DOMAIN flushes' : \E j \in DOMAIN flushes : flushes'[k] = flushes[j]
  BY <1>1, <1>t, RemoveAtFacts
<1>c. \A c \in Clients : c \in to => Carries(c, v)
  BY <1>1 DEF Carries
<1>i. flushes[i].v = v /\ flushes[i].to = to /\ Sent(to) \subseteq to
  BY DEF Sent
<1> HIDE DEF v, to
<1>4. \A c \in Clients : /\ adminLast'[c] \in Nat /\ adminLast'[c] <= version
                         /\ c \in Sent(to) => adminLast'[c] = v
                         /\ c \notin Sent(to) => adminLast'[c] = adminLast[c]
  BY <1>1, <1>t
<1>5. adminLast' \in [Clients -> Nat]
  BY <1>1, <1>t
<1>6. FType'
  BY <1>1, <1>2, <1>3, <1>5 DEF FeedInv, FType, Flushes
<1>7. NotAhead'
  BY <1>1, <1>3, <1>4 DEF FeedInv, NotAhead
<1>8. ASSUME NEW c \in Clients PROVE Kept(c)'
  <2>1. Subscribed(c) /\ AdminKept(c) /\ RoomKept(c)
    BY DEF FeedInv, Kept
  <2>2. Subscribed(c)'
    BY <1>1, <1>2, <2>1 DEF Subscribed
  <2>3. \A l \in Locks : notices'[l].v = notices[l].v /\ (Sending(l, c)' <=> Sending(l, c))
    BY <1>1 DEF Sending
  <2>4. RoomKept(c)'
    BY <1>1, <1>2, <2>1, <2>3, RoomLeftAlone
  <2>5. \A x \in Nat : Carries(c, x)' => Carries(c, x)
    BY <1>1, <1>3 DEF Carries
  <2>6. ASSUME c \notin crossed, c \in to, NEW x \in Nat, Carries(c, x) PROVE x = v /\ v >= adminLast[c]
    BY <1>c, <1>t, <2>1, <2>6 DEF AdminKept, OneList
  <2>7. OneList(c)'
    <3> SUFFICES ASSUME c \notin crossed, NEW x \in Nat, NEW y \in Nat, Carries(c, x)', Carries(c, y)'
                 PROVE  x = y /\ x >= adminLast'[c]
      BY <1>1 DEF OneList
    <3>1. x = y /\ x >= adminLast[c]
      BY <2>1, <2>5 DEF AdminKept, OneList
    <3>2. CASE c \in Sent(to)
      <4>1. c \in to /\ adminLast'[c] = v
        BY <1>4, <1>i, <3>2
      <4>2. x = v
        BY <2>5, <2>6, <4>1
      <4> QED
        BY <1>t, <3>1, <4>1, <4>2
    <3>3. CASE c \notin Sent(to)
      BY <1>4, <3>1, <3>3
    <3> QED
      BY <3>2, <3>3
  <2>8. ASSUME NEW j \in DOMAIN flushes, j # i
        PROVE  \E k \in DOMAIN flushes' : flushes'[k] = flushes[j]
    BY <1>3, <2>8
  <2>9. ASSUME wsConn'[c] = "open", c \in admins', c \notin crossed' PROVE AdminFed(c)'
    <3>1. AdminFed(c)
      BY <1>1, <1>2, <2>1, <2>9 DEF AdminKept
    <3>2. CASE armed \/ task[c].pc = "snapshot"
      BY <1>1, <3>2 DEF AdminFed
    <3>3. CASE \E j \in DOMAIN flushes : c \in flushes[j].to /\ flushes[j].v = 0
      <4>1. PICK j \in DOMAIN flushes : c \in flushes[j].to /\ flushes[j].v = 0
        BY <3>3
      <4>2. j # i
        BY <1>1, <1>i, <1>t, <4>1
      <4>3. PICK k \in DOMAIN flushes' : flushes'[k] = flushes[j]
        BY <2>8, <4>2
      <4> QED
        BY <4>1, <4>3 DEF AdminFed
    <3>4. CASE adminLast[c] >= announced \/ \E x \in Nat : Carries(c, x) /\ x >= announced
      <4>1. CASE c \in to
        <5>1. adminLast'[c] = v
          BY <1>2, <1>4, <2>9, <4>1
        <5>2. v >= announced
          <6>1. c \notin crossed /\ v >= adminLast[c] /\ adminLast[c] \in Nat
            BY <1>1, <1>c, <1>t, <2>6, <2>9, <4>1
          <6>2. CASE adminLast[c] >= announced
            BY <1>t, <6>1, <6>2
          <6>3. CASE \E x \in Nat : Carries(c, x) /\ x >= announced
            BY <2>6, <4>1, <6>1, <6>3
          <6> QED
            BY <3>4, <6>2, <6>3
        <5> QED
          BY <1>1, <5>1, <5>2 DEF AdminFed
      <4>2. CASE c \notin to
        <5>1. adminLast'[c] = adminLast[c]
          BY <1>4, <1>i, <4>2
        <5>2. ASSUME NEW x \in Nat, Carries(c, x) PROVE Carries(c, x)'
          <6>1. CASE task[c].pc = "shown" /\ task[c].v = x
            BY <1>1, <6>1 DEF Carries
          <6>2. CASE \E j \in DOMAIN flushes : c \in flushes[j].to /\ flushes[j].v = x /\ x > 0
            <7>1. PICK j \in DOMAIN flushes : c \in flushes[j].to /\ flushes[j].v = x /\ x > 0
              BY <6>2
            <7>2. j # i
              BY <1>i, <4>2, <7>1
            <7>3. PICK k \in DOMAIN flushes' : flushes'[k] = flushes[j]
              BY <2>8, <7>2
            <7> QED
              BY <7>1, <7>3 DEF Carries
          <6> QED
            BY <5>2, <6>1, <6>2 DEF Carries
        <5> QED
          BY <1>1, <3>4, <5>1, <5>2 DEF AdminFed
      <4> QED
        BY <4>1, <4>2
    <3> QED
      BY <3>1, <3>2, <3>3, <3>4 DEF AdminFed
  <2> QED
    BY <2>2, <2>4, <2>7, <2>9 DEF Kept, AdminKept
<1> QED
  BY <1>1, <1>6, <1>7, <1>8 DEF FeedInv

\* The server shuts down: nobody's feed is open.
LEMMA CloseAllStep == ASSUME FeedInv, CloseAll PROVE FeedInv'
<1>1. /\ armed' = FALSE
      /\ wsConn' = [c \in Clients |-> IF wsConn[c] = "open" THEN "closed" ELSE wsConn[c]]
      /\ UNCHANGED <<version, admins, roomSubs, adminLast, roomLast, task, flushes, notices, announced, pushed, crossed, raced>>
  BY DEF CloseAll, told
<1>2. wsConn \in WsConn
  BY DEF FeedInv, FType
<1>3. /\ wsConn' \in WsConn
      /\ \A c \in Clients : wsConn'[c] # "open" /\ (wsConn'[c] = "new" => wsConn[c] = "new")
  BY <1>1, <1>2 DEF WsConn
<1>4. FType' /\ NotAhead'
  BY <1>1, <1>3 DEF FeedInv, FType, NotAhead
<1>5. ASSUME NEW c \in Clients PROVE Kept(c)'
  <2>1. Subscribed(c) /\ AdminKept(c) /\ RoomKept(c)
    BY DEF FeedInv, Kept
  <2>2. \A l \in Locks : notices'[l].v = notices[l].v /\ (Sending(l, c)' <=> Sending(l, c))
    BY <1>1 DEF Sending
  <2>3. RoomKept(c)'
    BY <1>1, <1>3, <2>1, <2>2, RoomLeftAlone
  <2>4. \A x \in Nat : Carries(c, x)' <=> Carries(c, x)
    BY <1>1 DEF Carries
  <2>5. OneList(c)'
    BY <1>1, <2>1, <2>4 DEF AdminKept, OneList
  <2> QED
    BY <1>1, <1>3, <2>1, <2>3, <2>5 DEF Kept, Subscribed, AdminKept
<1> QED
  BY <1>1, <1>4, <1>5 DEF FeedInv

\* BroadcastRoomUpdate, BroadcastAdminUpdate and flushAdminUpdate: for every number
\* of clients and changes, every buffer and any number of overlapping flushes, no open
\* feed is left behind what was last announced without something on its way to it,
\* unless two pushes to it, the older one read first, were under way at once.
THEOREM FeedsAreFollowed == FSpec => []FeedsFollow
<1>1. FInit => FeedInv
  BY FeedInit
<1>2. FeedInv /\ [FNext]_fVars => FeedInv'
  <2> SUFFICES ASSUME FeedInv, [FNext]_fVars PROVE FeedInv'
    OBVIOUS
  <2>1. CASE \E c \in Clients : Accept(c) \/ Disconnect(c) \/ RemoveClient(c) \/ \E ok \in BOOLEAN : Write(c, ok)
    BY <2>1, ConnStep
  <2>2. CASE \E c \in Clients : SubscribeRead(c) \/ SubscribeLeave(c) \/ SubscribeEnter(c)
    BY <2>2, SubscribeStep
  <2>3. CASE \E c \in Clients : SubscribeShow(c) \/ Unsubscribe(c)
    BY <2>3, ShowStep
  <2>4. CASE \E c \in Clients : AdminSubscribe(c) \/ SnapshotRead(c) \/ SnapshotSend(c) \/ AdminUnsubscribe(c)
    BY <2>4, AdminClientStep
  <2>5. CASE \E i \in DOMAIN flushes : FlushRead(i) \/ FlushSend(i)
    BY <2>5, FlushReadStep, FlushSendStep
  <2>6. CASE QuietChange \/ \E l \in Locks : Change(l)
    BY <2>6, ChangeStep
  <2>7. CASE \E l \in Locks : NoticeCopy(l) \/ NoticeAdmin(l)
    BY <2>7, NoticeCopyStep, NoticeAdminStep
  <2>8. ASSUME NEW l \in Locks, NEW v \in 1 .. MaxVersion, NoticeSend(l, v) PROVE FeedInv'
    <3>1. v \in Nat
      BY FeedAssumption
    <3> QED
      BY <2>8, <3>1, NoticeSendStep
  <2>9. CASE FlushTake \/ CloseAll
    BY <2>9, FlushTakeStep, CloseAllStep
  <2>10. CASE UNCHANGED fVars
    <3>1. UNCHANGED <<version, admins, roomSubs, wsConn, adminLast, roomLast, task, armed, adminPending, flushes, notices,
                      announced, pushed, crossed, raced>>
      BY <2>10 DEF fVars
    <3>2. FType' /\ NotAhead' /\ (armed' => adminPending')
      BY <3>1 DEF FeedInv, FType, NotAhead
    <3>3. ASSUME NEW c \in Clients PROVE Kept(c)'
      <4>1. Subscribed(c) /\ AdminKept(c) /\ RoomKept(c)
        BY DEF FeedInv, Kept
      <4>2. \A l \in Locks : notices'[l].v = notices[l].v /\ (Sending(l, c)' <=> Sending(l, c))
        BY <3>1 DEF Sending
      <4>3. AdminKept(c)'
        BY <3>1, <4>1, AdminLeftAlone
      <4>4. RoomKept(c)'
        BY <3>1, <4>1, <4>2, RoomLeftAlone
      <4> QED
        BY <3>1, <4>1, <4>3, <4>4 DEF Kept, Subscribed
    <3> QED
      BY <3>2, <3>3 DEF FeedInv
  <2> QED
    BY <2>1, <2>2, <2>3, <2>4, <2>5, <2>6, <2>7, <2>8, <2>9, <2>10 DEF FNext
<1>3. FeedInv => FeedsFollow
  BY FeedIsSafe
<1> QED
  BY <1>1, <1>2, <1>3, PTL DEF FSpec

-----------------------------------------------------------------------------
(* The settings *)

ConfigFile == [k : {"config"}, v : [Keys -> Nat]]
BansFile == [k : {"bans"}, v : SUBSET Culprits]

Operation ==
  [pc : {"idle", "snapshot", "read", "open", "write", "rename", "reload", "answer"},
   file : Files, key : RtKeys \cup {NoOp.key}, val : Nat, clone : {Nothing} \cup [Keys -> Nat],
   before : Nat, payload : {Nothing} \cup ConfigFile \cup BansFile, fd : Inodes \cup {NoInode}]

SType ==
  /\ inEffect \in [Keys -> Nat] /\ banned \subseteq Culprits /\ ops \in Nat /\ edits \in Nat
  /\ undo \in {Nothing} \cup [k : {"undo"}, key : RtKeys, val : Nat]
  /\ loaded \in {Nothing} \cup ConfigFile
  /\ kept \in [config : [Keys -> Nat], bans : SUBSET Culprits]
  /\ call \in [Admins -> Operation]
  /\ path \in [Files -> Inodes \cup {NoInode}] /\ temp \in [Files -> Inodes \cup {NoInode}]
  /\ data \in [Inodes -> {Nothing} \cup ConfigFile \cup BansFile]

\* The files can be read, and a temporary file is never one of them.
DiskSound ==
  /\ path["config"] # NoInode /\ data[path["config"]] \in ConfigFile
  /\ path["bans"] # NoInode => (path["bans"] # path["config"] /\ data[path["bans"]] \in BansFile)
  /\ \A f, g \in Files : temp[f] # NoInode => (temp[f] # path[g] /\ (f # g => temp[f] # temp[g]))

\* What the operation o has ready for its file.
CallSound(o) ==
  /\ o.pc = "idle" => o.file = "bans"
  /\ o.file = "config" => o.pc \in {"read", "open", "write", "rename", "reload", "answer"}
  /\ o.file = "config" => (o.key \in RtKeys /\ o.clone \in [Keys -> Nat])
  /\ o.file = "bans" => o.pc \in {"idle", "snapshot", "open", "write", "rename", "answer"}
  /\ (o.file = "bans" /\ o.pc \in {"open", "write", "rename", "answer"}) => o.payload \in BansFile
  /\ (o.file = "config" /\ o.pc \in {"open", "write", "rename"}) =>
       /\ o.payload \in ConfigFile
       /\ \A k \in RtKeys : o.payload.v[k] = IF k = o.key THEN o.val ELSE kept.config[k]

\* How far its temporary file is: truncated, or whole.
TempSound(o) ==
  /\ o.pc = "write" => (o.fd # NoInode /\ temp[o.file] = o.fd /\ data[o.fd] = Nothing)
  /\ o.pc # "write" => o.fd = NoInode
  /\ o.pc = "rename" => (temp[o.file] # NoInode /\ data[temp[o.file]] = o.payload)

\* The files hold what was answered, or what o is about to answer.
FilesSound(o) ==
  /\ \A k \in RtKeys :
       data[path["config"]].v[k] = IF o.file = "config" /\ o.pc \in {"reload", "answer"} /\ k = o.key
                                   THEN o.val ELSE kept.config[k]
  /\ LoadAdminData = IF o.file = "bans" /\ o.pc = "answer" THEN o.payload.v ELSE kept.bans

SettingsInv(a) ==
  SType /\ DiskSound /\ CallSound(call[a]) /\ TempSound(call[a]) /\ FilesSound(call[a])

\* The property follows from the invariant.
LEMMA SettingsAreSafe ==
  ASSUME NEW a, Admins = {a}, SettingsInv(a)
  PROVE  RestartKeeps
<1> DEFINE o == call[a]
<1>1. /\ path["config"] # NoInode /\ data[path["config"]] \in ConfigFile
      /\ Content("config") = data[path["config"]]
  BY DEF SettingsInv, DiskSound, Content
<1>2. Content("config") # Nothing
  BY <1>1 DEF ConfigFile, Nothing
<1>3. ASSUME NEW k \in RtKeys
      PROVE  Content("config").v[k] \in {kept.config[k]} \cup {call[b].val : b \in {c \in Admins : call[c].file = "config" /\ call[c].key = k}}
  <2>1. Content("config").v[k] = IF o.file = "config" /\ o.pc \in {"reload", "answer"} /\ k = o.key THEN o.val ELSE kept.config[k]
    BY <1>1 DEF SettingsInv, FilesSound
  <2> QED
    BY <2>1
<1>4. LoadAdminData \in {kept.bans} \cup {call[b].payload.v : b \in {c \in Admins : call[c].payload # Nothing /\ call[c].file = "bans"}}
  <2>1. LoadAdminData = IF o.file = "bans" /\ o.pc = "answer" THEN o.payload.v ELSE kept.bans
    BY DEF SettingsInv, FilesSound
  <2>2. CASE o.file = "bans" /\ o.pc = "answer"
    <3>1. o.payload # Nothing
      BY <2>2 DEF SettingsInv, CallSound, BansFile, Nothing
    <3> QED
      BY <2>1, <2>2, <3>1
  <2> QED
    BY <2>1, <2>2
<1> QED
  BY <1>2, <1>3, <1>4 DEF RestartKeeps

\* An operator with nothing to do.
LEMMA NoOpFacts ==
  /\ NoOp = [pc |-> "idle", file |-> "bans", key |-> NoOp.key, val |-> 0, clone |-> Nothing,
             before |-> 0, payload |-> Nothing, fd |-> NoInode]
  /\ NoOp \in Operation /\ CallSound(NoOp) /\ TempSound(NoOp)
<1>1. NoOp = [pc |-> "idle", file |-> "bans", key |-> NoOp.key, val |-> 0, clone |-> Nothing,
             before |-> 0, payload |-> Nothing, fd |-> NoInode]
  BY DEF NoOp
<1>2. NoOp \in Operation
  BY <1>1 DEF Operation, Files
<1>3. CallSound(NoOp) /\ TempSound(NoOp)
  BY <1>1 DEF CallSound, TempSound
<1> QED
  BY <1>1, <1>2, <1>3

\* There is room on the disk for one more temporary file.
LEMMA InodesOfOne == ASSUME NEW a, Admins = {a} PROVE Inodes = 1 .. 5
<1>1. Cardinality(Admins) = 1
  BY FS_Singleton
<1> QED
  BY <1>1 DEF Inodes

\* The start.
LEMMA SettingsInit ==
  ASSUME NEW a, Admins = {a}, SetInit
  PROVE  SettingsInv(a)
<1>1. /\ inEffect = [k \in Keys |-> 0] /\ banned = {} /\ undo = Nothing
      /\ path = [f \in Files |-> IF f = "config" THEN 1 ELSE NoInode] /\ temp = [f \in Files |-> NoInode]
      /\ data = [i \in Inodes |-> IF i = 1 THEN [k |-> "config", v |-> inEffect] ELSE Nothing]
      /\ loaded = Nothing /\ call = [b \in Admins |-> NoOp] /\ ops = 0 /\ edits = 0
      /\ kept = [config |-> inEffect, bans |-> {}]
  BY DEF SetInit
<1>2. [k |-> "config", v |-> inEffect] \in ConfigFile
  BY <1>1 DEF ConfigFile
<1>3. call[a] = NoOp /\ call \in [Admins -> Operation]
  BY <1>1, NoOpFacts
<1>4. 1 \in Inodes /\ NoInode # 1
  BY InodesOfOne DEF NoInode
<1>5. /\ path["config"] = 1 /\ path["bans"] = NoInode /\ temp["config"] = NoInode /\ temp["bans"] = NoInode
      /\ data[1] = [k |-> "config", v |-> inEffect]
  BY <1>1, <1>4 DEF Files
<1>6. SType
  <2>1. path \in [Files -> Inodes \cup {NoInode}] /\ temp \in [Files -> Inodes \cup {NoInode}]
    BY <1>1, <1>4
  <2>2. data \in [Inodes -> {Nothing} \cup ConfigFile \cup BansFile]
    BY <1>1, <1>2
  <2>3. inEffect \in [Keys -> Nat] /\ kept \in [config : [Keys -> Nat], bans : SUBSET Culprits]
    BY <1>1
  <2> QED
    BY <1>1, <1>3, <2>1, <2>2, <2>3 DEF SType
<1>7. DiskSound
  BY <1>1, <1>2, <1>4, <1>5 DEF DiskSound, Files
<1>8. LoadAdminData = {}
  BY <1>5 DEF LoadAdminData, Content
<1>9. FilesSound(NoOp)
  BY <1>1, <1>5, <1>8, NoOpFacts DEF FilesSound
<1> QED
  BY <1>3, <1>6, <1>7, <1>9, NoOpFacts DEF SettingsInv

\* A step that leaves the disk alone.
LEMMA DiskFrame ==
  ASSUME DiskSound, UNCHANGED <<path, temp, data>>
  PROVE  /\ DiskSound' /\ LoadAdminData' = LoadAdminData
         /\ data'[path'["config"]] = data[path["config"]]
  BY DEF DiskSound, LoadAdminData, Content

\* An operation that leaves the files and what was answered alone keeps the
\* invariant when what it has ready is sound.
LEMMA CallStep ==
  ASSUME NEW a, Admins = {a}, SettingsInv(a), NEW o \in Operation,
         UNCHANGED <<path, temp, data, kept, loaded, edits>>,
         call' = [call EXCEPT ![a] = o],
         inEffect' \in [Keys -> Nat], banned' \subseteq Culprits, ops' \in Nat,
         undo' \in {Nothing} \cup [k : {"undo"}, key : RtKeys, val : Nat],
         CallSound(o), TempSound(o), FilesSound(o)
  PROVE  SettingsInv(a)'
<1>1. call \in [Admins -> Operation]
  BY DEF SettingsInv, SType
<1>2. call'[a] = o /\ call' \in [Admins -> Operation]
  BY <1>1
<1>3. SType'
  BY <1>2 DEF SettingsInv, SType
<1>4. DiskSound' /\ LoadAdminData' = LoadAdminData
  BY DiskFrame DEF SettingsInv
<1>5. CallSound(call[a])'
  BY <1>2 DEF CallSound
<1>6. TempSound(call[a])'
  BY <1>2 DEF TempSound
<1>7. FilesSound(call[a])'
  BY <1>2, <1>4 DEF FilesSound
<1> QED
  BY <1>3, <1>4, <1>5, <1>6, <1>7 DEF SettingsInv

\* The operation under way.
LEMMA CallFacts ==
  ASSUME NEW a, Admins = {a}, SettingsInv(a)
  PROVE  /\ call[a] \in Operation /\ CallSound(call[a]) /\ TempSound(call[a]) /\ FilesSound(call[a])
         /\ inEffect \in [Keys -> Nat] /\ banned \subseteq Culprits /\ ops \in Nat
         /\ undo \in {Nothing} \cup [k : {"undo"}, key : RtKeys, val : Nat]
         /\ path["config"] # NoInode /\ data[path["config"]] \in ConfigFile
         /\ Content("config") = data[path["config"]]
  BY DEF SettingsInv, SType, DiskSound, Content

\* An operation begins.
LEMMA BeginStep ==
  ASSUME NEW a, Admins = {a}, SettingsInv(a),
         (\E k \in RtKeys : Patch(a, k)) \/ Rollback(a) \/ \E u \in Culprits : Ban(a, u)
  PROVE  SettingsInv(a)'
<1> USE CallFacts
<1>1. call[a].pc = "idle" /\ ops' = ops + 1 /\ UNCHANGED <<path, temp, data, kept, loaded, edits, inEffect, undo>>
  BY DEF Patch, Rollback, Ban, ApplyRuntimePatch, Begin
<1>2. call[a].file = "bans" /\ ops' \in Nat
  BY <1>1 DEF CallSound
<1>3. FilesSound(call[a]) /\ (\A k \in RtKeys : data[path["config"]].v[k] = kept.config[k]) /\ LoadAdminData = kept.bans
  BY <1>1, <1>2 DEF FilesSound
<1>4. ASSUME NEW k \in RtKeys, NEW v \in Nat, ApplyRuntimePatch(a, k, v), UNCHANGED banned PROVE SettingsInv(a)'
  <2> DEFINE next == [inEffect EXCEPT ![k] = v]
             old == inEffect[k]
             o == [NoOp EXCEPT !.pc = "read", !.file = "config", !.key = k, !.val = v, !.clone = next, !.before = old]
  <2>1. call' = [call EXCEPT ![a] = o]
    BY <1>4 DEF ApplyRuntimePatch, Begin
  <2>2. next \in [Keys -> Nat] /\ old \in Nat
    BY DEF Keys
  <2> HIDE DEF next, old
  <2>e. o = [NoOp EXCEPT !.pc = "read", !.file = "config", !.key = k, !.val = v, !.clone = next, !.before = old]
    OBVIOUS
  <2> HIDE DEF o
  <2>3. /\ o \in Operation
        /\ o.pc = "read" /\ o.file = "config" /\ o.key = k /\ o.clone = next /\ o.fd = NoInode
    <3>1. NoOp \in Operation /\ NoOp.fd = NoInode
      BY NoOpFacts
    <3> QED
      BY <2>2, <2>e, <3>1 DEF Operation, Files
  <2>4. CallSound(o) /\ TempSound(o)
    BY <2>2, <2>3 DEF CallSound, TempSound
  <2>5. FilesSound(o)
    BY <1>3, <2>3 DEF FilesSound
  <2> QED
    BY <1>1, <1>2, <1>4, <2>1, <2>3, <2>4, <2>5, CallStep
<1>5. ASSUME NEW u \in Culprits, Ban(a, u) PROVE SettingsInv(a)'
  <2> DEFINE o == [NoOp EXCEPT !.pc = "snapshot"]
  <2>1. call' = [call EXCEPT ![a] = o] /\ banned' \subseteq Culprits
    BY <1>5 DEF Ban, Begin
  <2>2. o = [pc |-> "snapshot", file |-> "bans", key |-> NoOp.key, val |-> 0, clone |-> Nothing,
             before |-> 0, payload |-> Nothing, fd |-> NoInode]
    BY NoOpFacts
  <2>3. o \in Operation
    BY <2>2 DEF Operation, Files
  <2>4. CallSound(o) /\ TempSound(o)
    BY <2>2 DEF CallSound, TempSound
  <2>5. FilesSound(o)
    BY <1>3, <2>2 DEF FilesSound
  <2> HIDE DEF o
  <2> QED
    BY <1>1, <1>2, <2>1, <2>3, <2>4, <2>5, CallStep
<1>6. CASE \E k \in RtKeys : Patch(a, k)
  BY <1>4, <1>6 DEF Patch
<1>7. CASE Rollback(a)
  <2>1. undo.key \in RtKeys /\ undo.val \in Nat
    BY <1>7 DEF Rollback
  <2> QED
    BY <1>4, <1>7, <2>1 DEF Rollback
<1> QED
  BY <1>5, <1>6, <1>7

\* What is to be written is made ready.
LEMMA ReadyStep ==
  ASSUME NEW a, Admins = {a}, SettingsInv(a), Snapshot(a) \/ PersistRead(a)
  PROVE  SettingsInv(a)'
<1> USE CallFacts
<1> DEFINE c == call[a]
<1>1. UNCHANGED <<path, temp, data, kept, loaded, edits, inEffect, undo, banned, ops>>
  BY DEF Snapshot, PersistRead
<1>2. CASE Snapshot(a)
  <2> DEFINE o == [c EXCEPT !.pc = "open", !.payload = [k |-> "bans", v |-> banned]]
  <2>1. call' = [call EXCEPT ![a] = o] /\ c.pc = "snapshot"
    BY <1>2 DEF Snapshot
  <2>2. [k |-> "bans", v |-> banned] \in BansFile
    BY DEF BansFile
  <2>3. o \in Operation
    BY <2>2 DEF Operation
  <2>4. /\ o.pc = "open" /\ o.payload = [k |-> "bans", v |-> banned] /\ o.file = c.file /\ o.key = c.key
        /\ o.val = c.val /\ o.clone = c.clone /\ o.fd = c.fd
    BY DEF Operation
  <2>5. c.file = "bans"
    BY <2>1 DEF CallSound, Operation, Files
  <2> HIDE DEF o
  <2>6. CallSound(o) /\ TempSound(o)
    BY <2>1, <2>2, <2>4, <2>5 DEF CallSound, TempSound
  <2>7. FilesSound(o)
    BY <2>1, <2>4, <2>5 DEF FilesSound
  <2> QED
    BY <1>1, <2>1, <2>3, <2>6, <2>7, CallStep
<1>3. CASE PersistRead(a)
  <2> DEFINE now == data[path["config"]]
             new == [k |-> "config", v |-> [now.v EXCEPT ![c.key] = c.val]]
  <2>1. c.pc = "read" /\ c.file = "config" /\ c.key \in RtKeys /\ c.clone \in [Keys -> Nat] /\ c.fd = NoInode
    BY <1>3 DEF PersistRead, CallSound, TempSound, Operation, Files
  <2>2. now # Nothing /\ now.v \in [Keys -> Nat] /\ c.val \in Nat
    BY DEF ConfigFile, Nothing, Operation
  <2>3. \/ now.v[c.key] = c.val /\ call' = [call EXCEPT ![a] = [c EXCEPT !.pc = "reload"]]
        \/ call' = [call EXCEPT ![a] = [c EXCEPT !.pc = "open", !.payload = new]]
    BY <1>3, <2>2 DEF PersistRead
  <2>4. \A k \in RtKeys : now.v[k] = kept.config[k]
    BY <2>1 DEF FilesSound
  <2>5. /\ new \in ConfigFile
        /\ \A k \in RtKeys : new.v[k] = IF k = c.key THEN c.val ELSE kept.config[k]
    BY <2>1, <2>2, <2>4 DEF ConfigFile, Keys
  <2> HIDE DEF now, new
  <2>6. CASE now.v[c.key] = c.val /\ call' = [call EXCEPT ![a] = [c EXCEPT !.pc = "reload"]]
    <3> DEFINE o == [c EXCEPT !.pc = "reload"]
    <3>1. /\ o \in Operation /\ o.pc = "reload" /\ o.payload = c.payload /\ o.file = c.file /\ o.key = c.key
          /\ o.val = c.val /\ o.clone = c.clone /\ o.fd = c.fd
      BY DEF Operation
    <3>2. call' = [call EXCEPT ![a] = o]
      BY <2>6
    <3> HIDE DEF o
    <3>3. CallSound(o) /\ TempSound(o)
      BY <2>1, <3>1 DEF CallSound, TempSound
    <3>4. FilesSound(o)
      BY <2>1, <2>4, <2>6, <3>1 DEF FilesSound, now
    <3> QED
      BY <1>1, <3>1, <3>2, <3>3, <3>4, CallStep
  <2>7. CASE call' = [call EXCEPT ![a] = [c EXCEPT !.pc = "open", !.payload = new]]
    <3> DEFINE o == [c EXCEPT !.pc = "open", !.payload = new]
    <3>1. /\ o \in Operation /\ o.pc = "open" /\ o.payload = new /\ o.file = c.file /\ o.key = c.key
          /\ o.val = c.val /\ o.clone = c.clone /\ o.fd = c.fd
      BY <2>5 DEF Operation
    <3>2. call' = [call EXCEPT ![a] = o]
      BY <2>7
    <3> HIDE DEF o
    <3>3. CallSound(o) /\ TempSound(o)
      BY <2>1, <2>5, <3>1 DEF CallSound, TempSound
    <3>4. FilesSound(o)
      BY <2>1, <2>4, <3>1 DEF FilesSound, now
    <3> QED
      BY <1>1, <3>1, <3>2, <3>3, <3>4, CallStep
  <2> QED
    BY <2>3, <2>6, <2>7
<1> QED
  BY <1>2, <1>3

\* Writing to an inode that is neither file leaves both as they were.
LEMMA OtherInode ==
  ASSUME SType, DiskSound, NEW i \in Inodes, NEW d, data' = [data EXCEPT ![i] = d], path' = path,
         \A f \in Files : path[f] # i
  PROVE  /\ data'[path["config"]] = data[path["config"]]
         /\ path["bans"] # NoInode => data'[path["bans"]] = data[path["bans"]]
         /\ data'[i] = d /\ LoadAdminData' = LoadAdminData
<1>1. data \in [Inodes -> {Nothing} \cup ConfigFile \cup BansFile] /\ path \in [Files -> Inodes \cup {NoInode}]
  BY DEF SType
<1>2. \A f \in Files : path[f] # NoInode => data'[path[f]] = data[path[f]]
  BY <1>1
<1>3. data'[i] = d
  BY <1>1
<1>4. path["bans"] # NoInode => data'[path["bans"]] = data[path["bans"]]
  BY <1>2 DEF Files
<1>5. LoadAdminData' = LoadAdminData
  BY <1>4 DEF LoadAdminData, Content
<1> QED
  BY <1>2, <1>3, <1>4, <1>5 DEF DiskSound, Files

\* The temporary file is opened: the old one again, or a new one, and it is empty.
LEMMA OpenTempStep ==
  ASSUME NEW a, Admins = {a}, SettingsInv(a), OpenTemp(a)
  PROVE  SettingsInv(a)'
<1> DEFINE c == call[a]
           f == c.file
           i == IF temp[f] # NoInode THEN temp[f] ELSE CHOOSE n \in Inodes : Free(n)
<1>c. c \in Operation /\ CallSound(c) /\ TempSound(c) /\ FilesSound(c) /\ f \in Files
  BY CallFacts DEF Operation
<1>1. /\ c.pc = "open" /\ temp' = [temp EXCEPT ![f] = i] /\ data' = [data EXCEPT ![i] = Nothing]
      /\ call' = [call EXCEPT ![a] = [c EXCEPT !.pc = "write", !.fd = i]]
      /\ UNCHANGED <<inEffect, banned, undo, path, loaded, ops, edits, kept>>
  <2>1. /\ temp' = [temp EXCEPT ![f] = i] /\ data' = [data EXCEPT ![i] = Nothing]
        /\ call' = [call EXCEPT ![a].pc = "write", ![a].fd = i]
    BY DEF OpenTemp
  <2> HIDE DEF i
  <2> QED
    BY <2>1 DEF OpenTemp
<1>t. /\ path \in [Files -> Inodes \cup {NoInode}] /\ temp \in [Files -> Inodes \cup {NoInode}]
      /\ data \in [Inodes -> {Nothing} \cup ConfigFile \cup BansFile] /\ call \in [Admins -> Operation]
  BY DEF SettingsInv, SType
<1>2. i \in Inodes /\ i # NoInode /\ (\A g \in Files : path[g] # i) /\ \A g \in Files : g # f => temp[g] # i
  <2>1. CASE temp[f] # NoInode
    BY <1>c, <1>t, <2>1 DEF SettingsInv, DiskSound
  <2>2. CASE temp[f] = NoInode
    <3> DEFINE used == {path["config"], path["bans"], temp["config"], temp["bans"], c.fd}
    <3>1. NoInode \in used /\ (temp["config"] = NoInode \/ temp["bans"] = NoInode) /\ c.fd = NoInode
      BY <1>1, <1>c, <2>2 DEF TempSound, Files
    <3>2. 1 \notin used \/ 2 \notin used \/ 3 \notin used \/ 4 \notin used
      <4>1. \E x, y, z : used \subseteq {NoInode, x, y, z}
        BY <3>1
      <4>2. PICK x, y, z : used \subseteq {NoInode, x, y, z}
        BY <4>1
      <4> HIDE DEF used
      <4> QED
        BY <4>2 DEF NoInode
    <3>3. \A n \in Inodes : n \notin used => Free(n)
      BY DEF Free, Files
    <3>4. \E n \in Inodes : Free(n)
      BY <3>2, <3>3, InodesOfOne
    <3>5. i \in Inodes /\ Free(i)
      BY <2>2, <3>4
    <3>6. NoInode \notin Inodes
      <4>1. Inodes = 1 .. 5
        BY InodesOfOne
      <4> HIDE DEF i
      <4> QED
        BY <4>1 DEF NoInode
    <3> HIDE DEF i
    <3> QED
      BY <3>5, <3>6 DEF Free
  <2> QED
    BY <2>1, <2>2
<1> HIDE DEF i
<1>3. /\ data'[path["config"]] = data[path["config"]] /\ LoadAdminData' = LoadAdminData
      /\ path["bans"] # NoInode => data'[path["bans"]] = data[path["bans"]]
      /\ data'[i] = Nothing
  BY <1>1, <1>2, OtherInode DEF SettingsInv
<1>4. /\ call'[a] \in Operation /\ call'[a].pc = "write" /\ call'[a].fd = i /\ call'[a].file = f
      /\ call'[a].key = c.key /\ call'[a].val = c.val /\ call'[a].clone = c.clone /\ call'[a].payload = c.payload
  <2>1. call'[a] = [c EXCEPT !.pc = "write", !.fd = i]
    BY <1>1, <1>t
  <2> HIDE DEF c
  <2> QED
    BY <1>2, <1>c, <2>1 DEF Operation
<1>5. SType'
  <2>1. call' \in [Admins -> Operation]
    BY <1>1, <1>4, <1>t
  <2>2. temp' \in [Files -> Inodes \cup {NoInode}] /\ data' \in [Inodes -> {Nothing} \cup ConfigFile \cup BansFile]
    BY <1>1, <1>2, <1>t
  <2> QED
    BY <1>1, <2>1, <2>2 DEF SettingsInv, SType
<1>6. temp'[f] = i /\ \A g \in Files : g # f => temp'[g] = temp[g]
  BY <1>1, <1>t, <1>c
<1>7. DiskSound'
  BY <1>1, <1>2, <1>3, <1>6 DEF SettingsInv, DiskSound
<1>8. CallSound(call[a])'
  BY <1>1, <1>4, <1>c DEF CallSound
<1>9. TempSound(call[a])'
  BY <1>2, <1>3, <1>4, <1>6 DEF TempSound
<1>10. FilesSound(call[a])'
  BY <1>1, <1>3, <1>4, <1>c DEF FilesSound
<1> QED
  BY <1>5, <1>7, <1>8, <1>9, <1>10 DEF SettingsInv

\* It is written, by nobody else.
LEMMA WriteTempStep ==
  ASSUME NEW a, Admins = {a}, SettingsInv(a), WriteTemp(a)
  PROVE  SettingsInv(a)'
<1> DEFINE c == call[a]
           i == c.fd
<1>c. c \in Operation /\ CallSound(c) /\ TempSound(c) /\ FilesSound(c) /\ c.file \in Files
  BY CallFacts DEF Operation
<1>t. /\ path \in [Files -> Inodes \cup {NoInode}] /\ temp \in [Files -> Inodes \cup {NoInode}]
      /\ data \in [Inodes -> {Nothing} \cup ConfigFile \cup BansFile] /\ call \in [Admins -> Operation]
  BY DEF SettingsInv, SType
<1>0. c.pc = "write" /\ temp[c.file] = i /\ data[i] = Nothing /\ i # NoInode /\ i \in Inodes
  BY <1>c DEF WriteTemp, TempSound, Operation
<1>1. /\ data' = [data EXCEPT ![i] = c.payload]
      /\ call' = [call EXCEPT ![a] = [c EXCEPT !.pc = "rename", !.fd = NoInode]]
      /\ UNCHANGED <<inEffect, banned, undo, path, temp, loaded, ops, edits, kept>>
  BY <1>0 DEF WriteTemp
<1>2. \A g \in Files : path[g] # i
  BY <1>0, <1>c DEF SettingsInv, DiskSound
<1>3. /\ data'[path["config"]] = data[path["config"]] /\ LoadAdminData' = LoadAdminData
      /\ path["bans"] # NoInode => data'[path["bans"]] = data[path["bans"]]
      /\ data'[i] = c.payload
  BY <1>0, <1>1, <1>2, OtherInode DEF SettingsInv
<1>4. /\ call'[a] \in Operation /\ call'[a].pc = "rename" /\ call'[a].fd = NoInode /\ call'[a].file = c.file
      /\ call'[a].key = c.key /\ call'[a].val = c.val /\ call'[a].clone = c.clone /\ call'[a].payload = c.payload
  <2>1. call'[a] = [c EXCEPT !.pc = "rename", !.fd = NoInode]
    BY <1>1, <1>t
  <2> HIDE DEF c
  <2> QED
    BY <1>c, <2>1 DEF Operation
<1>5. SType'
  <2>1. call' \in [Admins -> Operation]
    BY <1>1, <1>4, <1>t
  <2>2. c.payload \in {Nothing} \cup ConfigFile \cup BansFile
    BY <1>c DEF Operation
  <2>3. data' \in [Inodes -> {Nothing} \cup ConfigFile \cup BansFile]
    BY <1>1, <1>t, <2>2
  <2> QED
    BY <1>1, <2>1, <2>3 DEF SettingsInv, SType
<1>6. DiskSound'
  BY <1>1, <1>3 DEF SettingsInv, DiskSound
<1>7. CallSound(call[a])'
  BY <1>0, <1>1, <1>4, <1>c DEF CallSound
<1>8. TempSound(call[a])'
  BY <1>0, <1>1, <1>3, <1>4 DEF TempSound
<1>9. FilesSound(call[a])'
  BY <1>0, <1>1, <1>3, <1>4, <1>c DEF FilesSound
<1> QED
  BY <1>5, <1>6, <1>7, <1>8, <1>9 DEF SettingsInv

\* The rename replaces the file in one step.
LEMMA RenameStep ==
  ASSUME NEW a, Admins = {a}, SettingsInv(a), Rename(a)
  PROVE  SettingsInv(a)'
<1> DEFINE c == call[a]
           f == c.file
           next == Written(a)
<1>c. c \in Operation /\ CallSound(c) /\ TempSound(c) /\ FilesSound(c) /\ f \in Files
  BY CallFacts DEF Operation
<1>t. /\ path \in [Files -> Inodes \cup {NoInode}] /\ temp \in [Files -> Inodes \cup {NoInode}]
      /\ data \in [Inodes -> {Nothing} \cup ConfigFile \cup BansFile] /\ call \in [Admins -> Operation]
  BY DEF SettingsInv, SType
<1>0. c.pc = "rename" /\ temp[f] # NoInode /\ data[temp[f]] = c.payload
  BY <1>c DEF Rename, TempSound, Operation
<1>1. /\ path' = [path EXCEPT ![f] = temp[f]] /\ temp' = [temp EXCEPT ![f] = NoInode]
      /\ call' = [call EXCEPT ![a] = [c EXCEPT !.pc = next]]
      /\ UNCHANGED <<inEffect, banned, undo, data, loaded, ops, edits, kept>>
  BY <1>0 DEF Rename, Replaced
<1>2. /\ f = "config" => next = "reload"
      /\ f = "bans" => next = "answer"
      /\ next \in {"reload", "answer"}
  BY DEF Written
<1> HIDE DEF next
<1>3. /\ path'[f] = temp[f] /\ temp'[f] = NoInode
      /\ \A g \in Files : g # f => (path'[g] = path[g] /\ temp'[g] = temp[g])
      /\ path' \in [Files -> Inodes \cup {NoInode}] /\ temp' \in [Files -> Inodes \cup {NoInode}]
  BY <1>1, <1>t, <1>c
<1>4. /\ call'[a] \in Operation /\ call'[a].pc = next /\ call'[a].fd = c.fd /\ call'[a].file = f
      /\ call'[a].key = c.key /\ call'[a].val = c.val /\ call'[a].clone = c.clone /\ call'[a].payload = c.payload
  <2>1. call'[a] = [c EXCEPT !.pc = next]
    BY <1>1, <1>t
  <2> HIDE DEF c
  <2> QED
    BY <1>2, <1>c, <2>1 DEF Operation
<1>5. SType'
  <2>1. call' \in [Admins -> Operation]
    BY <1>1, <1>4, <1>t
  <2> QED
    BY <1>1, <1>3, <2>1 DEF SettingsInv, SType
<1>6. CallSound(call[a])'
  BY <1>0, <1>1, <1>2, <1>4, <1>c DEF CallSound
<1>7. TempSound(call[a])'
  BY <1>0, <1>2, <1>4, <1>c DEF TempSound
<1>8. CASE f = "config"
  <2>1. c.payload \in ConfigFile /\ \A k \in RtKeys : c.payload.v[k] = IF k = c.key THEN c.val ELSE kept.config[k]
    BY <1>0, <1>8, <1>c DEF CallSound
  <2>2. data'[path'["config"]] = c.payload /\ path'["config"] # NoInode /\ path'["config"] = temp["config"]
    BY <1>0, <1>1, <1>3, <1>8
  <2>3. path'["bans"] = path["bans"] /\ LoadAdminData' = LoadAdminData
    BY <1>1, <1>3, <1>8 DEF LoadAdminData, Content, Files
  <2>4. DiskSound'
    BY <1>0, <1>1, <1>3, <1>8, <2>1, <2>2, <2>3 DEF SettingsInv, DiskSound, Files
  <2>5. LoadAdminData = kept.bans
    BY <1>8, <1>c DEF FilesSound
  <2>6. FilesSound(call[a])'
    BY <1>1, <1>2, <1>4, <1>8, <2>1, <2>2, <2>3, <2>5 DEF FilesSound
  <2> QED
    BY <1>5, <1>6, <1>7, <2>4, <2>6 DEF SettingsInv
<1>9. CASE f = "bans"
  <2>1. c.payload \in BansFile /\ c.payload # Nothing
    BY <1>0, <1>9, <1>c DEF CallSound, BansFile, Nothing
  <2>2. data'[path'["bans"]] = c.payload /\ path'["bans"] # NoInode /\ path'["bans"] = temp["bans"]
    BY <1>0, <1>1, <1>3, <1>9
  <2>3. path'["config"] = path["config"]
    BY <1>3, <1>9 DEF Files
  <2>4. LoadAdminData' = c.payload.v
    BY <2>1, <2>2 DEF LoadAdminData, Content
  <2>5. DiskSound'
    BY <1>0, <1>1, <1>3, <1>9, <2>1, <2>2, <2>3 DEF SettingsInv, DiskSound, Files
  <2>6. \A k \in RtKeys : data[path["config"]].v[k] = kept.config[k]
    BY <1>9, <1>c DEF FilesSound
  <2>7. FilesSound(call[a])'
    BY <1>1, <1>2, <1>4, <1>9, <2>3, <2>4, <2>6 DEF FilesSound
  <2> QED
    BY <1>5, <1>6, <1>7, <2>5, <2>7 DEF SettingsInv
<1> QED
  BY <1>8, <1>9, <1>c DEF Files

\* The patch takes effect.
LEMMA PatchReloadStep ==
  ASSUME NEW a, Admins = {a}, SettingsInv(a), PatchReload(a)
  PROVE  SettingsInv(a)'
<1> USE CallFacts
<1> DEFINE c == call[a]
           o == [c EXCEPT !.pc = "answer"]
<1>1. /\ c.pc = "reload" /\ call' = [call EXCEPT ![a] = o]
      /\ inEffect' = [k \in Keys |-> IF k \in BootKeys THEN inEffect[k] ELSE c.clone[k]]
      /\ UNCHANGED <<path, temp, data, kept, loaded, edits, undo, banned, ops>>
  BY DEF PatchReload, ReloadConfig
<1>2. c.file = "config" /\ c.clone \in [Keys -> Nat]
  BY <1>1 DEF CallSound, Operation, Files
<1>3. inEffect' \in [Keys -> Nat]
  BY <1>1, <1>2
<1>4. /\ o \in Operation /\ o.pc = "answer" /\ o.payload = c.payload /\ o.file = c.file /\ o.key = c.key
      /\ o.val = c.val /\ o.clone = c.clone /\ o.fd = c.fd
  BY DEF Operation
<1> HIDE DEF o
<1>5. CallSound(o) /\ TempSound(o)
  BY <1>1, <1>2, <1>4 DEF CallSound, TempSound
<1>6. FilesSound(o)
  BY <1>1, <1>2, <1>4 DEF FilesSound
<1> QED
  BY <1>1, <1>3, <1>4, <1>5, <1>6, CallStep

\* The operator has the answer, and what it says is in the file.
LEMMA AnswerStep ==
  ASSUME NEW a, Admins = {a}, SettingsInv(a), Answer(a)
  PROVE  SettingsInv(a)'
<1> USE CallFacts
<1> DEFINE c == call[a]
<1>1. c.pc = "answer" /\ call' = [call EXCEPT ![a] = NoOp] /\ UNCHANGED <<inEffect, banned, path, temp, data, loaded, ops, edits>>
  BY DEF Answer
<1>t. call \in [Admins -> Operation] /\ kept \in [config : [Keys -> Nat], bans : SUBSET Culprits]
  BY DEF SettingsInv, SType
<1>2. call'[a] = NoOp /\ call' \in [Admins -> Operation]
  BY <1>1, <1>t, NoOpFacts
<1>3. DiskSound' /\ LoadAdminData' = LoadAdminData
  BY <1>1, DiskFrame DEF SettingsInv
<1>4. CallSound(call[a])' /\ TempSound(call[a])'
  BY <1>2, NoOpFacts DEF CallSound, TempSound
<1>5. CASE c.file = "config"
  <2>1. c.key \in RtKeys /\ c.val \in Nat /\ c.before \in Nat
    BY <1>5 DEF CallSound, Operation
  <2>2. /\ undo' = [k |-> "undo", key |-> c.key, val |-> c.before]
        /\ kept' = [kept EXCEPT !.config[c.key] = c.val]
    BY <1>1, <1>5 DEF Answer
  <2>3. /\ kept' \in [config : [Keys -> Nat], bans : SUBSET Culprits] /\ kept'.bans = kept.bans
        /\ \A k \in RtKeys : kept'.config[k] = IF k = c.key THEN c.val ELSE kept.config[k]
    BY <1>t, <2>1, <2>2 DEF Keys
  <2>4. undo' \in {Nothing} \cup [k : {"undo"}, key : RtKeys, val : Nat]
    BY <2>1, <2>2
  <2>5. SType'
    BY <1>1, <1>2, <2>3, <2>4 DEF SettingsInv, SType
  <2>6. \A k \in RtKeys : data[path["config"]].v[k] = IF k = c.key THEN c.val ELSE kept.config[k]
    BY <1>1, <1>5 DEF FilesSound
  <2>7. LoadAdminData = kept.bans
    BY <1>5 DEF FilesSound
  <2>8. call'[a].file = "bans" /\ call'[a].pc = "idle"
    BY <1>2, NoOpFacts
  <2>9. FilesSound(call[a])'
    BY <1>1, <1>3, <2>3, <2>6, <2>7, <2>8 DEF FilesSound
  <2> QED
    BY <1>3, <1>4, <2>5, <2>9 DEF SettingsInv
<1>6. CASE c.file = "bans"
  <2>1. c.payload \in BansFile
    BY <1>1, <1>6 DEF CallSound
  <2>2. undo' = undo /\ kept' = [kept EXCEPT !.bans = c.payload.v]
    BY <1>6 DEF Answer
  <2>3. /\ kept' \in [config : [Keys -> Nat], bans : SUBSET Culprits] /\ kept'.bans = c.payload.v
        /\ kept'.config = kept.config
    BY <1>t, <2>1, <2>2 DEF BansFile
  <2>4. SType'
    BY <1>1, <1>2, <2>2, <2>3 DEF SettingsInv, SType
  <2>5. (\A k \in RtKeys : data[path["config"]].v[k] = kept.config[k]) /\ LoadAdminData = c.payload.v
    BY <1>1, <1>6 DEF FilesSound
  <2>6. call'[a].file = "bans" /\ call'[a].pc = "idle"
    BY <1>2, NoOpFacts
  <2>7. FilesSound(call[a])'
    BY <1>1, <1>3, <2>3, <2>5, <2>6 DEF FilesSound
  <2> QED
    BY <1>3, <1>4, <2>4, <2>7 DEF SettingsInv
<1> QED
  BY <1>5, <1>6 DEF Operation, Files

\* The watcher changes what is in effect, never a file.
LEMMA WatcherStep ==
  ASSUME NEW a, Admins = {a}, SettingsInv(a), Poll \/ WatcherReload
  PROVE  SettingsInv(a)'
<1> USE CallFacts
<1>1. UNCHANGED <<banned, undo, path, temp, data, call, ops, edits, kept>>
  BY DEF Poll, WatcherReload
<1>2. \/ loaded' = data[path["config"]] /\ inEffect' = inEffect
      \/ /\ loaded # Nothing /\ loaded' = Nothing
         /\ inEffect' = [k \in Keys |-> IF k \in BootKeys THEN inEffect[k] ELSE loaded.v[k]]
  BY DEF Poll, WatcherReload, ReloadConfig
<1>3. inEffect' \in [Keys -> Nat] /\ loaded' \in {Nothing} \cup ConfigFile
  <2>1. CASE loaded' = data[path["config"]] /\ inEffect' = inEffect
    BY <2>1
  <2>2. CASE /\ loaded # Nothing /\ loaded' = Nothing
             /\ inEffect' = [k \in Keys |-> IF k \in BootKeys THEN inEffect[k] ELSE loaded.v[k]]
    <3>1. loaded.v \in [Keys -> Nat]
      BY <2>2 DEF SettingsInv, SType, ConfigFile
    <3> QED
      BY <2>2, <3>1
  <2> QED
    BY <1>2, <2>1, <2>2
<1>4. SType'
  BY <1>1, <1>3 DEF SettingsInv, SType
<1>5. DiskSound' /\ LoadAdminData' = LoadAdminData
  BY <1>1, DiskFrame DEF SettingsInv
<1>6. CallSound(call[a])' /\ TempSound(call[a])'
  BY <1>1 DEF CallSound, TempSound
<1>7. FilesSound(call[a])'
  BY <1>1, <1>5 DEF FilesSound
<1> QED
  BY <1>4, <1>5, <1>6, <1>7 DEF SettingsInv

\* An editor changes keys that no operation patches.
LEMMA EditStep ==
  ASSUME NEW a, Admins = {a}, SettingsInv(a), NEW k \in BootKeys, Edit(k)
  PROVE  SettingsInv(a)'
<1> USE CallFacts
<1> DEFINE p == path["config"]
           c == call[a]
<1>1. /\ edits' = edits + 1 /\ data' = [data EXCEPT ![p].v[k] = edits']
      /\ UNCHANGED <<inEffect, banned, undo, path, temp, loaded, call, ops, kept>>
  BY DEF Edit
<1>t. /\ path \in [Files -> Inodes \cup {NoInode}] /\ edits \in Nat
      /\ data \in [Inodes -> {Nothing} \cup ConfigFile \cup BansFile]
  BY DEF SettingsInv, SType
<1>2. p \in Inodes /\ p # NoInode /\ data[p] \in ConfigFile
  BY <1>t DEF Files
<1>3. /\ data'[p] \in ConfigFile /\ \A j \in Keys : j # k => data'[p].v[j] = data[p].v[j]
      /\ data' = [data EXCEPT ![p] = data'[p]]
  <2> DEFINE r == [data[p] EXCEPT !.v = [data[p].v EXCEPT ![k] = edits']]
  <2>1. data' = [data EXCEPT ![p] = r]
    BY <1>1
  <2>2. data[p].v \in [Keys -> Nat] /\ edits' \in Nat /\ k \in Keys
    BY <1>1, <1>2, <1>t DEF ConfigFile, Keys
  <2>3. r \in ConfigFile /\ \A j \in Keys : j # k => r.v[j] = data[p].v[j]
    BY <1>2, <2>2 DEF ConfigFile
  <2> HIDE DEF r, p
  <2>4. data'[p] = r
    BY <1>2, <1>t, <2>1
  <2> QED
    BY <2>1, <2>3, <2>4
<1> HIDE DEF p
<1>4. /\ data' \in [Inodes -> {Nothing} \cup ConfigFile \cup BansFile]
      /\ \A i \in Inodes : i # p => data'[i] = data[i]
  BY <1>2, <1>3, <1>t
<1>5. SType'
  BY <1>1, <1>4, <1>t DEF SettingsInv, SType
<1>6. path["bans"] # NoInode => data'[path["bans"]] = data[path["bans"]]
  BY <1>4, <1>t DEF SettingsInv, DiskSound, Files, p
<1>7. DiskSound' /\ LoadAdminData' = LoadAdminData
  BY <1>1, <1>3, <1>6 DEF SettingsInv, DiskSound, LoadAdminData, Content, p
<1>8. CallSound(call[a])'
  BY <1>1 DEF CallSound
<1>9. TempSound(call[a])'
  <2>1. c.pc = "write" => (c.fd \in Inodes /\ c.fd # p)
    BY DEF SettingsInv, DiskSound, TempSound, Operation, Files, p
  <2>2. c.pc = "rename" => (temp[c.file] \in Inodes /\ temp[c.file] # p)
    <3>1. c.file \in Files /\ temp \in [Files -> Inodes \cup {NoInode}]
      BY DEF SettingsInv, SType, Operation
    <3> QED
      BY <3>1 DEF SettingsInv, DiskSound, TempSound, Files, p
  <2> QED
    BY <1>1, <1>4, <2>1, <2>2 DEF TempSound
<1>10. FilesSound(call[a])'
  <2>1. \A j \in RtKeys : data'[p].v[j] = data[p].v[j]
    BY <1>3, SettingsAssumption DEF Keys
  <2> QED
    BY <1>1, <1>7, <2>1 DEF FilesSound, p
<1> QED
  BY <1>5, <1>7, <1>8, <1>9, <1>10 DEF SettingsInv

\* The process starts again with what the files hold.
LEMMA SetRestartStep ==
  ASSUME NEW a, Admins = {a}, SettingsInv(a), SetRestart
  PROVE  SettingsInv(a)'
<1> USE CallFacts
<1> DEFINE now == data[path["config"]]
<1>1. /\ inEffect' = now.v /\ banned' = LoadAdminData
      /\ kept' = [config |-> now.v, bans |-> LoadAdminData]
      /\ undo' = Nothing /\ loaded' = Nothing /\ call' = [b \in Admins |-> NoOp]
      /\ UNCHANGED <<path, temp, data, ops, edits>>
  BY DEF SetRestart
<1>2. now.v \in [Keys -> Nat]
  BY DEF ConfigFile
<1>3. LoadAdminData \subseteq Culprits
  BY DEF SettingsInv, DiskSound, LoadAdminData, Content, BansFile
<1>4. call'[a] = NoOp /\ call' \in [Admins -> Operation]
  BY <1>1, NoOpFacts
<1>5. SType'
  BY <1>1, <1>2, <1>3, <1>4 DEF SettingsInv, SType
<1>6. DiskSound' /\ LoadAdminData' = LoadAdminData
  BY <1>1, DiskFrame DEF SettingsInv
<1>7. CallSound(call[a])' /\ TempSound(call[a])'
  BY <1>4, NoOpFacts DEF CallSound, TempSound
<1>8. call'[a].file = "bans" /\ call'[a].pc = "idle"
  BY <1>4, NoOpFacts
<1>9. FilesSound(call[a])'
  BY <1>1, <1>6, <1>8 DEF FilesSound
<1> QED
  BY <1>5, <1>6, <1>7, <1>9 DEF SettingsInv

\* ApplyRuntimePatch, PersistConfigValues, SaveAdminData, ReloadConfig and the file
\* watcher: for one operator at a time, any keys, users, edits of other keys and
\* crashes at any step, a restart finds every answered patch and the last answered
\* bans.
THEOREM AnsweredIsKept ==
  ASSUME NEW CONSTANT a, Admins = {a}
  PROVE  SetSpec => []RestartKeeps
<1>1. SetInit => SettingsInv(a)
  BY SettingsInit
<1>2. SettingsInv(a) /\ [SetNext]_setVars => SettingsInv(a)'
  <2> SUFFICES ASSUME SettingsInv(a), [SetNext]_setVars PROVE SettingsInv(a)'
    OBVIOUS
  <2>1. CASE (\E k \in RtKeys : Patch(a, k)) \/ Rollback(a) \/ \E u \in Culprits : Ban(a, u)
    BY <2>1, BeginStep
  <2>2. CASE Snapshot(a) \/ PersistRead(a)
    BY <2>2, ReadyStep
  <2>3. CASE OpenTemp(a) \/ WriteTemp(a) \/ Rename(a)
    BY <2>3, OpenTempStep, WriteTempStep, RenameStep
  <2>4. CASE PatchReload(a) \/ Answer(a)
    BY <2>4, PatchReloadStep, AnswerStep
  <2>5. CASE Poll \/ WatcherReload
    BY <2>5, WatcherStep
  <2>6. CASE \E k \in BootKeys : Edit(k)
    BY <2>6, EditStep
  <2>7. CASE SetRestart
    BY <2>7, SetRestartStep
  <2>8. CASE UNCHANGED setVars
    BY <2>8 DEF setVars, SettingsInv, SType, DiskSound, CallSound, TempSound, FilesSound, LoadAdminData, Content
  <2> QED
    BY <2>1, <2>2, <2>3, <2>4, <2>5, <2>6, <2>7, <2>8 DEF SetNext
<1>3. SettingsInv(a) => RestartKeeps
  BY SettingsAreSafe
<1> QED
  BY <1>1, <1>2, <1>3, PTL DEF SetSpec

-----------------------------------------------------------------------------
(* Selection *)

\* The indices are numbered by their places, without gaps.
LEMMA PlacesNumber ==
  ASSUME NEW n \in Nat, NEW I, I \subseteq 1 .. n
  PROVE  /\ IsFiniteSet(I) /\ Cardinality(I) \in Nat /\ Cardinality(I) <= n
         /\ \A i \in I : Place(I, i) \in 1 .. Cardinality(I)
         /\ \A i, j \in I : i < j => Place(I, i) < Place(I, j)
         /\ \A k \in 1 .. Cardinality(I) : \E i \in I : Place(I, i) = k
<1>1. IsFiniteSet(1 .. n) /\ Cardinality(1 .. n) = n
  BY FS_Interval
<1>2. IsFiniteSet(I) /\ Cardinality(I) \in Nat /\ Cardinality(I) <= n
  BY <1>1, FS_Subset, FS_CardinalityType
<1> DEFINE Upto(i) == {j \in I : j <= i}
           c == Cardinality(I)
<1>3. \A i \in I : IsFiniteSet(Upto(i)) /\ Cardinality(Upto(i)) \in Nat /\ Cardinality(Upto(i)) <= c
  BY <1>2, FS_Subset, FS_CardinalityType
<1>4. \A i \in I : Cardinality(Upto(i)) # 0
  <2> TAKE i \in I
  <2>1. i \in Upto(i)
    OBVIOUS
  <2> QED
    BY <1>3, <2>1, FS_EmptySet
<1>5. \A i \in I : Place(I, i) \in 1 .. c
  <2> HIDE DEF Upto, c
  <2>1. \A i \in I : Cardinality(Upto(i)) \in 1 .. c
    BY <1>2, <1>3, <1>4 DEF c
  <2> QED
    BY <2>1 DEF Upto, Place
<1>6. ASSUME NEW i \in I, NEW j \in I, i < j PROVE Place(I, i) < Place(I, j)
  <2>0. i \in Int /\ j \in Int
    OBVIOUS
  <2>1. Upto(i) \subseteq Upto(j) /\ j \in Upto(j) /\ j \notin Upto(i)
    <3>1. ASSUME NEW x \in I, x <= i PROVE x <= j
      <4>1. x \in Int
        OBVIOUS
      <4> QED
        BY <1>6, <2>0, <3>1, <4>1
    <3>2. j <= j /\ ~(j <= i)
      BY <1>6, <2>0
    <3> QED
      BY <3>1, <3>2
  <2>2. Upto(i) # Upto(j)
    BY <2>1
  <2> HIDE DEF Upto
  <2>3. Cardinality(Upto(i)) <= Cardinality(Upto(j)) /\ Cardinality(Upto(i)) # Cardinality(Upto(j))
    BY <1>3, <2>1, <2>2, FS_Subset
  <2>4. Cardinality(Upto(i)) < Cardinality(Upto(j))
    BY <1>3, <2>3
  <2> QED
    BY <2>4 DEF Upto, Place
<1>7. \A k \in 1 .. c : \E i \in I : Place(I, i) = k
  <2> DEFINE f == [i \in I |-> Place(I, i)]
             T == 1 .. c
  <2>1. IsFiniteSet(T) /\ Cardinality(T) = c
    BY <1>2, FS_Interval
  <2>2. f \in Injection(I, T)
    <3>1. f \in [I -> T]
      BY <1>5
    <3>2. \A i, j \in I : f[i] = f[j] => i = j
      <4> SUFFICES ASSUME NEW i \in I, NEW j \in I, i # j PROVE f[i] # f[j]
        OBVIOUS
      <4>1. i < j \/ j < i
        OBVIOUS
      <4>2. Place(I, i) \in Nat /\ Place(I, j) \in Nat
        BY <1>5
      <4> QED
        BY <1>6, <4>1, <4>2
    <3> QED
      BY <3>1, <3>2 DEF Injection, IsInjective
  <2> HIDE DEF f, T
  <2>3. f \in Surjection(I, T)
    BY <2>1, <2>2, FS_Injection
  <2>4. \A k \in T : \E i \in I : f[i] = k
    BY <2>3 DEF Surjection
  <2> QED
    BY <2>4 DEF f, T
<1> QED
  BY <1>2, <1>5, <1>6, <1>7

\* r has the entries of s at the indices I, each once and in their order: f says where
\* each entry of r comes from.
Picks(r, s, I, f) ==
  /\ f \in [DOMAIN r -> I]
  /\ \A k \in DOMAIN r : r[k] = s[f[k]]
  /\ \A k, l \in DOMAIN r : k < l => f[k] < f[l]
  /\ \A i \in I : \E k \in DOMAIN r : f[k] = i

\* What the loop leaves.
LEMMA SelectedIs ==
  ASSUME NEW S, NEW s \in Seq(S), NEW I, I \subseteq 1 .. Len(s)
  PROVE  /\ Selected(s, I) \in Seq(S) /\ Len(Selected(s, I)) = Cardinality(I)
         /\ Cardinality(I) \in Nat /\ IsFiniteSet(I)
         /\ \E f : Picks(Selected(s, I), s, I, f)
<1> DEFINE c == Cardinality(I)
           r == Selected(s, I)
           f == [k \in 1 .. c |-> CHOOSE i \in I : Place(I, i) = k]
<1>1. Len(s) \in Nat /\ \A i \in I : s[i] \in S /\ i \in Int
  OBVIOUS
<1>2. /\ IsFiniteSet(I) /\ c \in Nat
      /\ \A i \in I : Place(I, i) \in 1 .. c
      /\ \A i, j \in I : i < j => Place(I, i) < Place(I, j)
      /\ \A k \in 1 .. c : \E i \in I : Place(I, i) = k
  BY <1>1, PlacesNumber
<1>3. \A k \in 1 .. c : f[k] \in I /\ Place(I, f[k]) = k
  BY <1>2
<1>4. r = [k \in 1 .. c |-> s[f[k]]]
  BY DEF Selected
<1>f. f = [k \in 1 .. c |-> f[k]]
  OBVIOUS
<1> HIDE DEF c, f, r
<1>5. r \in Seq(S) /\ Len(r) = c /\ DOMAIN r = 1 .. c
  <2>1. \A k \in 1 .. c : s[f[k]] \in S
    BY <1>1, <1>3
  <2>2. r \in [1 .. c -> S]
    BY <1>4, <2>1
  <2> QED
    BY <1>2, <2>2
<1>6. f \in [1 .. c -> I]
  BY <1>3, <1>f
<1>7. ASSUME NEW k \in 1 .. c, NEW l \in 1 .. c, k < l PROVE f[k] < f[l]
  <2>1. f[k] \in I /\ f[l] \in I /\ Place(I, f[k]) = k /\ Place(I, f[l]) = l
    BY <1>3
  <2>2. k \in Int /\ l \in Int /\ f[k] \in Int /\ f[l] \in Int
    <3>1. k \in Int /\ l \in Int
      BY <1>2
    <3>2. f[k] \in Int /\ f[l] \in Int
      BY <1>1, <2>1, Zenon
    <3> QED
      BY <3>1, <3>2
  <2>3. f[l] < f[k] => l < k
    BY <1>2, <2>1
  <2>4. f[k] # f[l] /\ ~(f[l] < f[k])
    BY <1>7, <2>1, <2>2, <2>3
  <2> QED
    BY <2>2, <2>4
<1>8. ASSUME NEW i \in I PROVE \E k \in 1 .. c : f[k] = i
  <2>1. Place(I, i) \in 1 .. c
    BY <1>2
  <2> DEFINE k == Place(I, i)
  <2>2. PICK j \in I : j = f[k]
    BY <1>3, <2>1
  <2>3. Place(I, j) = Place(I, i) /\ Place(I, i) \in Int /\ j \in Int /\ i \in Int
    BY <1>1, <1>2, <1>3, <2>1, <2>2
  <2>4. (j < i => Place(I, j) < Place(I, i)) /\ (i < j => Place(I, i) < Place(I, j))
    BY <1>2
  <2>5. i = j
    BY <2>3, <2>4
  <2> QED
    BY <2>1, <2>2, <2>5
<1>9. Picks(r, s, I, f)
  <2>1. \A k \in DOMAIN r : r[k] = s[f[k]]
    BY <1>4, <1>5
  <2> QED
    BY <1>5, <1>6, <1>7, <1>8, <2>1 DEF Picks
<1> QED
  BY <1>2, <1>5, <1>9 DEF c, r

-----------------------------------------------------------------------------
(* QueryBroker *)

Calls == {"idle", "waits", "answered", "gone"}

\* Who waits has an entry in pending, and every entry is listed in order; an id is
\* listed once.  The list is at most twice the limit longer than what is pending: that
\* is the amount remove lets it grow before it drops what is no longer pending.
QInv ==
  /\ DOMAIN qpending \subseteq Queries /\ qorder \in Seq(Queries) /\ qcall \in [Queries -> Calls]
  /\ \A q \in Queries : qcall[q] = "waits" => q \in DOMAIN qpending
  /\ DOMAIN qpending \subseteq ToSet(qorder)
  /\ \A i, j \in DOMAIN qorder : qorder[i] = qorder[j] => i = j
  /\ \A i \in DOMAIN qorder : qcall[qorder[i]] # "idle"
  /\ Cardinality(DOMAIN qpending) <= QMax
  /\ Len(qorder) <= 2 * QMax + Cardinality(DOMAIN qpending)

\* What is pending is finite.
LEMMA PendingFinite ==
  ASSUME NEW D, D \subseteq Queries
  PROVE  IsFiniteSet(D) /\ Cardinality(D) \in Nat
<1>1. IsFiniteSet(Queries)
  BY QAssumption, FS_Interval DEF Queries
<1> QED
  BY <1>1, FS_Subset, FS_CardinalityType

\* A new query is listed behind the others.
LEMMA SubmitStep ==
  ASSUME QInv, NEW q \in Queries, Submit(q)
  PROVE  QInv'
<1> DEFINE D == DOMAIN qpending
           n == Len(qorder)
<1>t. /\ D \subseteq Queries /\ qorder \in Seq(Queries) /\ n \in Nat /\ DOMAIN qorder = 1 .. n
      /\ qcall \in [Queries -> Calls] /\ IsFiniteSet(D) /\ Cardinality(D) \in Nat
      /\ n <= 2 * QMax + Cardinality(D) /\ QMax \in Nat
  BY QAssumption, PendingFinite DEF QInv
<1>1. CASE qonline /\ Cardinality(DOMAIN qpending) < QMax
  <2>1. /\ DOMAIN qpending' = D \cup {q} /\ qorder' = Append(qorder, q)
        /\ qcall' = [qcall EXCEPT ![q] = "waits"] /\ qcall[q] = "idle"
    BY <1>1 DEF Submit
  <2>2. /\ qorder' \in Seq(Queries) /\ Len(qorder') = n + 1 /\ DOMAIN qorder' = 1 .. (n + 1)
        /\ qorder'[n + 1] = q /\ \A i \in 1 .. n : qorder'[i] = qorder[i]
    BY <1>t, <2>1
  <2> HIDE DEF n, D
  <2>i. \A i \in 1 .. (n + 1) : i \in 1 .. n \/ i = n + 1
    BY <1>t
  <2>j. \A i \in 1 .. n : i \in 1 .. (n + 1)
    BY <1>t
  <2>3. qcall' \in [Queries -> Calls] /\ qcall'[q] = "waits" /\ \A x \in Queries \ {q} : qcall'[x] = qcall[x]
    BY <1>t, <2>1 DEF Calls
  <2>4. \A i \in 1 .. n : qorder[i] \in Queries /\ qorder[i] # q /\ qcall[qorder[i]] # "idle"
    BY <1>t, <2>1 DEF QInv
  <2>5. \A x \in Queries : qcall'[x] = "waits" => x \in D \cup {q}
    BY <2>3 DEF QInv, D
  <2>6. D \cup {q} \subseteq ToSet(qorder')
    <3>1. ASSUME NEW x \in D PROVE \E i \in 1 .. n : qorder[i] = x
      BY <1>t, <3>1 DEF QInv, ToSet, D
    <3> QED
      BY <1>t, <2>2, <2>j, <3>1 DEF ToSet
  <2>7. ASSUME NEW i \in 1 .. (n + 1), NEW j \in 1 .. (n + 1), qorder'[i] = qorder'[j] PROVE i = j
    BY <1>t, <2>2, <2>4, <2>7, <2>i DEF QInv
  <2>8. ASSUME NEW i \in 1 .. (n + 1) PROVE qcall'[qorder'[i]] # "idle"
    BY <2>2, <2>3, <2>4, <2>8, <2>i
  <2>9. q \notin D
    <3>1. ASSUME q \in D PROVE FALSE
      <4>1. PICK i \in 1 .. n : qorder[i] = q
        BY <1>t, <3>1 DEF QInv, ToSet, D
      <4> QED
        BY <2>4, <4>1
    <3> QED
      BY <3>1
  <2>10. Cardinality(D \cup {q}) = Cardinality(D) + 1
    BY <1>t, <2>9, FS_AddElement
  <2>11. Cardinality(D \cup {q}) <= QMax /\ n + 1 <= 2 * QMax + Cardinality(D \cup {q})
    BY <1>1, <1>t, <2>10 DEF D
  <2>12. D \cup {q} \subseteq Queries
    BY <1>t
  <2> QED
    BY <2>1, <2>2, <2>3, <2>5, <2>6, <2>7, <2>8, <2>11, <2>12 DEF QInv
<1>2. CASE ~(qonline /\ Cardinality(DOMAIN qpending) < QMax)
  <2>1. UNCHANGED <<qpending, qorder>> /\ qcall' = [qcall EXCEPT ![q] = "gone"]
    BY <1>2 DEF Submit
  <2>2. qcall' \in [Queries -> Calls] /\ qcall'[q] = "gone" /\ \A x \in Queries \ {q} : qcall'[x] = qcall[x]
    BY <1>t, <2>1 DEF Calls
  <2>3. \A i \in DOMAIN qorder : qorder[i] \in Queries
    BY <1>t
  <2> HIDE DEF n, D
  <2>4. \A x \in Queries : qcall'[x] = "waits" => x \in DOMAIN qpending
    BY <2>2 DEF QInv
  <2>5. \A i \in DOMAIN qorder : qcall'[qorder[i]] # "idle"
    BY <2>2, <2>3 DEF QInv
  <2> QED
    BY <2>1, <2>2, <2>4, <2>5 DEF QInv
<1> QED
  BY <1>1, <1>2

\* remove: what stays pending stays listed, and a list that was compacted is as long as
\* what is pending.
LEMMA RemoveStep ==
  ASSUME QInv, NEW q \in Queries, QRemove(q), NEW a \in {"answered", "gone"}, qcall' = [qcall EXCEPT ![q] = a]
  PROVE  QInv'
<1> DEFINE D == DOMAIN qpending \ {q}
           n == Len(qorder)
<1>t. /\ DOMAIN qpending \subseteq Queries /\ qorder \in Seq(Queries) /\ n \in Nat /\ DOMAIN qorder = 1 .. n
      /\ qcall \in [Queries -> Calls] /\ IsFiniteSet(DOMAIN qpending) /\ QMax \in Nat
      /\ IsFiniteSet(D) /\ Cardinality(D) \in Nat /\ Cardinality(D) <= QMax
  <2>1. DOMAIN qpending \subseteq Queries /\ qorder \in Seq(Queries) /\ qcall \in [Queries -> Calls] /\ QMax \in Nat
    BY QAssumption DEF QInv
  <2>2. IsFiniteSet(DOMAIN qpending) /\ Cardinality(DOMAIN qpending) \in Nat
    BY <2>1, PendingFinite
  <2>3. IsFiniteSet(D) /\ Cardinality(D) \in Nat /\ Cardinality(D) <= Cardinality(DOMAIN qpending)
    BY <2>2, FS_Subset, FS_CardinalityType
  <2>4. Cardinality(DOMAIN qpending) <= QMax
    BY DEF QInv
  <2>5. Cardinality(D) <= QMax
    BY <2>1, <2>2, <2>3, <2>4
  <2> QED
    BY <2>1, <2>2, <2>3, <2>5
<1>1. DOMAIN qpending' = D
  BY DEF QRemove, QDelete
<1>2. qcall' \in [Queries -> Calls] /\ qcall'[q] = a /\ \A x \in Queries \ {q} : qcall'[x] = qcall[x]
  BY <1>t DEF Calls
<1>3. \A i \in 1 .. n : qorder[i] \in Queries /\ qcall'[qorder[i]] # "idle"
  <2>1. \A i \in 1 .. n : qorder[i] \in Queries /\ qcall[qorder[i]] # "idle"
    BY <1>t DEF QInv
  <2> QED
    BY <1>2, <2>1
<1>4. \A x \in Queries : qcall'[x] = "waits" => x \in D
  BY <1>2 DEF QInv
<1>5. \A x \in D : \E i \in 1 .. n : qorder[i] = x
  BY <1>t DEF QInv, ToSet
<1>6. \A i, j \in 1 .. n : qorder[i] = qorder[j] => i = j
  BY <1>t DEF QInv
<1>7. CASE n <= QMax * 2
  <2>1. qorder' = qorder
    BY <1>7, <1>t DEF QRemove
  <2> HIDE DEF D, n
  <2>2. n <= 2 * QMax + Cardinality(D)
    BY <1>7, <1>t
  <2>3. D \subseteq ToSet(qorder')
    BY <1>5, <1>t, <2>1 DEF ToSet
  <2>4. D \subseteq Queries
    BY <1>t DEF D
  <2> QED
    BY <1>1, <1>2, <1>3, <1>4, <1>6, <1>t, <2>1, <2>2, <2>3, <2>4 DEF QInv, n
<1>8. CASE n > QMax * 2
  <2> DEFINE I == {i \in DOMAIN qorder : qorder[i] \in D}
             r == Selected(qorder, I)
  <2>1. qorder' = r
    BY <1>8 DEF QRemove
  <2>2. I \subseteq 1 .. n
    BY <1>t
  <2>3. /\ r \in Seq(Queries) /\ Len(r) = Cardinality(I) /\ Cardinality(I) \in Nat /\ IsFiniteSet(I)
        /\ \E f : Picks(r, qorder, I, f)
    <3> HIDE DEF I
    <3> QED
      BY <1>t, <2>2, SelectedIs
  <2>4. PICK f : Picks(r, qorder, I, f)
    BY <2>3
  <2>5. Cardinality(I) <= Cardinality(D)
    <3> DEFINE g == [i \in I |-> qorder[i]]
    <3>1. g \in [I -> D] /\ \A i, j \in I : g[i] = g[j] => i = j
      BY <1>t, <1>6
    <3> HIDE DEF g, I, D
    <3>2. g \in Injection(I, D)
      BY <3>1 DEF Injection, IsInjective
    <3> QED
      BY <1>t, <3>2, FS_Injection
  <2>i. \A i \in I : i \in 1 .. n /\ qorder[i] \in D
    BY <1>t
  <2>e. \A x \in D : \E i \in I : qorder[i] = x
    BY <1>5, <1>t
  <2> HIDE DEF I, r, n, D
  <2>r. DOMAIN r = 1 .. Len(r) /\ Len(r) \in Nat
    BY <2>3
  <2>f. \A k \in DOMAIN r : f[k] \in I /\ r[k] = qorder[f[k]]
    BY <2>4 DEF Picks
  <2>6. ASSUME NEW k \in DOMAIN r, NEW l \in DOMAIN r, r[k] = r[l] PROVE k = l
    <3>1. f[k] = f[l] /\ f[k] \in Int
      BY <1>6, <1>t, <2>6, <2>f, <2>i
    <3>2. (k < l => f[k] < f[l]) /\ (l < k => f[l] < f[k])
      BY <2>4 DEF Picks
    <3>3. k \in Int /\ l \in Int
      BY <2>r
    <3> QED
      BY <3>1, <3>2, <3>3
  <2>7. \A k \in DOMAIN r : qcall'[r[k]] # "idle"
    BY <1>3, <2>f, <2>i
  <2>8. D \subseteq ToSet(r)
    <3>1. ASSUME NEW x \in D PROVE \E k \in DOMAIN r : r[k] = x
      <4>1. PICK i \in I : qorder[i] = x
        BY <2>e
      <4>2. PICK k \in DOMAIN r : f[k] = i
        BY <2>4 DEF Picks
      <4> QED
        BY <2>f, <4>1, <4>2
    <3> QED
      BY <3>1 DEF ToSet
  <2>9. Len(r) <= 2 * QMax + Cardinality(D)
    BY <1>t, <2>3, <2>5
  <2>10. D \subseteq Queries
    BY <1>t DEF D
  <2> QED
    BY <1>1, <1>2, <1>4, <1>t, <2>1, <2>3, <2>6, <2>7, <2>8, <2>9, <2>10 DEF QInv
<1> QED
  BY <1>t, <1>7, <1>8

\* Claims, answers and the agent's comings and goings.
LEMMA ClaimStep ==
  ASSUME QInv,
         \/ \E q \in Queries : ClaimAges(q)
         \/ \E b \in BOOLEAN : Claim(b) \/ QueryResult(b)
         \/ AgentConnects \/ AgentStale
  PROVE  QInv'
<1>1. UNCHANGED <<qorder, qcall>> /\ DOMAIN qpending' = DOMAIN qpending
  <2>1. CASE \E q \in Queries : ClaimAges(q)
    BY <2>1 DEF ClaimAges
  <2>2. CASE \E b \in BOOLEAN : Claim(b)
    BY <2>2 DEF Claim
  <2>3. CASE \E b \in BOOLEAN : QueryResult(b)
    BY <2>3 DEF QueryResult
  <2>4. CASE AgentConnects \/ AgentStale
    BY <2>4 DEF AgentConnects, AgentStale
  <2> QED
    BY <2>1, <2>2, <2>3, <2>4
<1> QED
  BY <1>1 DEF QInv

\* A handler that waits for the agent can be found by claim, for any number of queries
\* and any limit, and submit and remove keep the list that claim walks within three
\* times the limit, although remove seldom compacts it.
THEOREM WaitingQueriesAreFound == QSpec => []WaitingIsClaimable
<1>1. QInit => QInv
  <2> SUFFICES ASSUME QInit PROVE QInv
    OBVIOUS
  <2>1. DOMAIN qpending = {} /\ qorder = <<>> /\ qcall = [q \in Queries |-> "idle"]
    BY DEF QInit
  <2>2. Cardinality(DOMAIN qpending) = 0 /\ QMax \in Nat
    BY <2>1, FS_EmptySet, QAssumption
  <2>3. qorder \in Seq(Queries) /\ Len(qorder) = 0 /\ DOMAIN qorder = {}
    BY <2>1
  <2> QED
    BY <2>1, <2>2, <2>3 DEF QInv, Calls
<1>2. QInv /\ [QNext]_qVars => QInv'
  <2> SUFFICES ASSUME QInv, [QNext]_qVars PROVE QInv'
    OBVIOUS
  <2>1. CASE UNCHANGED qVars
    BY <2>1 DEF qVars, QInv
  <2>2. ASSUME NEW q \in Queries, Submit(q) PROVE QInv'
    BY <2>2, SubmitStep
  <2>3. ASSUME NEW q \in Queries, Receive(q) \/ GiveUp(q) PROVE QInv'
    <3>1. CASE Receive(q)
      BY <3>1, RemoveStep DEF Receive
    <3>2. CASE GiveUp(q)
      BY <3>2, RemoveStep DEF GiveUp
    <3> QED
      BY <2>3, <3>1, <3>2
  <2> QED
    BY <2>1, <2>2, <2>3, ClaimStep DEF QNext
<1>3. QInv => WaitingIsClaimable
  <2> SUFFICES ASSUME QInv PROVE WaitingIsClaimable
    OBVIOUS
  <2>1. Cardinality(DOMAIN qpending) \in Nat /\ QMax \in Nat /\ Len(qorder) \in Nat
    BY PendingFinite, QAssumption DEF QInv
  <2>2. Len(qorder) <= 3 * QMax
    BY <2>1 DEF QInv
  <2> QED
    BY <2>2 DEF QInv, WaitingIsClaimable
<1> QED
  BY <1>1, <1>2, <1>3, PTL DEF QSpec

-----------------------------------------------------------------------------
(* MonitorBuffer *)

Item == [player : MonPlayers, frame : Nat]
FramesIn(items) == {items[i].frame : i \in DOMAIN items}
Distinct(items) == \A i, j \in DOMAIN items : items[i].frame = items[j].frame => i = j

MonType ==
  /\ mbuf \in [MonKinds -> Seq(Item)] /\ mbatches \subseteq [MonKinds -> Seq(Item)]
  /\ mframes \in [MonKinds -> Nat] /\ mshown \in [MonKinds -> [MonPlayers -> Seq(Nat)]]
  /\ mcalls \in Nat

\* A timer that has fired has a Flush that waits.
TimerLive ==
  /\ mtimer \in {"nil", "armed", "fired"}
  /\ mtimer = "fired" => mcalls > 0
  /\ mbuf # NoFrames /\ ~mclosed => mtimer = "armed" \/ mcalls > 0

\* The frames of a kind that are collected, under way or shown are different ones, and
\* have all been numbered.
Collected(kind) ==
  /\ Distinct(mbuf[kind]) /\ \A x \in FramesIn(mbuf[kind]) : x <= mframes[kind]
UnderWay(kind) ==
  \A b \in mbatches :
    /\ Distinct(b[kind]) /\ \A x \in FramesIn(b[kind]) : x <= mframes[kind]
    /\ FramesIn(b[kind]) \cap FramesIn(mbuf[kind]) = {}
    /\ \A c \in mbatches : c # b => FramesIn(b[kind]) \cap FramesIn(c[kind]) = {}
Shown(kind) ==
  \A p \in MonPlayers :
    /\ IsInjective(mshown[kind][p]) /\ \A x \in ToSet(mshown[kind][p]) : x <= mframes[kind]
    /\ ToSet(mshown[kind][p]) \cap FramesIn(mbuf[kind]) = {}
    /\ \A b \in mbatches : ToSet(mshown[kind][p]) \cap FramesIn(b[kind]) = {}
    /\ \A q \in MonPlayers : p # q => ToSet(mshown[kind][p]) \cap ToSet(mshown[kind][q]) = {}

FrameInv == \A kind \in MonKinds : Collected(kind) /\ UnderWay(kind) /\ Shown(kind)
MonInv == MonType /\ TimerLive /\ FrameInv

\* An item has a player and a number.
LEMMA ItemsAre ==
  ASSUME NEW items \in Seq(Item)
  PROVE  /\ Len(items) \in Nat /\ DOMAIN items = 1 .. Len(items)
         /\ \A i \in DOMAIN items : items[i] \in Item /\ items[i].frame \in Nat /\ items[i].player \in MonPlayers
<1>1. Len(items) \in Nat /\ DOMAIN items = 1 .. Len(items) /\ \A i \in DOMAIN items : items[i] \in Item
  OBVIOUS
<1>2. \A it \in Item : it.frame \in Nat /\ it.player \in MonPlayers
  BY DEF Item
<1> QED
  BY <1>1, <1>2

\* One more frame, with the next number.
LEMMA OneMoreItem ==
  ASSUME NEW items \in Seq(Item), Distinct(items), NEW n \in Nat, \A x \in FramesIn(items) : x <= n,
         NEW p \in MonPlayers, NEW new, new = Append(items, [player |-> p, frame |-> n + 1])
  PROVE  new \in Seq(Item) /\ Distinct(new) /\ FramesIn(new) = FramesIn(items) \cup {n + 1}
<1> DEFINE l == Len(items)
           it == [player |-> p, frame |-> n + 1]
<1>1. it \in Item /\ it.frame = n + 1
  BY DEF Item
<1>2. l \in Nat /\ DOMAIN items = 1 .. l /\ \A i \in 1 .. l : items[i].frame \in Nat /\ items[i].frame <= n
  <2>1. \A i \in DOMAIN items : items[i].frame \in FramesIn(items)
    BY DEF FramesIn
  <2> QED
    BY <2>1, ItemsAre
<1>3. /\ new \in Seq(Item) /\ DOMAIN new = 1 .. (l + 1)
      /\ new[l + 1] = it /\ \A i \in 1 .. l : new[i] = items[i]
  BY <1>1, <1>2
<1> HIDE DEF l, it
<1>4. \A i \in 1 .. (l + 1) : i \in 1 .. l \/ i = l + 1
  BY <1>2
<1>5. \A i \in 1 .. l : i \in 1 .. (l + 1)
  BY <1>2
<1>6. l + 1 \in 1 .. (l + 1)
  BY <1>2
<1>7. ASSUME NEW i \in DOMAIN new, NEW j \in DOMAIN new, new[i].frame = new[j].frame PROVE i = j
  <2>1. CASE i \in 1 .. l /\ j \in 1 .. l
    BY <1>2, <1>3, <1>7, <2>1 DEF Distinct
  <2>2. CASE i \in 1 .. l /\ j = l + 1
    <3>1. new[i].frame \in Nat /\ new[i].frame <= n /\ new[j].frame = n + 1
      BY <1>1, <1>2, <1>3, <2>2
    <3> QED
      BY <1>7, <3>1
  <2>3. CASE i = l + 1 /\ j \in 1 .. l
    <3>1. new[j].frame \in Nat /\ new[j].frame <= n /\ new[i].frame = n + 1
      BY <1>1, <1>2, <1>3, <2>3
    <3> QED
      BY <1>7, <3>1
  <2>4. CASE i = l + 1 /\ j = l + 1
    BY <2>4
  <2> QED
    BY <1>3, <1>4, <2>1, <2>2, <2>3, <2>4
<1>8. FramesIn(new) = FramesIn(items) \cup {n + 1}
  <2>1. ASSUME NEW x \in FramesIn(new) PROVE x \in FramesIn(items) \cup {n + 1}
    <3>1. PICK i \in 1 .. (l + 1) : x = new[i].frame
      BY <1>3 DEF FramesIn
    <3>2. CASE i \in 1 .. l
      BY <1>2, <1>3, <3>1, <3>2 DEF FramesIn
    <3>3. CASE i = l + 1
      BY <1>1, <1>3, <3>1, <3>3
    <3> QED
      BY <1>4, <3>2, <3>3
  <2>2. ASSUME NEW x \in FramesIn(items) PROVE x \in FramesIn(new)
    <3>1. PICK i \in 1 .. l : x = items[i].frame
      BY <1>2 DEF FramesIn
    <3> QED
      BY <1>3, <1>5, <3>1 DEF FramesIn
  <2>3. n + 1 \in FramesIn(new)
    BY <1>1, <1>3, <1>6 DEF FramesIn
  <2> QED
    BY <2>1, <2>2, <2>3
<1> QED
  BY <1>3, <1>7, <1>8 DEF Distinct

\* The numbers of one player's frames.
OwnFrames(items, p) == {items[i].frame : i \in {k \in DOMAIN items : items[k].player = p}}

LEMMA OwnFramesAre ==
  ASSUME NEW items \in Seq(Item), Distinct(items), NEW p, NEW q
  PROVE  OwnFrames(items, p) \subseteq FramesIn(items) /\ (p # q => OwnFrames(items, p) \cap OwnFrames(items, q) = {})
<1>1. OwnFrames(items, p) \subseteq FramesIn(items)
  BY DEF OwnFrames, FramesIn
<1>2. ASSUME p # q, NEW x \in OwnFrames(items, p), x \in OwnFrames(items, q) PROVE FALSE
  <2>1. PICK i \in DOMAIN items : items[i].player = p /\ items[i].frame = x
    BY <1>2 DEF OwnFrames
  <2>2. PICK j \in DOMAIN items : items[j].player = q /\ items[j].frame = x
    BY <1>2 DEF OwnFrames
  <2> QED
    BY <1>2, <2>1, <2>2 DEF Distinct
<1> QED
  BY <1>1, <1>2

\* The merged command of a player has that player's frames, each once.
LEMMA FramesOfIs ==
  ASSUME NEW items \in Seq(Item), Distinct(items), NEW p
  PROVE  /\ FramesOf(items, p) \in Seq(Nat) /\ IsInjective(FramesOf(items, p))
         /\ ToSet(FramesOf(items, p)) \subseteq OwnFrames(items, p)
<1> DEFINE I == {i \in DOMAIN items : items[i].player = p}
           own == Selected(items, I)
           r == FramesOf(items, p)
<1>1. r = [i \in DOMAIN own |-> own[i].frame]
  BY DEF FramesOf
<1>2. I \subseteq 1 .. Len(items) /\ \A i \in I : i \in DOMAIN items /\ items[i].player = p /\ items[i].frame \in Nat
                                            /\ i \in Nat /\ items[i].frame \in OwnFrames(items, p)
  BY ItemsAre DEF OwnFrames
<1> HIDE DEF I
<1>3. own \in Seq(Item) /\ \E f : Picks(own, items, I, f)
  BY <1>2, SelectedIs
<1>4. PICK f : Picks(own, items, I, f)
  BY <1>3
<1>5. DOMAIN own = 1 .. Len(own) /\ Len(own) \in Nat
  BY <1>3
<1> HIDE DEF own, r
<1>6. \A k \in DOMAIN own : f[k] \in I /\ own[k] = items[f[k]]
  BY <1>4 DEF Picks
<1>7. \A k \in DOMAIN own : own[k].frame \in Nat /\ own[k].frame \in OwnFrames(items, p)
  BY <1>2, <1>6
<1>8. r \in [1 .. Len(own) -> Nat] /\ DOMAIN r = DOMAIN own /\ \A k \in DOMAIN own : r[k] = own[k].frame
  BY <1>1, <1>5, <1>7
<1>9. r \in Seq(Nat)
  BY <1>5, <1>8
<1>10. ASSUME NEW k \in DOMAIN own, NEW l \in DOMAIN own, r[k] = r[l] PROVE k = l
  <2>1. items[f[k]].frame = items[f[l]].frame /\ f[k] \in DOMAIN items /\ f[l] \in DOMAIN items
    BY <1>2, <1>6, <1>8, <1>10
  <2>2. f[k] = f[l]
    BY <2>1 DEF Distinct
  <2>3. f[k] \in Nat
    BY <1>2, <1>6, Zenon
  <2>4. k \in Nat /\ l \in Nat
    BY <1>5
  <2>5. (k < l => f[k] < f[l]) /\ (l < k => f[l] < f[k])
    BY <1>4 DEF Picks
  <2> QED
    BY <2>2, <2>3, <2>4, <2>5
<1>11. ToSet(r) \subseteq OwnFrames(items, p)
  BY <1>7, <1>8 DEF ToSet
<1> QED
  BY <1>8, <1>9, <1>10, <1>11 DEF r, IsInjective

\* Two runs of different numbers, one behind the other.
LEMMA ConcatDistinct ==
  ASSUME NEW s \in Seq(Nat), NEW t \in Seq(Nat), IsInjective(s), IsInjective(t), ToSet(s) \cap ToSet(t) = {}
  PROVE  s \o t \in Seq(Nat) /\ IsInjective(s \o t) /\ ToSet(s \o t) = ToSet(s) \cup ToSet(t)
<1> DEFINE m == Len(s)
           n == Len(t)
           r == s \o t
<1>1. /\ m \in Nat /\ n \in Nat /\ DOMAIN s = 1 .. m /\ DOMAIN t = 1 .. n
      /\ r \in Seq(Nat) /\ Len(r) = m + n /\ DOMAIN r = 1 .. (m + n)
      /\ \A i \in 1 .. m : r[i] = s[i]
      /\ \A i \in 1 .. (m + n) : i > m => r[i] = t[i - m]
  OBVIOUS
<1> HIDE DEF m, n, r
<1>2. \A i \in 1 .. (m + n) : i \in 1 .. m \/ (i > m /\ i - m \in 1 .. n /\ i \in Nat)
  BY <1>1
<1>3. \A i \in 1 .. m : i \in 1 .. (m + n)
  BY <1>1
<1>4. \A j \in 1 .. n : j + m \in 1 .. (m + n) /\ j + m > m /\ (j + m) - m = j
  BY <1>1
<1>5. ASSUME NEW i \in 1 .. (m + n), NEW j \in 1 .. (m + n), r[i] = r[j] PROVE i = j
  <2>1. CASE i \in 1 .. m /\ j \in 1 .. m
    BY <1>1, <1>5, <2>1 DEF IsInjective
  <2>2. CASE i > m /\ j > m
    <3>1. i - m \in 1 .. n /\ j - m \in 1 .. n /\ t[i - m] = t[j - m]
      BY <1>1, <1>2, <1>5, <2>2
    <3>2. i - m = j - m
      BY <1>1, <3>1 DEF IsInjective
    <3> QED
      BY <1>1, <3>2
  <2>3. CASE i \in 1 .. m /\ j > m
    <3>1. j - m \in 1 .. n /\ s[i] = t[j - m]
      BY <1>1, <1>2, <1>5, <2>3
    <3> QED
      BY <1>1, <2>3, <3>1 DEF ToSet
  <2>4. CASE j \in 1 .. m /\ i > m
    <3>1. i - m \in 1 .. n /\ s[j] = t[i - m]
      BY <1>1, <1>2, <1>5, <2>4
    <3> QED
      BY <1>1, <2>4, <3>1 DEF ToSet
  <2> QED
    BY <1>2, <2>1, <2>2, <2>3, <2>4
<1>6. ASSUME NEW x \in ToSet(r) PROVE x \in ToSet(s) \cup ToSet(t)
  <2>1. PICK i \in 1 .. (m + n) : r[i] = x
    BY <1>1 DEF ToSet
  <2> QED
    BY <1>1, <1>2, <2>1 DEF ToSet
<1>7. ASSUME NEW x \in ToSet(s) PROVE x \in ToSet(r)
  <2>1. PICK i \in 1 .. m : s[i] = x
    BY <1>1 DEF ToSet
  <2> QED
    BY <1>1, <1>3, <2>1 DEF ToSet
<1>8. ASSUME NEW x \in ToSet(t) PROVE x \in ToSet(r)
  <2>1. PICK i \in 1 .. n : t[i] = x
    BY <1>1 DEF ToSet
  <2>2. i + m \in 1 .. (m + n) /\ r[i + m] = x
    BY <1>1, <1>4, <2>1
  <2> QED
    BY <1>1, <2>2 DEF ToSet
<1>9. r \in Seq(Nat) /\ IsInjective(r) /\ ToSet(r) = ToSet(s) \cup ToSet(t)
  BY <1>1, <1>5, <1>6, <1>7, <1>8 DEF IsInjective
<1> QED
  BY <1>9 DEF r

\* Frames are numbers, and nothing collected is no frames.
LEMMA FramesAreNumbers ==
  ASSUME NEW items \in Seq(Item)
  PROVE  FramesIn(items) \subseteq Nat
BY ItemsAre DEF FramesIn

LEMMA NoFramesAre == NoFrames \in [MonKinds -> Seq(Item)] /\ \A kind \in MonKinds : NoFrames[kind] = <<>>
<1>1. <<>> \in Seq(Item)
  OBVIOUS
<1> QED
  BY <1>1 DEF NoFrames

LEMMA EmptyItems == <<>> \in Seq(Item) /\ Distinct(<<>>) /\ FramesIn(<<>>) = {}
BY DEF Distinct, FramesIn

\* A frame is collected: it has a new number.
LEMMA BufferStep ==
  ASSUME MonInv, NEW kind \in MonKinds, NEW p \in MonPlayers, BufferFrame(kind, p)
  PROVE  MonInv'
<1> DEFINE n == mframes[kind]
           old == mbuf[kind]
           new == Append(old, [player |-> p, frame |-> n + 1])
<1>t. MonType /\ TimerLive /\ FrameInv
  BY DEF MonInv
<1>1. /\ mframes' = [mframes EXCEPT ![kind] = n + 1] /\ mbuf' = [mbuf EXCEPT ![kind] = new]
      /\ mtimer' = Scheduled /\ UNCHANGED <<mcalls, mbatches, mclosed, watched, mshown>>
  BY DEF BufferFrame
<1>2. n \in Nat /\ old \in Seq(Item) /\ mbuf \in [MonKinds -> Seq(Item)] /\ mframes \in [MonKinds -> Nat]
  BY <1>t DEF MonType
<1>3. Distinct(old) /\ \A x \in FramesIn(old) : x <= n
  BY <1>t DEF FrameInv, Collected
<1>n. new = Append(old, [player |-> p, frame |-> n + 1])
  OBVIOUS
<1> HIDE DEF n, old, new
<1>4. new \in Seq(Item) /\ Distinct(new) /\ FramesIn(new) = FramesIn(old) \cup {n + 1}
  BY <1>2, <1>3, <1>n, OneMoreItem
<1>5. /\ mbuf' \in [MonKinds -> Seq(Item)] /\ mframes' \in [MonKinds -> Nat]
      /\ mbuf'[kind] = new /\ mframes'[kind] = n + 1
      /\ \A k \in MonKinds \ {kind} : mbuf'[k] = mbuf[k] /\ mframes'[k] = mframes[k]
  BY <1>1, <1>2, <1>4
<1>6. MonType'
  BY <1>t, <1>1, <1>5 DEF MonType
<1>7. TimerLive'
  <2>1. mcalls \in Nat /\ mtimer \in {"nil", "armed", "fired"} /\ (mtimer = "fired" => mcalls > 0)
    BY <1>t DEF TimerLive, MonType
  <2>2. mtimer' = IF mtimer # "nil" \/ mclosed THEN mtimer ELSE "armed"
    BY <1>1 DEF Scheduled
  <2> QED
    BY <1>1, <2>1, <2>2 DEF TimerLive
<1>8. ASSUME NEW k \in MonKinds PROVE Collected(k)' /\ UnderWay(k)' /\ Shown(k)'
  <2>1. Collected(k) /\ UnderWay(k) /\ Shown(k)
    BY <1>t DEF FrameInv
  <2>2. CASE k # kind
    BY <1>1, <1>5, <2>1, <2>2 DEF Collected, UnderWay, Shown
  <2>3. CASE k = kind
    <3>1. \A x \in FramesIn(old) : x \in Nat /\ x <= n
      BY <1>2, <1>3, FramesAreNumbers
    <3>2. Collected(k)'
      <4>1. \A x \in FramesIn(new) : x <= n + 1
        BY <1>2, <1>4, <3>1
      <4> QED
        BY <1>4, <1>5, <2>3, <4>1 DEF Collected
    <3>3. UnderWay(k)'
      <4> SUFFICES ASSUME NEW b \in mbatches
                   PROVE  /\ Distinct(b[kind]) /\ \A x \in FramesIn(b[kind]) : x <= n + 1
                          /\ FramesIn(b[kind]) \cap FramesIn(new) = {}
                          /\ \A c \in mbatches : c # b => FramesIn(b[kind]) \cap FramesIn(c[kind]) = {}
        BY <1>1, <1>5, <2>3 DEF UnderWay
      <4>1. b[kind] \in Seq(Item)
        BY <1>t DEF MonType
      <4>2. /\ Distinct(b[kind]) /\ \A x \in FramesIn(b[kind]) : x <= n
            /\ FramesIn(b[kind]) \cap FramesIn(old) = {}
            /\ \A c \in mbatches : c # b => FramesIn(b[kind]) \cap FramesIn(c[kind]) = {}
        BY <2>1, <2>3 DEF UnderWay, n, old
      <4>3. \A x \in FramesIn(b[kind]) : x \in Nat /\ x <= n + 1 /\ x # n + 1
        <5>1. \A x \in FramesIn(b[kind]) : x \in Nat /\ x <= n
          BY <4>1, <4>2, FramesAreNumbers
        <5> QED
          BY <1>2, <5>1
      <4> QED
        BY <1>4, <4>2, <4>3
    <3>4. Shown(k)'
      <4> SUFFICES ASSUME NEW u \in MonPlayers
                   PROVE  /\ IsInjective(mshown[kind][u]) /\ \A x \in ToSet(mshown[kind][u]) : x <= n + 1
                          /\ ToSet(mshown[kind][u]) \cap FramesIn(new) = {}
                          /\ \A b \in mbatches : ToSet(mshown[kind][u]) \cap FramesIn(b[kind]) = {}
                          /\ \A q \in MonPlayers : u # q => ToSet(mshown[kind][u]) \cap ToSet(mshown[kind][q]) = {}
        BY <1>1, <1>5, <2>3 DEF Shown
      <4>1. mshown[kind][u] \in Seq(Nat)
        BY <1>t DEF MonType
      <4>2. ToSet(mshown[kind][u]) \subseteq Nat
        BY <4>1 DEF ToSet
      <4>3. /\ IsInjective(mshown[kind][u]) /\ \A x \in ToSet(mshown[kind][u]) : x <= n
            /\ ToSet(mshown[kind][u]) \cap FramesIn(old) = {}
            /\ \A b \in mbatches : ToSet(mshown[kind][u]) \cap FramesIn(b[kind]) = {}
            /\ \A q \in MonPlayers : u # q => ToSet(mshown[kind][u]) \cap ToSet(mshown[kind][q]) = {}
        BY <2>1, <2>3 DEF Shown, n, old
      <4>4. \A x \in ToSet(mshown[kind][u]) : x <= n + 1 /\ x # n + 1
        <5>1. \A x \in ToSet(mshown[kind][u]) : x \in Nat /\ x <= n
          BY <4>2, <4>3
        <5> QED
          BY <1>2, <5>1
      <4> QED
        BY <1>4, <4>3, <4>4
    <3> QED
      BY <3>2, <3>3, <3>4
  <2> QED
    BY <2>2, <2>3
<1> QED
  BY <1>6, <1>7, <1>8 DEF MonInv, FrameInv

\* Flush takes what is there.
LEMMA FlushStep ==
  ASSUME MonInv, FlushLocked
  PROVE  MonInv'
<1>t. MonType /\ TimerLive /\ FrameInv
  BY DEF MonInv
<1>1. /\ mcalls > 0 /\ mcalls' = mcalls - 1 /\ mtimer' = "nil" /\ mbuf' = NoFrames
      /\ mbatches' = IF mbuf = NoFrames THEN mbatches ELSE mbatches \cup {mbuf}
      /\ UNCHANGED <<mclosed, watched, mframes, mshown>>
  BY DEF FlushLocked
<1>2. MonType'
  BY <1>t, <1>1, NoFramesAre DEF MonType
<1>3. TimerLive'
  BY <1>1 DEF TimerLive
<1>4. ASSUME NEW k \in MonKinds PROVE Collected(k)' /\ UnderWay(k)' /\ Shown(k)'
  <2>1. Collected(k) /\ UnderWay(k) /\ Shown(k)
    BY <1>t DEF FrameInv
  <2>2. mbuf'[k] = <<>> /\ Distinct(mbuf'[k]) /\ FramesIn(mbuf'[k]) = {}
    BY <1>1, NoFramesAre, EmptyItems
  <2>3. Collected(k)'
    BY <2>2 DEF Collected
  <2>4. \A b \in mbatches' : b \in mbatches \/ b = mbuf
    BY <1>1
  <2>5. UnderWay(k)'
    <3> SUFFICES ASSUME NEW b \in mbatches'
                 PROVE  /\ Distinct(b[k]) /\ \A x \in FramesIn(b[k]) : x <= mframes[k]
                        /\ \A c \in mbatches' : c # b => FramesIn(b[k]) \cap FramesIn(c[k]) = {}
      BY <1>1, <2>2 DEF UnderWay
    <3>1. CASE b \in mbatches
      BY <2>1, <2>4, <3>1 DEF UnderWay
    <3>2. CASE b = mbuf
      <4>1. Distinct(b[k]) /\ \A x \in FramesIn(b[k]) : x <= mframes[k]
        BY <2>1, <3>2 DEF Collected
      <4>2. ASSUME NEW c \in mbatches', c # b PROVE FramesIn(b[k]) \cap FramesIn(c[k]) = {}
        <5>1. c \in mbatches
          BY <2>4, <3>2, <4>2
        <5> QED
          BY <2>1, <3>2, <5>1 DEF UnderWay
      <4> QED
        BY <4>1, <4>2
    <3> QED
      BY <2>4, <3>1, <3>2
  <2>6. Shown(k)'
    BY <1>1, <2>1, <2>2, <2>4 DEF Shown
  <2> QED
    BY <2>3, <2>5, <2>6
<1> QED
  BY <1>2, <1>3, <1>4 DEF MonInv, FrameInv

\* One kind of a batch goes to those who watch; the rest of the batch stays under way.
LEMMA BroadcastStep ==
  ASSUME MonInv, NEW batch \in mbatches, Broadcast(batch)
  PROVE  MonInv'
<1> DEFINE kind == IF batch["touch"] # <<>> THEN "touch" ELSE "judge"
           rest == [batch EXCEPT ![kind] = <<>>]
           sent(p) == FramesOf(batch[kind], p)
<1>t. MonType /\ TimerLive /\ FrameInv
  BY DEF MonInv
<1>0. kind \in MonKinds
  BY DEF MonKinds
<1>1. /\ mshown' = IF watched THEN [mshown EXCEPT ![kind] = [p \in MonPlayers |-> mshown[kind][p] \o sent(p)]]
                   ELSE mshown
      /\ mbatches' = (mbatches \ {batch}) \cup (IF rest = NoFrames THEN {} ELSE {rest})
      /\ UNCHANGED <<mbuf, mtimer, mcalls, mclosed, watched, mframes>>
  BY DEF Broadcast
<1>2. batch \in [MonKinds -> Seq(Item)] /\ mshown \in [MonKinds -> [MonPlayers -> Seq(Nat)]]
  BY <1>t DEF MonType
<1>3. rest \in [MonKinds -> Seq(Item)] /\ rest[kind] = <<>> /\ \A k \in MonKinds \ {kind} : rest[k] = batch[k]
  BY <1>0, <1>2, EmptyItems
<1> HIDE DEF kind, rest
<1>4. batch[kind] \in Seq(Item) /\ Distinct(batch[kind])
  BY <1>t, <1>0, <1>2 DEF FrameInv, UnderWay
<1>5. \A p \in MonPlayers : /\ sent(p) \in Seq(Nat) /\ IsInjective(sent(p))
                            /\ ToSet(sent(p)) \subseteq OwnFrames(batch[kind], p)
                            /\ ToSet(sent(p)) \subseteq FramesIn(batch[kind])
  BY <1>4, FramesOfIs, OwnFramesAre
<1>6. \A p, q \in MonPlayers : p # q => ToSet(sent(p)) \cap ToSet(sent(q)) = {}
  <2>1. \A p, q \in MonPlayers : p # q => OwnFrames(batch[kind], p) \cap OwnFrames(batch[kind], q) = {}
    BY <1>4, OwnFramesAre
  <2> QED
    BY <1>5, <2>1
<1> HIDE DEF sent
<1>7. \A k \in MonKinds : FramesIn(rest[k]) \subseteq FramesIn(batch[k]) /\ (Distinct(batch[k]) => Distinct(rest[k]))
  BY <1>3, EmptyItems
<1>8. FramesIn(rest[kind]) = {}
  BY <1>3, EmptyItems
<1>9. \A b \in mbatches' : (b \in mbatches /\ b # batch) \/ b = rest
  BY <1>1
<1>10. Shown(kind)
  BY <1>t, <1>0 DEF FrameInv
<1>11. ASSUME NEW p \in MonPlayers
       PROVE  LET new == mshown[kind][p] \o sent(p)
              IN  new \in Seq(Nat) /\ IsInjective(new) /\ ToSet(new) = ToSet(mshown[kind][p]) \cup ToSet(sent(p))
  <2> DEFINE old == mshown[kind][p]
             add == sent(p)
  <2>1. old \in Seq(Nat) /\ add \in Seq(Nat) /\ IsInjective(old) /\ IsInjective(add)
    BY <1>0, <1>2, <1>5, <1>10 DEF Shown
  <2>2. ToSet(old) \cap ToSet(add) = {}
    <3>1. ToSet(old) \cap FramesIn(batch[kind]) = {}
      BY <1>10 DEF Shown
    <3> QED
      BY <1>5, <3>1
  <2> HIDE DEF old, add
  <2>3. old \o add \in Seq(Nat) /\ IsInjective(old \o add) /\ ToSet(old \o add) = ToSet(old) \cup ToSet(add)
    BY <2>1, <2>2, ConcatDistinct
  <2> QED
    BY <2>3 DEF old, add
<1>12. /\ mshown' \in [MonKinds -> [MonPlayers -> Seq(Nat)]]
       /\ \A k \in MonKinds \ {kind} : mshown'[k] = mshown[k]
       /\ ~watched => mshown' = mshown
       /\ watched => \A p \in MonPlayers : mshown'[kind][p] = mshown[kind][p] \o sent(p)
  <2> DEFINE line == [p \in MonPlayers |-> mshown[kind][p] \o sent(p)]
  <2>1. line \in [MonPlayers -> Seq(Nat)] /\ \A p \in MonPlayers : line[p] = mshown[kind][p] \o sent(p)
    BY <1>11
  <2>2. mshown' = IF watched THEN [mshown EXCEPT ![kind] = line] ELSE mshown
    BY <1>1
  <2> HIDE DEF line
  <2> QED
    BY <1>0, <1>2, <2>1, <2>2
<1>13. MonType'
  BY <1>t, <1>1, <1>3, <1>12 DEF MonType
<1>14. TimerLive'
  BY <1>t, <1>1 DEF TimerLive
<1>15. ASSUME NEW k \in MonKinds PROVE Collected(k)' /\ UnderWay(k)' /\ Shown(k)'
  <2>1. Collected(k) /\ UnderWay(k) /\ Shown(k)
    BY <1>t DEF FrameInv
  <2>2. Collected(k)'
    BY <1>1, <2>1 DEF Collected
  <2>3. UnderWay(k)'
    <3> SUFFICES ASSUME NEW b \in mbatches'
                 PROVE  /\ Distinct(b[k]) /\ \A x \in FramesIn(b[k]) : x <= mframes[k]
                        /\ FramesIn(b[k]) \cap FramesIn(mbuf[k]) = {}
                        /\ \A c \in mbatches' : c # b => FramesIn(b[k]) \cap FramesIn(c[k]) = {}
      BY <1>1 DEF UnderWay
    <3>0. /\ Distinct(batch[k]) /\ \A x \in FramesIn(batch[k]) : x <= mframes[k]
          /\ FramesIn(batch[k]) \cap FramesIn(mbuf[k]) = {}
          /\ \A c \in mbatches : c # batch => FramesIn(batch[k]) \cap FramesIn(c[k]) = {}
      BY <2>1 DEF UnderWay
    <3>1. CASE b \in mbatches /\ b # batch
      <4>1. /\ Distinct(b[k]) /\ \A x \in FramesIn(b[k]) : x <= mframes[k]
            /\ FramesIn(b[k]) \cap FramesIn(mbuf[k]) = {}
            /\ \A c \in mbatches : c # b => FramesIn(b[k]) \cap FramesIn(c[k]) = {}
        BY <2>1, <3>1 DEF UnderWay
      <4>2. FramesIn(b[k]) \cap FramesIn(rest[k]) = {}
        BY <1>7, <3>1, <4>1
      <4> QED
        BY <1>9, <4>1, <4>2
    <3>2. CASE b = rest
      <4>1. Distinct(b[k]) /\ FramesIn(b[k]) \subseteq FramesIn(batch[k])
        BY <1>7, <3>0, <3>2
      <4>2. ASSUME NEW c \in mbatches', c # b PROVE FramesIn(b[k]) \cap FramesIn(c[k]) = {}
        <5>1. c \in mbatches /\ c # batch
          BY <1>9, <3>2, <4>2
        <5> QED
          BY <3>0, <4>1, <5>1
      <4> QED
        BY <3>0, <4>1, <4>2
    <3> QED
      BY <1>9, <3>1, <3>2
  <2>4. Shown(k)'
    <3>1. CASE k # kind \/ ~watched
      <4>1. mshown'[k] = mshown[k]
        BY <1>12, <3>1
      <4>2. ASSUME NEW p \in MonPlayers, NEW b \in mbatches' PROVE ToSet(mshown[k][p]) \cap FramesIn(b[k]) = {}
        <5>1. \A c \in mbatches : ToSet(mshown[k][p]) \cap FramesIn(c[k]) = {}
          BY <2>1 DEF Shown
        <5> QED
          BY <1>7, <1>9, <5>1
      <4> QED
        BY <1>1, <2>1, <4>1, <4>2 DEF Shown
    <3>2. CASE k = kind /\ watched
      <4> DEFINE was(p) == ToSet(mshown[kind][p])
                 add(p) == ToSet(sent(p))
      <4>1. \A p \in MonPlayers : IsInjective(mshown'[kind][p]) /\ ToSet(mshown'[kind][p]) = was(p) \cup add(p)
        BY <1>11, <1>12, <3>2
      <4>2. /\ \A x \in FramesIn(batch[kind]) : x <= mframes[kind]
            /\ FramesIn(batch[kind]) \cap FramesIn(mbuf[kind]) = {}
            /\ \A c \in mbatches : c # batch => FramesIn(batch[kind]) \cap FramesIn(c[kind]) = {}
        BY <2>1, <3>2 DEF UnderWay
      <4>3. \A p \in MonPlayers : /\ \A x \in was(p) : x <= mframes[kind]
                                  /\ was(p) \cap FramesIn(mbuf[kind]) = {}
                                  /\ \A b \in mbatches : was(p) \cap FramesIn(b[kind]) = {}
                                  /\ \A q \in MonPlayers : p # q => was(p) \cap was(q) = {}
        BY <1>10 DEF Shown
      <4>4. \A p \in MonPlayers : add(p) \subseteq FramesIn(batch[kind])
        BY <1>5
      <4>5. \A p, q \in MonPlayers : p # q => add(p) \cap add(q) = {}
        BY <1>6
      <4> SUFFICES ASSUME NEW p \in MonPlayers
                   PROVE  /\ IsInjective(mshown'[kind][p]) /\ \A x \in ToSet(mshown'[kind][p]) : x <= mframes[kind]
                          /\ ToSet(mshown'[kind][p]) \cap FramesIn(mbuf[kind]) = {}
                          /\ \A b \in mbatches' : ToSet(mshown'[kind][p]) \cap FramesIn(b[kind]) = {}
                          /\ \A q \in MonPlayers : p # q => ToSet(mshown'[kind][p]) \cap ToSet(mshown'[kind][q]) = {}
        BY <1>1, <3>2 DEF Shown
      <4> HIDE DEF was, add
      <4>6. \A x \in ToSet(mshown'[kind][p]) : x <= mframes[kind]
        BY <4>1, <4>2, <4>3, <4>4
      <4>7. ToSet(mshown'[kind][p]) \cap FramesIn(mbuf[kind]) = {}
        BY <4>1, <4>2, <4>3, <4>4
      <4>8. ASSUME NEW b \in mbatches' PROVE ToSet(mshown'[kind][p]) \cap FramesIn(b[kind]) = {}
        <5>1. CASE b = rest
          BY <1>8, <5>1
        <5>2. CASE b \in mbatches /\ b # batch
          BY <4>1, <4>2, <4>3, <4>4, <5>2
        <5> QED
          BY <1>9, <5>1, <5>2
      <4>9. ASSUME NEW q \in MonPlayers, p # q PROVE ToSet(mshown'[kind][p]) \cap ToSet(mshown'[kind][q]) = {}
        <5>1. ToSet(mshown'[kind][p]) = was(p) \cup add(p) /\ ToSet(mshown'[kind][q]) = was(q) \cup add(q)
          BY <4>1
        <5>2. was(p) \cap was(q) = {} /\ add(p) \cap add(q) = {}
          BY <4>3, <4>5, <4>9
        <5>3. was(p) \cap add(q) = {} /\ was(q) \cap add(p) = {}
          BY <4>3, <4>4
        <5> QED
          BY <5>1, <5>2, <5>3
      <4> QED
        BY <4>1, <4>6, <4>7, <4>8, <4>9
    <3> QED
      BY <3>1, <3>2
  <2> QED
    BY <2>2, <2>3, <2>4
<1> QED
  BY <1>13, <1>14, <1>15 DEF MonInv, FrameInv

\* The timer, Stop and the monitors leave the frames alone.
LEMMA FramesLeftAlone ==
  ASSUME MonType, FrameInv, UNCHANGED <<mbuf, mbatches, mframes, mshown>>, mcalls' \in Nat
  PROVE  MonType' /\ FrameInv'
BY DEF MonType, FrameInv, Collected, UnderWay, Shown

\* Nothing is collected, under way or shown at the start.
LEMMA MonInitially ==
  ASSUME MonInit
  PROVE  MonInv
<1>1. /\ mbuf = NoFrames /\ mtimer = "nil" /\ mcalls = 0 /\ mbatches = {} /\ mclosed = FALSE
      /\ mframes = [kind \in MonKinds |-> 0]
      /\ mshown = [kind \in MonKinds |-> [p \in MonPlayers |-> <<>>]]
  BY DEF MonInit
<1>2. \A kind \in MonKinds : mbuf[kind] = <<>> /\ \A p \in MonPlayers : mshown[kind][p] = <<>>
  BY <1>1, NoFramesAre
<1>3. MonType
  <2>1. <<>> \in Seq(Nat)
    OBVIOUS
  <2>2. [p \in MonPlayers |-> <<>>] \in [MonPlayers -> Seq(Nat)]
    BY <2>1
  <2> QED
    BY <1>1, <2>2, NoFramesAre DEF MonType
<1>4. TimerLive
  BY <1>1 DEF TimerLive
<1>5. IsInjective(<<>>) /\ ToSet(<<>>) = {}
  BY DEF IsInjective, ToSet
<1>6. FrameInv
  BY <1>1, <1>2, <1>5, EmptyItems DEF FrameInv, Collected, UnderWay, Shown
<1> QED
  BY <1>3, <1>4, <1>6 DEF MonInv

LEMMA MonStep ==
  ASSUME MonInv, [MonNext]_monVars
  PROVE  MonInv'
<1>t. MonType /\ TimerLive /\ FrameInv /\ mcalls \in Nat
  BY DEF MonInv, MonType
<1>1. ASSUME NEW kind \in MonKinds, NEW p \in MonPlayers, BufferFrame(kind, p) PROVE MonInv'
  BY <1>1, BufferStep
<1>2. CASE TimerFires
  <2>1. mtimer' = "fired" /\ mcalls' = mcalls + 1 /\ UNCHANGED <<mbuf, mbatches, mclosed, mframes, mshown>>
    BY <1>2 DEF TimerFires
  <2>2. mcalls' \in Nat /\ mcalls' > 0
    BY <1>t, <2>1
  <2> QED
    BY <1>t, <2>1, <2>2, FramesLeftAlone DEF MonInv, TimerLive
<1>3. CASE FlushLocked
  BY <1>3, FlushStep
<1>4. CASE StopBuffer
  <2>1. mtimer' = "nil" /\ mcalls' = mcalls + 1 /\ UNCHANGED <<mbuf, mbatches, mframes, mshown>>
    BY <1>4 DEF StopBuffer
  <2>2. mcalls' \in Nat /\ mcalls' > 0
    BY <1>t, <2>1
  <2> QED
    BY <1>t, <2>1, <2>2, FramesLeftAlone DEF MonInv, TimerLive
<1>5. CASE Watch \/ UNCHANGED monVars
  <2>1. UNCHANGED <<mbuf, mtimer, mcalls, mbatches, mclosed, mframes, mshown>>
    BY <1>5 DEF Watch, monVars
  <2> QED
    BY <1>t, <2>1, FramesLeftAlone DEF MonInv, TimerLive
<1>6. ASSUME NEW batch \in mbatches, Broadcast(batch) PROVE MonInv'
  BY <1>6, BroadcastStep
<1> QED
  BY <1>1, <1>2, <1>3, <1>4, <1>5, <1>6 DEF MonNext

\* Whatever the players send and whenever the monitors come and go, collected frames have
\* a timer that will fire or a Flush that waits while the server runs, and no monitor gets
\* a frame twice or under another player's name.
THEOREM FramesFlushOnce == MonSpec => []FramesWillFlush
<1>1. MonInv => FramesWillFlush
  BY DEF MonInv, TimerLive, FrameInv, Shown, FramesWillFlush
<1> QED
  BY <1>1, MonInitially, MonStep, PTL DEF MonSpec

-----------------------------------------------------------------------------
(* Limits *)

Bucket == [tokens : Nat, last : Nat]
Stamped(ts, c) == ts \in Seq(Nat) /\ \A i \in DOMAIN ts : ts[i] <= c

Limit == [max : Nat, span : Nat]

LType ==
  /\ limiter \in {"session", "connection", "http", "log"} /\ lmax \in Nat /\ lmax > 0
  /\ lspan \in Nat /\ lspan > 0 /\ (limiter = "connection" => lspan = Span /\ thisLimit.span = Span)
  /\ thisLimit \in Limit /\ lastLimit \in Limit /\ lmax <= thisLimit.max
  /\ lclock \in Nat /\ barredUntil \in Nat /\ window \in [count : Nat, reset : Nat]
  /\ Stamped(passed, lclock) /\ Stamped(packets, lclock) /\ Stamped(stamps, lclock)
  /\ op \in Bucket /\ op.last <= lclock /\ total \in Bucket /\ total.last <= lclock

\* What a bucket would hold at clock c.
Level(b, capacity, c) ==
  LET t == b.tokens + (c - b.last) * capacity
  IN  IF t > capacity * Second THEN capacity * Second ELSE t

\* What was let through since t and what the bucket would hold now were its capacity at t
\* or have been refilled since.
BucketInv(b, capacity, ts, c) ==
  \A t \in 0 .. c : Since(ts, t) * Second + Level(b, capacity, c) <= capacity * (Second + c - t)

\* The window counts what it let through, the one before it let through its maximum at
\* most, and a window that was forgotten has run out or left a ban that outlasts it.
WindowInv ==
  LET start == window.reset - thisLimit.span
  IN  /\ window.count <= thisLimit.max /\ start <= lclock
      /\ Since(passed, start) <= thisLimit.max
      /\ window.count > 0 => Since(passed, start) = window.count
      /\ \A t \in Int : t + lastLimit.span > start => Since(passed, t) <= lastLimit.max + Since(passed, start)
      /\ \A i \in DOMAIN passed : IF limiter = "connection" THEN passed[i] < window.reset ELSE passed[i] <= window.reset
      /\ window.count = 0 /\ passed # <<>> =>
           IF limiter = "connection" THEN lclock >= window.reset \/ barredUntil >= window.reset
           ELSE lclock > window.reset

\* The stamps are what was logged in the last second, unless a ban has cleared them: that
\* ban outlasts the second.
LogInv ==
  /\ Len(stamps) <= LogThreshold
  /\ \A t \in Int : t + Second > lclock => Since(passed, t) <= LogThreshold
  /\ \/ \A t \in Int : t + Second > lclock => Since(passed, t) <= Since(stamps, t)
     \/ \A i \in DOMAIN passed : passed[i] + Second <= barredUntil

LimInv ==
  /\ LType
  /\ limiter = "session" => /\ BucketInv(op, OpCapacity, passed, lclock)
                           /\ BucketInv(total, TotalCapacity, packets, lclock)
  /\ limiter \in {"connection", "http"} => WindowInv
  /\ limiter = "log" => LogInv

LEMMA LimitsAre ==
  /\ OpCapacity \in Nat /\ TotalCapacity \in Nat /\ Second \in Nat /\ Span \in Nat /\ BanSpan \in Nat
  /\ MaxMax \in Nat /\ LogThreshold \in Nat /\ LMaxClock \in Nat
  /\ Second > 0 /\ Span > 0 /\ MaxMax > 0 /\ Span <= BanSpan /\ Second <= BanSpan
  /\ \A x \in Spans : x \in Nat /\ x > 0
<1>1. \A x \in {OpCapacity, TotalCapacity, Second, Span, BanSpan, MaxMax, LogThreshold, LMaxClock} : x \in Nat /\ x > 0
  BY LimitsAssumption
<1> QED
  BY <1>1, LimitsAssumption

\* The times of ts from t on, and how many.
From(ts, t) == {i \in DOMAIN ts : ts[i] >= t}

LEMMA SinceIs ==
  ASSUME NEW ts \in Seq(Nat), NEW t \in Int
  PROVE  /\ IsFiniteSet(From(ts, t)) /\ Since(ts, t) = Cardinality(From(ts, t))
         /\ Since(ts, t) \in Nat /\ Since(ts, t) <= Len(ts)
<1> DEFINE n == Len(ts)
<1>1. n \in Nat /\ From(ts, t) \subseteq 1 .. n
  BY DEF From
<1> HIDE DEF n
<1>2. IsFiniteSet(1 .. n) /\ Cardinality(1 .. n) = n
  BY <1>1, FS_Interval
<1>3. IsFiniteSet(From(ts, t)) /\ Cardinality(From(ts, t)) \in Nat /\ Cardinality(From(ts, t)) <= n
  BY <1>1, <1>2, FS_Subset, FS_CardinalityType
<1> QED
  BY <1>3 DEF Since, From, n

\* No fewer times lie in a longer span.
LEMMA SinceShrinks ==
  ASSUME NEW ts \in Seq(Nat), NEW t \in Int, NEW u \in Int, t <= u
  PROVE  Since(ts, u) <= Since(ts, t)
<1>1. \A i \in DOMAIN ts : ts[i] \in Int
  OBVIOUS
<1>2. \A x \in Int : x >= u => x >= t
  OBVIOUS
<1>3. From(ts, u) \subseteq From(ts, t)
  BY <1>1, <1>2, Zenon DEF From
<1>4. /\ IsFiniteSet(From(ts, t)) /\ Since(ts, t) = Cardinality(From(ts, t)) /\ Since(ts, u) = Cardinality(From(ts, u))
  BY SinceIs
<1>5. Cardinality(From(ts, u)) <= Cardinality(From(ts, t))
  BY <1>3, <1>4, FS_Subset
<1> QED
  BY <1>4, <1>5

\* Nothing has happened since t.
LEMMA SinceNone ==
  ASSUME NEW ts, NEW t, \A i \in DOMAIN ts : ~(ts[i] >= t)
  PROVE  Since(ts, t) = 0
<1>1. {i \in DOMAIN ts : ts[i] >= t} = {}
  OBVIOUS
<1> QED
  BY <1>1, FS_EmptySet DEF Since

\* One more time.
LEMMA SinceOneMore ==
  ASSUME NEW ts \in Seq(Nat), NEW c \in Nat, NEW t \in Int, NEW new, new = Append(ts, c)
  PROVE  /\ new \in Seq(Nat)
         /\ Since(new, t) = IF c >= t THEN Since(ts, t) + 1 ELSE Since(ts, t)
<1> DEFINE n == Len(ts)
<1>1. /\ n \in Nat /\ DOMAIN ts = 1 .. n /\ DOMAIN new = 1 .. (n + 1) /\ new \in Seq(Nat)
      /\ new[n + 1] = c /\ \A i \in 1 .. n : new[i] = ts[i]
  OBVIOUS
<1> HIDE DEF n
<1>2. \A i \in 1 .. (n + 1) : i \in 1 .. n \/ i = n + 1
  BY <1>1
<1>3. (\A i \in 1 .. n : i \in 1 .. (n + 1)) /\ n + 1 \in 1 .. (n + 1) /\ n + 1 \notin 1 .. n
  BY <1>1
<1>4. IsFiniteSet(From(ts, t)) /\ Since(ts, t) = Cardinality(From(ts, t)) /\ Since(new, t) = Cardinality(From(new, t))
  BY <1>1, SinceIs
<1>5. CASE c >= t
  <2>1. From(new, t) = From(ts, t) \cup {n + 1} /\ n + 1 \notin From(ts, t)
    BY <1>1, <1>2, <1>3, <1>5 DEF From
  <2>2. Cardinality(From(ts, t) \cup {n + 1}) = Cardinality(From(ts, t)) + 1
    BY <1>4, <2>1, FS_AddElement
  <2> QED
    BY <1>1, <1>4, <1>5, <2>1, <2>2
<1>6. CASE ~(c >= t)
  <2>1. From(new, t) = From(ts, t)
    BY <1>1, <1>2, <1>3, <1>6 DEF From
  <2> QED
    BY <1>1, <1>4, <1>6, <2>1
<1> QED
  BY <1>5, <1>6

\* What is selected has all the times from t on that may be selected.
LEMMA SelectedSince ==
  ASSUME NEW ts \in Seq(Nat), NEW t \in Int, NEW I, I \subseteq DOMAIN ts, \A i \in From(ts, t) : i \in I
  PROVE  Selected(ts, I) \in Seq(Nat) /\ Since(ts, t) <= Since(Selected(ts, I), t)
<1> DEFINE r == Selected(ts, I)
           K == From(r, t)
           J == From(ts, t)
<1>1. I \subseteq 1 .. Len(ts)
  OBVIOUS
<1>2. r \in Seq(Nat) /\ \E f : Picks(r, ts, I, f)
  BY <1>1, SelectedIs
<1>3. PICK f : Picks(r, ts, I, f)
  BY <1>2
<1>4. IsFiniteSet(K) /\ Since(r, t) = Cardinality(K) /\ IsFiniteSet(J) /\ Since(ts, t) = Cardinality(J)
  BY <1>2, SinceIs
<1> DEFINE g == [k \in K |-> f[k]]
<1> HIDE DEF r
<1>5. \A k \in K : k \in DOMAIN r /\ f[k] \in J
  <2>1. \A k \in K : k \in DOMAIN r /\ r[k] >= t /\ f[k] \in I /\ r[k] = ts[f[k]]
    BY <1>3 DEF Picks, From
  <2> QED
    BY <2>1 DEF From
<1>6. \A j \in J : \E k \in K : g[k] = j
  <2> SUFFICES ASSUME NEW j \in J PROVE \E k \in K : g[k] = j
    OBVIOUS
  <2>1. j \in I /\ ts[j] >= t
    BY DEF From
  <2>2. PICK k \in DOMAIN r : f[k] = j /\ r[k] = ts[f[k]]
    BY <1>3, <2>1 DEF Picks
  <2>3. k \in K
    BY <2>1, <2>2 DEF From
  <2> QED
    BY <2>2, <2>3
<1>7. g \in Surjection(K, J)
  <2>1. g \in [K -> J]
    BY <1>5
  <2> HIDE DEF g, K, J
  <2> QED
    BY <1>6, <2>1 DEF Surjection
<1> HIDE DEF g, K, J
<1>8. Cardinality(J) <= Cardinality(K)
  BY <1>4, <1>7, FS_Surjection
<1> QED
  BY <1>2, <1>4, <1>8 DEF r

LEMMA BucketIs ==
  ASSUME NEW b \in Bucket
  PROVE  b.tokens \in Nat /\ b.last \in Nat
BY DEF Bucket

\* The level is a number, at most the capacity, and rises by the capacity in a tick at most.
LEMMA LevelIs ==
  ASSUME NEW b \in Bucket, NEW capacity \in Nat, NEW c \in Nat, b.last <= c
  PROVE  /\ Level(b, capacity, c) \in Nat /\ Level(b, capacity, c) <= capacity * Second
         /\ Level(b, capacity, c + 1) \in Nat /\ Level(b, capacity, c + 1) <= capacity * Second
         /\ Level(b, capacity, c + 1) <= Level(b, capacity, c) + capacity
<1> DEFINE x == b.tokens
           d == (c - b.last) * capacity
           full == capacity * Second
<1>1. x \in Nat /\ b.last \in Nat /\ c - b.last \in Nat
  BY BucketIs
<1>2. d \in Nat /\ ((c + 1) - b.last) * capacity = d + capacity
  <2> DEFINE e == c - b.last
  <2>1. e \in Nat /\ (c + 1) - b.last = e + 1
    BY <1>1
  <2> HIDE DEF e
  <2>2. e * capacity \in Nat /\ (e + 1) * capacity = e * capacity + capacity
    BY <2>1
  <2> QED
    BY <2>1, <2>2 DEF e
<1>3. full \in Nat
  BY LimitsAre
<1>4. /\ Level(b, capacity, c) = IF x + d > full THEN full ELSE x + d
      /\ Level(b, capacity, c + 1) = IF x + (d + capacity) > full THEN full ELSE x + (d + capacity)
  BY <1>2 DEF Level
<1> HIDE DEF x, d
<1>f. full = capacity * Second
  OBVIOUS
<1> HIDE DEF full
<1>5. /\ Level(b, capacity, c) \in Nat /\ Level(b, capacity, c) <= full
      /\ Level(b, capacity, c + 1) \in Nat /\ Level(b, capacity, c + 1) <= full
      /\ Level(b, capacity, c + 1) <= Level(b, capacity, c) + capacity
  BY <1>1, <1>2, <1>3, <1>4
<1> QED
  BY <1>5, <1>f

\* Products of a sum.
LEMMA Distributes ==
  ASSUME NEW a \in Int, NEW b \in Int, NEW c \in Int
  PROVE  /\ (a + 1) * c = a * c + c /\ a * c \in Int
         /\ a * (b + 1) = a * b + a /\ a * b \in Int
OBVIOUS

\* Time passes.
LEMMA BucketTicks ==
  ASSUME NEW b \in Bucket, NEW capacity \in Nat, NEW c \in Nat, b.last <= c,
         NEW ts, Stamped(ts, c), BucketInv(b, capacity, ts, c)
  PROVE  BucketInv(b, capacity, ts, c + 1)
<1> SUFFICES ASSUME NEW t \in 0 .. (c + 1)
             PROVE  Since(ts, t) * Second + Level(b, capacity, c + 1) <= capacity * (Second + (c + 1) - t)
  BY DEF BucketInv
<1> DEFINE m == Since(ts, t) * Second
           l == Level(b, capacity, c)
           ll == Level(b, capacity, c + 1)
<1>0. Second \in Nat /\ t \in Int /\ ts \in Seq(Nat)
  BY LimitsAre DEF Stamped
<1>1. l \in Nat /\ ll \in Nat /\ ll <= capacity * Second /\ ll <= l + capacity
  BY LevelIs
<1>2. Since(ts, t) \in Nat /\ m \in Nat
  <2>1. Since(ts, t) \in Nat
    BY <1>0, SinceIs
  <2> QED
    BY <1>0, <2>1
<1>3. CASE t \in 0 .. c
  <2> DEFINE s == Second + c - t
  <2>1. m + l <= capacity * s
    BY <1>3 DEF BucketInv
  <2>2. s \in Int /\ Second + (c + 1) - t = s + 1
    BY <1>0
  <2> HIDE DEF s, m, l, ll
  <2>3. capacity * (s + 1) = capacity * s + capacity /\ capacity * s \in Int
    BY <2>2, Distributes
  <2>4. m + ll <= capacity * (s + 1)
    BY <1>1, <1>2, <2>1, <2>3
  <2> QED
    BY <2>2, <2>4 DEF m, ll
<1>4. CASE t = c + 1
  <2>1. \A i \in DOMAIN ts : ts[i] \in Nat /\ ts[i] <= c
    BY DEF Stamped
  <2>2. \A i \in DOMAIN ts : ~(ts[i] >= t)
    BY <1>4, <2>1
  <2>3. Since(ts, t) = 0
    BY <2>2, SinceNone
  <2>4. m = 0
    BY <1>0, <2>3
  <2>5. Second + (c + 1) - t = Second
    BY <1>0, <1>4
  <2> HIDE DEF m, ll
  <2>6. m + ll <= capacity * Second
    BY <1>1, <2>4
  <2> QED
    BY <2>5, <2>6 DEF m, ll
<1> QED
  BY <1>3, <1>4

\* A request is paid for with a token, or refused.
LEMMA BucketPays ==
  ASSUME NEW b \in Bucket, NEW capacity \in Nat, lclock \in Nat, b.last <= lclock,
         NEW ts, Stamped(ts, lclock), BucketInv(b, capacity, ts, lclock),
         NEW r, r = Refilled(b, capacity), NEW new, new = Consume(r),
         NEW tss, tss = IF Enough(r) THEN Append(ts, lclock) ELSE ts
  PROVE  new \in Bucket /\ new.last = lclock /\ BucketInv(new, capacity, tss, lclock)
<1> DEFINE l == Level(b, capacity, lclock)
           ll == IF l >= Second THEN l - Second ELSE l
<1>0. Second \in Nat /\ ts \in Seq(Nat)
  BY LimitsAre DEF Stamped
<1>1. r = [tokens |-> l, last |-> lclock]
  BY DEF Refilled, Level
<1>2. l \in Nat /\ l <= capacity * Second
  BY LevelIs
<1> HIDE DEF l
<1>3. new = [tokens |-> ll, last |-> lclock]
  BY <1>1 DEF Consume, Enough
<1>4. ll \in Nat /\ ll <= l
  BY <1>0, <1>2
<1>5. tss = IF l >= Second THEN Append(ts, lclock) ELSE ts
  BY <1>1 DEF Enough
<1>l. ll = IF l >= Second THEN l - Second ELSE l
  OBVIOUS
<1> HIDE DEF ll
<1>6. new \in Bucket /\ new.tokens = ll /\ new.last = lclock
  BY <1>3, <1>4 DEF Bucket
<1>7. Level(new, capacity, lclock) = ll
  <2>1. (lclock - lclock) * capacity = 0
    OBVIOUS
  <2>2. ll + 0 = ll /\ ~(ll > capacity * Second)
    <3> DEFINE full == capacity * Second
    <3>1. full \in Nat /\ l <= full
      BY <1>0, <1>2
    <3> HIDE DEF full
    <3>2. ~(ll > full)
      BY <1>2, <1>4, <3>1
    <3> QED
      BY <1>4, <3>2 DEF full
  <2> QED
    BY <1>6, <2>1, <2>2 DEF Level
<1>8. ASSUME NEW t \in 0 .. lclock PROVE Since(tss, t) * Second + ll <= capacity * (Second + lclock - t)
  <2> DEFINE n == Since(ts, t)
             right == capacity * (Second + lclock - t)
  <2>1. n * Second + l <= right
    BY DEF BucketInv, l
  <2>2. n \in Nat
    <3>1. t \in Int
      OBVIOUS
    <3> QED
      BY <1>0, <3>1, SinceIs
  <2>3. CASE l >= Second
    <3>1. Since(tss, t) = n + 1
      <4>1. t \in Int /\ lclock >= t
        OBVIOUS
      <4> QED
        BY <1>0, <1>5, <2>3, <4>1, SinceOneMore
    <3> HIDE DEF n, right
    <3>2. (n + 1) * Second = n * Second + Second /\ n * Second \in Int
      BY <1>0, <2>2, Distributes
    <3>3. n * Second + Second + (l - Second) = n * Second + l
      BY <1>0, <1>2, <3>2
    <3>4. Since(tss, t) * Second + ll = n * Second + l
      BY <1>l, <2>3, <3>1, <3>2, <3>3
    <3> QED
      BY <2>1, <3>4 DEF right
  <2>4. CASE ~(l >= Second)
    BY <1>l, <1>5, <2>1, <2>4
  <2> QED
    BY <2>3, <2>4
<1> QED
  BY <1>6, <1>7, <1>8 DEF BucketInv

\* The times stay times when the clock moves on or shows another one.
LEMMA TimesGrow ==
  ASSUME NEW ts, NEW c \in Nat, Stamped(ts, c)
  PROVE  Stamped(ts, c + 1) /\ Stamped(Append(ts, c), c)
<1> DEFINE n == Len(ts)
           new == Append(ts, c)
<1>1. ts \in Seq(Nat) /\ n \in Nat /\ \A i \in 1 .. n : ts[i] \in Nat /\ ts[i] <= c
  BY DEF Stamped
<1>2. Stamped(ts, c + 1)
  BY <1>1 DEF Stamped
<1>3. new \in Seq(Nat) /\ DOMAIN new = 1 .. (n + 1) /\ new[n + 1] = c /\ \A i \in 1 .. n : new[i] = ts[i]
  BY <1>1
<1> HIDE DEF n, new
<1>4. \A i \in 1 .. (n + 1) : i \in 1 .. n \/ i = n + 1
  BY <1>1
<1>5. \A i \in 1 .. (n + 1) : new[i] <= c
  BY <1>1, <1>3, <1>4
<1> QED
  BY <1>2, <1>3, <1>5 DEF Stamped, new

\* A session's command.
LEMMA CommandStep ==
  ASSUME LimInv, NEW d \in BOOLEAN, Command(d)
  PROVE  LimInv'
<1> DEFINE t == Refilled(total, TotalCapacity)
           o == Refilled(op, OpCapacity)
<1>t. LType /\ limiter = "session"
  BY DEF LimInv, Command
<1>1. /\ BucketInv(op, OpCapacity, passed, lclock) /\ BucketInv(total, TotalCapacity, packets, lclock)
      /\ op \in Bucket /\ op.last <= lclock /\ total \in Bucket /\ total.last <= lclock
      /\ lclock \in Nat /\ Stamped(passed, lclock) /\ Stamped(packets, lclock)
      /\ OpCapacity \in Nat /\ TotalCapacity \in Nat
  BY <1>t, LimitsAre DEF LimInv, LType
<1>2. /\ total' = Consume(t) /\ packets' = IF Enough(t) THEN Append(packets, lclock) ELSE packets
      /\ op' = IF Enough(t) /\ d THEN Consume(o) ELSE op
      /\ passed' = IF d /\ Enough(t) /\ Enough(o) THEN Append(passed, lclock) ELSE passed
      /\ UNCHANGED <<limiter, lmax, lspan, lclock, window, barredUntil, stamps, thisLimit, lastLimit>>
  BY DEF Command, Note, limits, limitHistory
<1> HIDE DEF t, o
<1>3. total' \in Bucket /\ total'.last = lclock /\ BucketInv(total', TotalCapacity, packets', lclock)
  BY <1>1, <1>2, BucketPays DEF t
<1>4. op' \in Bucket /\ op'.last <= lclock /\ BucketInv(op', OpCapacity, passed', lclock)
  <2>1. CASE Enough(t) /\ d
    <3>1. op' = Consume(o) /\ passed' = IF Enough(o) THEN Append(passed, lclock) ELSE passed
      BY <1>2, <2>1
    <3>2. op' \in Bucket /\ op'.last = lclock /\ BucketInv(op', OpCapacity, passed', lclock)
      BY <1>1, <3>1, BucketPays DEF o
    <3> QED
      BY <1>1, <3>2
  <2>2. CASE ~(Enough(t) /\ d)
    <3>1. op' = op /\ passed' = passed
      BY <1>2, <2>2
    <3> QED
      BY <1>1, <3>1
  <2> QED
    BY <2>1, <2>2
<1>5. Stamped(passed', lclock) /\ Stamped(packets', lclock)
  <2>1. Stamped(Append(passed, lclock), lclock) /\ Stamped(Append(packets, lclock), lclock)
    BY <1>1, TimesGrow
  <2> QED
    BY <1>1, <1>2, <2>1
<1>6. LType'
  <2>1. total'.last <= lclock
    BY <1>1, <1>3
  <2> QED
    BY <1>t, <1>2, <1>3, <1>4, <1>5, <2>1 DEF LType
<1> QED
  BY <1>t, <1>2, <1>3, <1>4, <1>6 DEF LimInv

\* The parts of a window.
LEMMA WindowIs ==
  ASSUME LType, NEW n \in Nat
  PROVE  /\ window.count \in Nat /\ window.reset \in Nat
         /\ window = [count |-> window.count, reset |-> window.reset]
         /\ [window EXCEPT !.count = n] = [count |-> n, reset |-> window.reset]
BY DEF LType

\* A window begins when the last one has run out.
LEMMA WindowBegins ==
  ASSUME LType, WindowInv, NewWindow, passed' = Append(passed, lclock),
         UNCHANGED <<limiter, lclock>>,
         passed # <<>> => IF limiter = "connection" THEN lclock >= window.reset ELSE lclock > window.reset
  PROVE  WindowInv'
<1> DEFINE c == lclock
           r == window.reset
           w == thisLimit.span
           m == thisLimit.max
           start == r - w
<1>0. /\ w \in Nat /\ m \in Nat /\ lspan \in Nat /\ lspan > 0 /\ lmax \in Nat /\ lmax > 0 /\ c \in Nat /\ r \in Nat /\ start \in Int
      /\ passed \in Seq(Nat) /\ \A i \in DOMAIN passed : passed[i] \in Nat /\ passed[i] <= c
  <2>1. window.reset \in Nat /\ lclock \in Nat /\ passed \in Seq(Nat) /\ \A i \in DOMAIN passed : passed[i] <= lclock
    BY DEF LType, Stamped
  <2>2. thisLimit \in Limit /\ lspan \in Nat /\ lspan > 0 /\ lmax \in Nat /\ lmax > 0
    BY DEF LType
  <2> QED
    BY <2>1, <2>2 DEF Limit
<1>1. /\ window'.count = 1 /\ window'.reset = c + lspan /\ (c + lspan) - lspan = c
      /\ thisLimit'.span = lspan /\ thisLimit'.max = lmax /\ lastLimit'.span = w /\ lastLimit'.max = m
  BY <1>0 DEF NewWindow
<1>2. \A i \in DOMAIN passed : passed[i] < c
  <2>1. \A i \in DOMAIN passed : IF limiter = "connection" THEN passed[i] < r ELSE passed[i] <= r
    BY DEF WindowInv
  <2>2. ASSUME NEW i \in DOMAIN passed PROVE IF limiter = "connection" THEN c >= r ELSE c > r
    <3>1. passed # <<>>
      BY <2>2
    <3> QED
      BY <3>1
  <2> QED
    BY <1>0, <2>1, <2>2
<1>3. Since(passed, start) <= m
  BY DEF WindowInv
<1>4. \A t \in Int : t + w > c => Since(passed, t) <= m
  <2> SUFFICES ASSUME NEW t \in Int, t + w > c PROVE Since(passed, t) <= m
    OBVIOUS
  <2>1. CASE passed = <<>>
    <3>1. Since(passed, t) = 0
      BY <2>1, SinceNone
    <3> QED
      BY <1>0, <3>1
  <2>2. CASE passed # <<>>
    <3>1. start <= t
      BY <1>0, <2>2
    <3> HIDE DEF start
    <3>2. Since(passed, t) <= Since(passed, start)
      BY <1>0, <3>1, SinceShrinks
    <3>3. Since(passed, t) \in Nat /\ Since(passed, start) \in Nat
      BY <1>0, SinceIs
    <3> QED
      BY <1>0, <1>3, <3>2, <3>3
  <2> QED
    BY <2>1, <2>2
<1>5. Since(passed, c) = 0
  <2>1. \A i \in DOMAIN passed : ~(passed[i] >= c)
    BY <1>0, <1>2
  <2> QED
    BY <2>1, SinceNone
<1> DEFINE new == Append(passed, c)
<1>n. new = Append(passed, c) /\ passed' = new
  OBVIOUS
<1> HIDE DEF c, r, w, m, start, new
<1>6. \A t \in Int : Since(new, t) = IF c >= t THEN Since(passed, t) + 1 ELSE Since(passed, t)
  BY <1>0, <1>n, SinceOneMore
<1>7. Since(new, c) = 1
  BY <1>0, <1>5, <1>6
<1>8. \A t \in Int : t + w > c => Since(new, t) <= m + 1
  <2> SUFFICES ASSUME NEW t \in Int, t + w > c PROVE Since(new, t) <= m + 1
    OBVIOUS
  <2>1. Since(passed, t) \in Nat /\ Since(passed, t) <= m
    BY <1>0, <1>4, SinceIs
  <2>2. Since(new, t) = Since(passed, t) + 1 \/ Since(new, t) = Since(passed, t)
    BY <1>6
  <2> QED
    BY <1>0, <2>1, <2>2
<1>9. Stamped(new, c)
  <2>1. Stamped(passed, c)
    BY <1>0 DEF Stamped
  <2> QED
    BY <1>0, <1>n, <2>1, TimesGrow
<1>10. \A i \in DOMAIN new : new[i] < c + lspan /\ new[i] <= c + lspan
  <2>1. \A i \in DOMAIN new : new[i] \in Nat /\ new[i] <= c
    BY <1>9 DEF Stamped
  <2> QED
    BY <1>0, <2>1
<1>11. lclock' = c /\ window'.reset - thisLimit'.span = c /\ 1 <= thisLimit'.max /\ c <= c /\ 1 > 0
  BY <1>0, <1>1 DEF c
<1> QED
  BY <1>1, <1>7, <1>8, <1>10, <1>11, <1>n DEF WindowInv

\* One more within the window.
LEMMA WindowCounts ==
  ASSUME LType, WindowInv, window' = [window EXCEPT !.count = @ + 1], passed' = Append(passed, lclock),
         UNCHANGED <<limiter, lclock, thisLimit, lastLimit>>, window.count # 0, window.count + 1 <= thisLimit.max,
         IF limiter = "connection" THEN lclock < window.reset ELSE lclock <= window.reset
  PROVE  WindowInv'
<1> DEFINE c == lclock
           r == window.reset
           n == window.count
           w == lastLimit.span
           m == lastLimit.max
           k == thisLimit.max
           start == r - thisLimit.span
           new == Append(passed, c)
<1>0. /\ w \in Nat /\ m \in Nat /\ k \in Nat /\ c \in Nat /\ r \in Nat /\ n \in Nat /\ start \in Int
      /\ passed \in Seq(Nat)
  <2>1. window.reset \in Nat /\ window.count \in Nat /\ lclock \in Nat /\ passed \in Seq(Nat)
    BY DEF LType, Stamped
  <2>2. thisLimit \in Limit /\ lastLimit \in Limit
    BY DEF LType
  <2> QED
    BY <2>1, <2>2 DEF Limit
<1>1. window'.count = n + 1 /\ window'.reset = r
  BY DEF LType
<1>2. /\ start <= c /\ Since(passed, start) = n
      /\ \A t \in Int : t + w > start => Since(passed, t) <= m + Since(passed, start)
      /\ \A i \in DOMAIN passed : IF limiter = "connection" THEN passed[i] < r ELSE passed[i] <= r
  BY <1>0 DEF WindowInv
<1>n. /\ new = Append(passed, c) /\ passed' = new /\ window'.reset - thisLimit'.span = start
      /\ thisLimit'.max = k /\ lastLimit'.max = m /\ lastLimit'.span = w
  BY <1>1
<1>10. n + 1 # 0 /\ n + 1 > 0 /\ n + 1 <= k
  BY <1>0
<1>11. lclock' = c /\ limiter' = limiter /\ IF limiter = "connection" THEN c < r ELSE c <= r
  OBVIOUS
<1> HIDE DEF c, r, n, w, m, k, start, new
<1>6. \A t \in Int : Since(new, t) = IF c >= t THEN Since(passed, t) + 1 ELSE Since(passed, t)
  <2>1. c \in Nat /\ passed \in Seq(Nat) /\ new = Append(passed, c)
    BY <1>0, <1>n
  <2> QED
    BY <2>1, SinceOneMore
<1>7. Since(new, start) = n + 1
  <2>1. c >= start
    BY <1>0, <1>2
  <2>2. Since(new, start) = Since(passed, start) + 1
    BY <1>0, <1>6, <2>1
  <2> QED
    BY <1>2, <2>2
<1>8. \A t \in Int : t + w > start => Since(new, t) <= m + (n + 1)
  <2> SUFFICES ASSUME NEW t \in Int, t + w > start PROVE Since(new, t) <= m + (n + 1)
    OBVIOUS
  <2>1. Since(passed, t) \in Nat /\ Since(passed, t) <= m + n
    BY <1>0, <1>2, SinceIs
  <2>2. Since(new, t) = Since(passed, t) + 1 \/ Since(new, t) = Since(passed, t)
    BY <1>6
  <2> QED
    BY <1>0, <2>1, <2>2
<1>9. \A i \in DOMAIN new : IF limiter = "connection" THEN new[i] < r ELSE new[i] <= r
  <2> DEFINE q == Len(passed)
  <2>1. /\ q \in Nat /\ DOMAIN passed = 1 .. q /\ DOMAIN new = 1 .. (q + 1)
        /\ new[q + 1] = c /\ \A i \in 1 .. q : new[i] = passed[i]
    BY <1>0, <1>n
  <2> HIDE DEF q
  <2>2. \A i \in 1 .. (q + 1) : i \in 1 .. q \/ i = q + 1
    BY <2>1
  <2> QED
    BY <1>2, <1>11, <2>1, <2>2
<1> QED
  BY <1>1, <1>2, <1>7, <1>8, <1>9, <1>10, <1>11, <1>n DEF WindowInv

\* A window is forgotten.
LEMMA WindowForgotten ==
  ASSUME LType, WindowInv, window' = [window EXCEPT !.count = 0], UNCHANGED <<limiter, lclock, passed, thisLimit, lastLimit>>,
         IF limiter = "connection" THEN lclock >= window.reset \/ barredUntil' >= window.reset
         ELSE lclock > window.reset
  PROVE  WindowInv'
<1>1. window'.count = 0 /\ window'.reset = window.reset
  BY DEF LType
<1>2. 0 <= thisLimit.max /\ ~(0 > 0)
  BY DEF LType, Limit
<1> QED
  BY <1>1, <1>2 DEF WindowInv

\* Time passes, a request is refused, or the maximum is raised.
LEMMA WindowStays ==
  ASSUME LType, WindowInv, UNCHANGED <<limiter, window, passed, barredUntil, lastLimit>>, lclock' \in {lclock, lclock + 1},
         thisLimit'.span = thisLimit.span, thisLimit'.max \in Nat, thisLimit'.max >= thisLimit.max
  PROVE  WindowInv'
<1> DEFINE start == window.reset - thisLimit.span
<1>1. /\ window.reset \in Nat /\ window.count \in Nat /\ lclock \in Nat /\ thisLimit.span \in Nat /\ thisLimit.max \in Nat
      /\ passed \in Seq(Nat) /\ start \in Int
  BY DEF LType, Limit, Stamped
<1>2. /\ start <= lclock => start <= lclock'
      /\ lclock >= window.reset => lclock' >= window.reset
      /\ lclock > window.reset => lclock' > window.reset
  BY <1>1
<1>3. Since(passed, start) \in Nat
  <2> HIDE DEF start
  <2> QED
    BY <1>1, SinceIs
<1>4. window.count <= thisLimit.max /\ Since(passed, start) <= thisLimit.max
  BY DEF WindowInv
<1>5. window.count <= thisLimit'.max /\ Since(passed, start) <= thisLimit'.max
  <2> HIDE DEF start
  <2> QED
    BY <1>1, <1>3, <1>4
<1> QED
  BY <1>2, <1>5 DEF WindowInv

\* The types of a request that is let through or refused.
LEMMA RequestType ==
  ASSUME LType, window' \in [count : Nat, reset : Nat], barredUntil' \in Nat, Stamped(stamps', lclock),
         passed' = passed \/ passed' = Append(passed, lclock),
         UNCHANGED <<limiter, lmax, lspan, lclock, op, total, packets>>,
         UNCHANGED <<thisLimit, lastLimit>> \/ NewWindow
  PROVE  LType'
<1>1. Stamped(passed', lclock)
  BY TimesGrow DEF LType
<1>2. /\ thisLimit' \in Limit /\ lastLimit' \in Limit /\ lmax <= thisLimit'.max
      /\ limiter = "connection" => thisLimit'.span = Span
  <2>1. CASE UNCHANGED <<thisLimit, lastLimit>>
    BY <2>1 DEF LType
  <2>2. CASE NewWindow
    BY <2>2 DEF LType, NewWindow, Limit
  <2> QED
    BY <2>1, <2>2
<1> QED
  BY <1>1, <1>2 DEF LType

LEMMA NewWindowIs ==
  ASSUME LType, NewWindow
  PROVE  window' \in [count : Nat, reset : Nat]
BY DEF LType, NewWindow

LEMMA ConnectStep ==
  ASSUME LimInv, Connect
  PROVE  LimInv'
<1>t. LType /\ WindowInv /\ limiter = "connection" /\ UNCHANGED <<limiter, lmax, lspan, lclock, op, total, stamps, packets>>
  BY DEF LimInv, Connect, limits
<1>0. /\ window.count \in Nat /\ window.reset \in Nat /\ lclock \in Nat /\ barredUntil \in Nat /\ lmax \in Nat
      /\ Stamped(stamps, lclock) /\ window \in [count : Nat, reset : Nat]
      /\ thisLimit.max \in Nat /\ lmax <= thisLimit.max /\ thisLimit.span = Span
  BY <1>t DEF LType, Limit
<1>c. Span \in Nat /\ BanSpan \in Nat /\ Span <= BanSpan
  BY LimitsAre
<1>1. CASE lclock < barredUntil
  <2>1. UNCHANGED <<window, barredUntil, passed, thisLimit, lastLimit>>
    BY <1>1 DEF Connect, Note, limitHistory
  <2>2. WindowInv'
    BY <1>t, <1>0, <2>1, WindowStays
  <2>3. LType'
    BY <1>t, <1>0, <2>1, RequestType
  <2> QED
    BY <1>t, <2>2, <2>3 DEF LimInv
<1>2. CASE ~(lclock < barredUntil) /\ (window.count = 0 \/ lclock >= window.reset)
  <2>1. NewWindow /\ barredUntil' = 0 /\ passed' = Append(passed, lclock)
    BY <1>2 DEF Connect, Note, limitHistory
  <2>2. passed # <<>> => lclock >= window.reset
    <3>1. CASE lclock >= window.reset
      BY <3>1
    <3>2. CASE window.count = 0
      <4>1. passed # <<>> => lclock >= window.reset \/ barredUntil >= window.reset
        BY <1>t, <3>2 DEF WindowInv
      <4> QED
        BY <1>0, <1>2, <4>1
    <3> QED
      BY <1>2, <3>1, <3>2
  <2>3. WindowInv'
    BY <1>t, <2>1, <2>2, WindowBegins
  <2>4. window' \in [count : Nat, reset : Nat] /\ barredUntil' \in Nat
    BY <1>t, <2>1, NewWindowIs
  <2>5. LType'
    BY <1>t, <1>0, <2>1, <2>4, RequestType
  <2> QED
    BY <1>t, <2>3, <2>5 DEF LimInv
<1>3. CASE ~(lclock < barredUntil) /\ ~(window.count = 0 \/ lclock >= window.reset) /\ window.count + 1 > lmax
  <2>1. /\ window' = [window EXCEPT !.count = 0] /\ barredUntil' = lclock + BanSpan /\ passed' = passed
        /\ UNCHANGED <<thisLimit, lastLimit>>
    BY <1>3 DEF Connect, Note, limitHistory
  <2>2. barredUntil' >= window.reset
    <3>1. window.reset - Span <= lclock
      BY <1>t, <1>0 DEF WindowInv
    <3> QED
      BY <1>0, <1>c, <2>1, <3>1
  <2>3. WindowInv'
    BY <1>t, <2>1, <2>2, WindowForgotten
  <2>4. window' \in [count : Nat, reset : Nat] /\ barredUntil' \in Nat
    BY <1>0, <1>c, <2>1
  <2>5. LType'
    BY <1>t, <1>0, <2>1, <2>4, RequestType
  <2> QED
    BY <1>t, <2>3, <2>5 DEF LimInv
<1>4. CASE ~(lclock < barredUntil) /\ ~(window.count = 0 \/ lclock >= window.reset) /\ ~(window.count + 1 > lmax)
  <2>1. /\ window' = [window EXCEPT !.count = @ + 1] /\ barredUntil' = 0 /\ passed' = Append(passed, lclock)
        /\ UNCHANGED <<thisLimit, lastLimit>>
    BY <1>4 DEF Connect, Note, limitHistory
  <2>2. window.count # 0 /\ window.count + 1 <= thisLimit.max /\ lclock < window.reset
    BY <1>0, <1>c, <1>4
  <2>3. WindowInv'
    BY <1>t, <2>1, <2>2, WindowCounts
  <2>4. window' \in [count : Nat, reset : Nat] /\ barredUntil' \in Nat
    BY <1>0, <2>1
  <2>5. LType'
    BY <1>t, <1>0, <2>1, <2>4, RequestType
  <2> QED
    BY <1>t, <2>3, <2>5 DEF LimInv
<1> QED
  BY <1>1, <1>2, <1>3, <1>4

LEMMA HttpStep ==
  ASSUME LimInv, HttpRequest
  PROVE  LimInv'
<1>t. /\ LType /\ WindowInv /\ limiter = "http"
      /\ UNCHANGED <<limiter, lmax, lspan, lclock, op, total, barredUntil, stamps, packets>>
  BY DEF LimInv, HttpRequest, limits
<1>0. /\ window.count \in Nat /\ window.reset \in Nat /\ lclock \in Nat /\ barredUntil \in Nat /\ lmax \in Nat
      /\ Stamped(stamps, lclock) /\ window \in [count : Nat, reset : Nat]
      /\ thisLimit.max \in Nat /\ lmax <= thisLimit.max
  BY <1>t DEF LType, Limit
<1>2. CASE window.count = 0 \/ lclock > window.reset
  <2>1. NewWindow /\ passed' = Append(passed, lclock)
    BY <1>2 DEF HttpRequest, Note, limitHistory
  <2>2. passed # <<>> => lclock > window.reset
    BY <1>t, <1>2 DEF WindowInv
  <2>3. WindowInv'
    BY <1>t, <2>1, <2>2, WindowBegins
  <2>4. window' \in [count : Nat, reset : Nat]
    BY <1>t, <2>1, NewWindowIs
  <2>5. LType'
    BY <1>t, <1>0, <2>1, <2>4, RequestType
  <2> QED
    BY <1>t, <2>3, <2>5 DEF LimInv
<1>3. CASE ~(window.count = 0 \/ lclock > window.reset) /\ window.count >= lmax
  <2>1. UNCHANGED <<window, passed, thisLimit, lastLimit>>
    BY <1>3 DEF HttpRequest, Note, limitHistory
  <2>2. WindowInv'
    BY <1>t, <1>0, <2>1, WindowStays
  <2>3. LType'
    BY <1>t, <1>0, <2>1, RequestType
  <2> QED
    BY <1>t, <2>2, <2>3 DEF LimInv
<1>4. CASE ~(window.count = 0 \/ lclock > window.reset) /\ ~(window.count >= lmax)
  <2>1. /\ window' = [window EXCEPT !.count = @ + 1] /\ passed' = Append(passed, lclock)
        /\ UNCHANGED <<thisLimit, lastLimit>>
    BY <1>4 DEF HttpRequest, Note, limitHistory
  <2>2. window.count # 0 /\ window.count + 1 <= thisLimit.max /\ lclock <= window.reset
    BY <1>0, <1>4
  <2>3. WindowInv'
    BY <1>t, <2>1, <2>2, WindowCounts
  <2>4. window' \in [count : Nat, reset : Nat]
    BY <1>0, <2>1
  <2>5. LType'
    BY <1>t, <1>0, <2>1, <2>4, RequestType
  <2> QED
    BY <1>t, <2>3, <2>5 DEF LimInv
<1> QED
  BY <1>2, <1>3, <1>4

\* Nothing logged in the last second counts twice: what passed is among the stamps, or the
\* ban has outlasted it.
LEMMA LogCounted ==
  ASSUME LType, LogInv, ~(lclock < barredUntil), NEW t \in Int, t + Second > lclock
  PROVE  Since(passed, t) <= Since(stamps, t)
<1>0. /\ lclock \in Nat /\ barredUntil \in Nat /\ Second \in Nat
      /\ stamps \in Seq(Nat) /\ \A i \in DOMAIN passed : passed[i] \in Nat
  BY LimitsAre DEF LType, Stamped
<1>1. CASE \A u \in Int : u + Second > lclock => Since(passed, u) <= Since(stamps, u)
  BY <1>1
<1>2. CASE \A i \in DOMAIN passed : passed[i] + Second <= barredUntil
  <2>1. \A i \in DOMAIN passed : ~(passed[i] >= t)
    BY <1>0, <1>2
  <2>2. Since(passed, t) = 0
    BY <2>1, SinceNone
  <2>3. Since(stamps, t) \in Nat
    BY <1>0, SinceIs
  <2> QED
    BY <2>2, <2>3
<1> QED
  BY <1>1, <1>2 DEF LogInv

\* A line for the log.
LEMMA LogStep ==
  ASSUME LimInv, ShouldLog
  PROVE  LimInv'
<1> DEFINE I == {i \in DOMAIN stamps : stamps[i] + Second > lclock}
           recent == Selected(stamps, I)
           keptStamps == Append(recent, lclock)
<1>t. LType /\ LogInv /\ limiter = "log" /\ UNCHANGED <<limiter, lmax, lspan, lclock, op, total, window, packets, thisLimit, lastLimit>>
  BY DEF LimInv, ShouldLog, limits, limitHistory
<1>0. /\ lclock \in Nat /\ barredUntil \in Nat /\ Second \in Nat /\ BanSpan \in Nat /\ Second <= BanSpan
      /\ passed \in Seq(Nat) /\ \A i \in DOMAIN passed : passed[i] \in Nat /\ passed[i] <= lclock
      /\ stamps \in Seq(Nat) /\ \A i \in DOMAIN stamps : stamps[i] \in Nat /\ stamps[i] <= lclock
      /\ LogThreshold \in Nat /\ Stamped(stamps, lclock) /\ Stamped(passed, lclock)
      /\ window' \in [count : Nat, reset : Nat]
  BY <1>t, LimitsAre DEF LType, Stamped
<1>1. CASE lclock < barredUntil
  <2>1. UNCHANGED <<barredUntil, stamps, passed>>
    BY <1>1 DEF ShouldLog, Note
  <2>2. LogInv'
    BY <1>t, <2>1 DEF LogInv
  <2>3. LType'
    BY <1>t, <1>0, <2>1, RequestType
  <2> QED
    BY <1>t, <2>2, <2>3 DEF LimInv
<1>2. CASE ~(lclock < barredUntil) /\ Len(keptStamps) > LogThreshold
  <2>1. stamps' = <<>> /\ barredUntil' = lclock + BanSpan /\ passed' = passed
    BY <1>2 DEF ShouldLog, Note
  <2>2. \A i \in DOMAIN passed : passed[i] + Second <= barredUntil'
    BY <1>0, <2>1
  <2>3. LogInv'
    <3>1. Len(<<>>) <= LogThreshold
      BY <1>0
    <3> QED
      BY <1>t, <2>1, <2>2, <3>1 DEF LogInv
  <2>4. Stamped(stamps', lclock) /\ barredUntil' \in Nat
    BY <1>0, <2>1 DEF Stamped
  <2>5. LType'
    BY <1>t, <1>0, <2>1, <2>4, RequestType
  <2> QED
    BY <1>t, <2>3, <2>5 DEF LimInv
<1>3. CASE ~(lclock < barredUntil) /\ ~(Len(keptStamps) > LogThreshold)
  <2>1. stamps' = keptStamps /\ barredUntil' = 0 /\ passed' = Append(passed, lclock)
    BY <1>3 DEF ShouldLog, Note
  <2>2. I \subseteq DOMAIN stamps /\ I \subseteq 1 .. Len(stamps)
    BY <1>0
  <2>3. \A t \in Int : t + Second > lclock => \A i \in From(stamps, t) : i \in I
    BY <1>0 DEF From
  <2>i. \A i \in I : stamps[i] <= lclock
    BY <1>0
  <2> HIDE DEF I
  <2>4. recent \in Seq(Nat) /\ \E f : Picks(recent, stamps, I, f)
    BY <1>0, <2>2, SelectedIs
  <2>5. \A t \in Int : t + Second > lclock => Since(stamps, t) <= Since(recent, t)
    BY <1>0, <2>2, <2>3, SelectedSince
  <2>6. Stamped(recent, lclock)
    <3>1. PICK f : Picks(recent, stamps, I, f)
      BY <2>4
    <3>2. \A k \in DOMAIN recent : f[k] \in I /\ recent[k] = stamps[f[k]]
      BY <3>1 DEF Picks
    <3> QED
      BY <2>4, <2>i, <3>2 DEF Stamped
  <2> HIDE DEF recent
  <2>7. Stamped(keptStamps, lclock) /\ keptStamps \in Seq(Nat) /\ Len(keptStamps) \in Nat
    <3>1. Stamped(Append(recent, lclock), lclock)
      BY <1>0, <2>6, TimesGrow
    <3> QED
      BY <3>1 DEF Stamped
  <2>8. \A t \in Int : Since(keptStamps, t) = IF lclock >= t THEN Since(recent, t) + 1 ELSE Since(recent, t)
    BY <1>0, <2>4, SinceOneMore
  <2>9. \A t \in Int : Since(passed', t) = IF lclock >= t THEN Since(passed, t) + 1 ELSE Since(passed, t)
    BY <1>0, <2>1, SinceOneMore
  <2>10. Len(keptStamps) <= LogThreshold
    BY <1>0, <1>3, <2>7
  <2> HIDE DEF keptStamps
  <2>11. ASSUME NEW t \in Int, t + Second > lclock
         PROVE  Since(passed', t) <= Since(keptStamps, t) /\ Since(passed', t) <= LogThreshold
    <3>1. Since(passed, t) <= Since(stamps, t)
      BY <1>t, <1>3, <2>11, LogCounted
    <3>2. Since(stamps, t) <= Since(recent, t)
      BY <2>5, <2>11
    <3>3. Since(passed, t) \in Nat /\ Since(stamps, t) \in Nat /\ Since(recent, t) \in Nat
      BY <1>0, <2>4, SinceIs
    <3>4. Since(keptStamps, t) \in Nat /\ Since(keptStamps, t) <= Len(keptStamps)
      BY <2>7, SinceIs
    <3>5. Since(passed', t) \in Nat /\ Since(passed', t) <= Since(keptStamps, t)
      BY <2>8, <2>9, <3>1, <3>2, <3>3
    <3> QED
      BY <1>0, <2>7, <2>10, <3>4, <3>5
  <2>12. LogInv'
    BY <1>t, <2>1, <2>10, <2>11 DEF LogInv
  <2>13. Stamped(stamps', lclock) /\ barredUntil' \in Nat
    BY <2>1, <2>7
  <2>14. LType'
    BY <1>t, <1>0, <2>1, <2>13, RequestType
  <2> QED
    BY <1>t, <2>12, <2>14 DEF LimInv
<1> QED
  BY <1>1, <1>2, <1>3

LEMMA NothingSince == \A t \in Int : Since(<<>>, t) = 0
BY SinceNone

\* Time passes for every limiter.
LEMMA LTickStep ==
  ASSUME LimInv, LTick
  PROVE  LimInv'
<1>t. /\ LType /\ lclock' = lclock + 1 /\ lclock \in Nat
      /\ UNCHANGED <<limiter, lmax, lspan, op, total, window, barredUntil, stamps, passed, packets, thisLimit, lastLimit>>
  BY DEF LimInv, LTick, LType, limits, limitHistory
<1>1. /\ Stamped(passed, lclock) /\ Stamped(packets, lclock) /\ Stamped(stamps, lclock)
      /\ op \in Bucket /\ op.last <= lclock /\ total \in Bucket /\ total.last <= lclock
      /\ op.last \in Nat /\ total.last \in Nat /\ OpCapacity \in Nat /\ TotalCapacity \in Nat
  BY <1>t, BucketIs, LimitsAre DEF LType
<1>2. LType'
  <2>1. Stamped(passed, lclock + 1) /\ Stamped(packets, lclock + 1) /\ Stamped(stamps, lclock + 1)
    BY <1>t, <1>1, TimesGrow
  <2>2. op.last <= lclock + 1 /\ total.last <= lclock + 1 /\ lclock + 1 \in Nat
    BY <1>t, <1>1
  <2> QED
    BY <1>t, <2>1, <2>2 DEF LType
<1>3. CASE limiter = "session"
  <2>1. BucketInv(op, OpCapacity, passed, lclock) /\ BucketInv(total, TotalCapacity, packets, lclock)
    BY <1>3 DEF LimInv
  <2>2. BucketInv(op, OpCapacity, passed, lclock + 1) /\ BucketInv(total, TotalCapacity, packets, lclock + 1)
    BY <1>t, <1>1, <2>1, BucketTicks
  <2> QED
    BY <1>t, <1>2, <1>3, <2>2 DEF LimInv
<1>4. CASE limiter \in {"connection", "http"}
  <2>1. WindowInv
    BY <1>4 DEF LimInv
  <2>m. thisLimit.max \in Nat /\ thisLimit.max >= thisLimit.max
    BY <1>t DEF LType, Limit
  <2>2. WindowInv'
    BY <1>t, <2>1, <2>m, WindowStays
  <2> QED
    BY <1>t, <1>2, <1>4, <2>2 DEF LimInv
<1>5. CASE limiter = "log"
  <2>1. LogInv
    BY <1>5 DEF LimInv
  <2>2. \A t \in Int : t + Second > lclock + 1 => t + Second > lclock
    BY <1>t, LimitsAre
  <2>3. LogInv'
    BY <1>t, <2>1, <2>2 DEF LogInv
  <2> QED
    BY <1>t, <1>2, <1>5, <2>3 DEF LimInv
<1> QED
  BY <1>t, <1>3, <1>4, <1>5 DEF LType

\* Full buckets, no window, no ban and nothing let through.
LEMMA LInitially ==
  ASSUME LInit
  PROVE  LimInv
<1>1. /\ limiter \in {"session", "connection", "http", "log"} /\ lclock = 0
      /\ op = [tokens |-> OpCapacity * Second, last |-> 0]
      /\ total = [tokens |-> TotalCapacity * Second, last |-> 0]
      /\ window = [count |-> 0, reset |-> 0] /\ barredUntil = 0 /\ stamps = <<>>
      /\ passed = <<>> /\ packets = <<>>
  BY DEF LInit
<1>l. /\ lmax \in Nat /\ lmax > 0 /\ lspan \in Nat /\ lspan > 0
      /\ limiter = "connection" => lspan = Span
      /\ thisLimit = [max |-> lmax, span |-> lspan] /\ lastLimit = thisLimit
  <2>1. /\ lmax \in 1 .. MaxMax /\ (limiter = "http" => lspan \in Spans) /\ (limiter # "http" => lspan = Span)
        /\ thisLimit = [max |-> lmax, span |-> lspan] /\ lastLimit = thisLimit
    BY DEF LInit
  <2>2. lmax \in Nat /\ lmax > 0
    BY <2>1, LimitsAre
  <2>3. lspan \in Nat /\ lspan > 0
    BY <2>1, LimitsAre
  <2> QED
    BY <2>1, <2>2, <2>3
<1>m. /\ thisLimit \in Limit /\ lastLimit \in Limit /\ thisLimit.max = lmax /\ thisLimit.span = lspan
      /\ lastLimit.max = lmax /\ lastLimit.span = lspan
  BY <1>l DEF Limit
<1>2. /\ OpCapacity \in Nat /\ TotalCapacity \in Nat /\ Second \in Nat /\ Span \in Nat /\ MaxMax \in Nat /\ MaxMax > 0
      /\ OpCapacity * Second \in Nat /\ TotalCapacity * Second \in Nat /\ LogThreshold \in Nat
  BY LimitsAre
<1>3. LType
  <2>1. Stamped(<<>>, 0)
    BY DEF Stamped
  <2>2. op \in Bucket /\ total \in Bucket /\ op.last = 0 /\ total.last = 0
    BY <1>1, <1>2 DEF Bucket
  <2>3. lmax <= thisLimit.max
    BY <1>l, <1>m
  <2> QED
    BY <1>1, <1>2, <1>l, <1>m, <2>1, <2>2, <2>3 DEF LType
<1>4. ASSUME NEW b \in Bucket, NEW capacity \in Nat, b.last = 0 PROVE BucketInv(b, capacity, <<>>, 0)
  <2> SUFFICES ASSUME NEW t \in 0 .. 0
               PROVE  Since(<<>>, t) * Second + Level(b, capacity, 0) <= capacity * (Second + 0 - t)
    BY DEF BucketInv
  <2>1. t = 0 /\ Since(<<>>, t) = 0
    BY NothingSince
  <2>2. Level(b, capacity, 0) \in Nat /\ Level(b, capacity, 0) <= capacity * Second
    <3>1. b.last <= 0 /\ 0 \in Nat
      BY <1>4
    <3> QED
      BY <3>1, LevelIs
  <2>3. 0 * Second + Level(b, capacity, 0) = Level(b, capacity, 0) /\ Second + 0 - 0 = Second
    BY <1>2, <2>2
  <2> QED
    BY <2>1, <2>2, <2>3
<1>5. BucketInv(op, OpCapacity, passed, lclock) /\ BucketInv(total, TotalCapacity, packets, lclock)
  <2>1. op \in Bucket /\ total \in Bucket /\ op.last = 0 /\ total.last = 0
    BY <1>1, <1>2 DEF Bucket
  <2>2. BucketInv(op, OpCapacity, <<>>, 0) /\ BucketInv(total, TotalCapacity, <<>>, 0)
    BY <1>2, <1>4, <2>1
  <2> QED
    BY <1>1, <2>2
<1>6. WindowInv
  <2>1. window.count = 0 /\ window.reset = 0 /\ 0 - lspan \in Int /\ 0 - lspan <= 0 /\ 0 <= lmax /\ 0 <= lmax + 0
    BY <1>1, <1>l
  <2> QED
    BY <1>1, <1>m, <2>1, NothingSince DEF WindowInv
<1>7. LogInv
  <2>1. Len(<<>>) <= LogThreshold /\ 0 <= LogThreshold
    BY <1>2
  <2> QED
    BY <1>1, <2>1, NothingSince DEF LogInv
<1> QED
  BY <1>3, <1>5, <1>6, <1>7 DEF LimInv

LEMMA LimStep ==
  ASSUME LimInv, [LNext]_lVars
  PROVE  LimInv'
<1>t. LType
  BY DEF LimInv
<1>1. ASSUME NEW d \in BOOLEAN, Command(d) PROVE LimInv'
  BY <1>1, CommandStep
<1>2. CASE Connect
  BY <1>2, ConnectStep
<1>3. CASE HttpRequest
  BY <1>3, HttpStep
<1>4. CASE ShouldLog
  BY <1>4, LogStep
<1>5. CASE Unbar
  <2>1. /\ limiter = "log" /\ stamps' = <<>> /\ barredUntil' = 0 /\ passed' = <<>>
        /\ UNCHANGED <<limiter, lmax, lspan, lclock, op, total, window, packets, thisLimit, lastLimit>>
    BY <1>5 DEF Unbar, limits, limitHistory
  <2>2. Stamped(<<>>, lclock)
    BY DEF Stamped
  <2>3. LType'
    BY <1>t, <2>1, <2>2 DEF LType
  <2>4. Len(<<>>) <= LogThreshold /\ 0 <= LogThreshold
    BY LimitsAre
  <2>5. LogInv'
    BY <2>1, <2>4, NothingSince DEF LogInv
  <2> QED
    BY <2>1, <2>3, <2>5 DEF LimInv
<1>6. CASE CleanUp
  <2>1. /\ \/ limiter = "connection" /\ lclock >= window.reset
           \/ limiter = "http" /\ lclock > window.reset
        /\ window' = [window EXCEPT !.count = 0]
        /\ UNCHANGED <<limiter, lmax, lspan, lclock, op, total, barredUntil, stamps, passed, packets, thisLimit, lastLimit>>
    BY <1>6 DEF CleanUp, limits, limitHistory
  <2>2. WindowInv
    BY <2>1 DEF LimInv
  <2>3. WindowInv'
    BY <1>t, <2>1, <2>2, WindowForgotten
  <2>4. LType'
    BY <1>t, <2>1 DEF LType
  <2> QED
    BY <2>1, <2>3, <2>4 DEF LimInv
<1>7. CASE LTick
  BY <1>7, LTickStep
<1>8. ASSUME NEW n \in 1 .. MaxMax, NEW span \in Spans \cup {Span}, SetOptions(n, span) PROVE LimInv'
  <2>1. /\ limiter \in {"connection", "http"} /\ lmax' = n /\ lspan' = span
        /\ limiter = "connection" => span = lspan
        /\ thisLimit' = [thisLimit EXCEPT !.max = IF n > thisLimit.max THEN n ELSE thisLimit.max]
        /\ UNCHANGED <<limiter, lclock, op, total, window, barredUntil, stamps, passed, packets, lastLimit>>
    BY <1>8 DEF SetOptions
  <2>2. n \in Nat /\ n > 0 /\ span \in Nat /\ span > 0
    BY LimitsAre
  <2>3. thisLimit \in Limit /\ thisLimit.max \in Nat
    BY <1>t DEF LType, Limit
  <2>4. /\ thisLimit' \in Limit /\ thisLimit'.span = thisLimit.span /\ thisLimit'.max \in Nat
        /\ thisLimit'.max >= thisLimit.max /\ n <= thisLimit'.max
    BY <2>1, <2>2, <2>3 DEF Limit
  <2>5. WindowInv
    BY <2>1 DEF LimInv
  <2>6. WindowInv'
    BY <1>t, <2>1, <2>4, <2>5, WindowStays
  <2>7. LType'
    BY <1>t, <2>1, <2>2, <2>4 DEF LType
  <2> QED
    BY <2>1, <2>6, <2>7 DEF LimInv
<1>9. CASE UNCHANGED lVars
  BY <1>9 DEF lVars, LimInv, LType, WindowInv, LogInv
<1> QED
  BY <1>1, <1>2, <1>3, <1>4, <1>5, <1>6, <1>7, <1>8, <1>9 DEF LNext

\* The bound that each limiter promises.
LEMMA LimitsFollow ==
  ASSUME LimInv
  PROVE  LimitsHold
<1> SUFFICES ASSUME NEW t \in 0 .. lclock
             PROVE  CASE limiter = "session" ->
                           /\ Since(passed, t) * Second <= OpCapacity * (Second + lclock - t)
                           /\ Since(packets, t) * Second <= TotalCapacity * (Second + lclock - t)
                      [] limiter \in {"connection", "http"} ->
                           lclock - t < lastLimit.span => Since(passed, t) <= lastLimit.max + thisLimit.max
                      [] OTHER -> lclock - t < Second => Since(passed, t) <= LogThreshold
  BY DEF LimitsHold
<1>0. /\ LType /\ t \in Int /\ lclock \in Nat /\ Second \in Nat
      /\ lastLimit.span \in Nat /\ lastLimit.max \in Nat /\ thisLimit.span \in Nat /\ thisLimit.max \in Nat
      /\ OpCapacity \in Nat /\ TotalCapacity \in Nat
      /\ passed \in Seq(Nat) /\ packets \in Seq(Nat) /\ window.reset \in Nat
  BY LimitsAre DEF LimInv, LType, Stamped, Limit
<1>1. limiter \in {"session", "connection", "http", "log"}
  BY <1>0 DEF LType
<1>2. CASE limiter = "session"
  <2>1. ASSUME NEW b \in Bucket, NEW capacity \in Nat, b.last <= lclock,
               NEW ts \in Seq(Nat), BucketInv(b, capacity, ts, lclock)
        PROVE  Since(ts, t) * Second <= capacity * (Second + lclock - t)
    <3> DEFINE m == Since(ts, t) * Second
               s == Second + lclock - t
               right == capacity * s
    <3>1. m + Level(b, capacity, lclock) <= right
      BY <2>1 DEF BucketInv
    <3>2. Level(b, capacity, lclock) \in Nat
      BY <1>0, <2>1, LevelIs
    <3>3. m \in Nat
      <4>1. Since(ts, t) \in Nat
        BY <1>0, SinceIs
      <4> QED
        BY <1>0, <4>1
    <3>4. right \in Int
      <4>1. s \in Int
        BY <1>0
      <4> HIDE DEF s
      <4> QED
        BY <4>1
    <3> HIDE DEF m, right
    <3>5. m <= right
      BY <3>1, <3>2, <3>3, <3>4
    <3> QED
      BY <3>5 DEF m, right
  <2>2. /\ BucketInv(op, OpCapacity, passed, lclock) /\ BucketInv(total, TotalCapacity, packets, lclock)
        /\ op \in Bucket /\ op.last <= lclock /\ total \in Bucket /\ total.last <= lclock
    BY <1>2 DEF LimInv, LType
  <2>3. /\ Since(passed, t) * Second <= OpCapacity * (Second + lclock - t)
        /\ Since(packets, t) * Second <= TotalCapacity * (Second + lclock - t)
    BY <1>0, <2>1, <2>2
  <2> QED
    BY <1>2, <2>3
<1>3. CASE limiter \in {"connection", "http"}
  <2>1. WindowInv
    BY <1>3 DEF LimInv
  <2> DEFINE start == window.reset - thisLimit.span
  <2>2. /\ start <= lclock /\ Since(passed, start) <= thisLimit.max
        /\ t + lastLimit.span > start => Since(passed, t) <= lastLimit.max + Since(passed, start)
    BY <1>0, <2>1 DEF WindowInv
  <2>3. start \in Int
    BY <1>0
  <2> HIDE DEF start
  <2>4. Since(passed, t) \in Nat /\ Since(passed, start) \in Nat
    BY <1>0, <2>3, SinceIs
  <2>5. ASSUME lclock - t < lastLimit.span PROVE Since(passed, t) <= lastLimit.max + thisLimit.max
    <3>1. t + lastLimit.span > start
      BY <1>0, <2>2, <2>3, <2>5
    <3> QED
      BY <1>0, <2>2, <2>4, <3>1
  <2> QED
    BY <1>3, <2>5
<1>4. CASE limiter = "log"
  <2>1. t + Second > lclock => Since(passed, t) <= LogThreshold
    BY <1>0, <1>4 DEF LimInv, LogInv
  <2>2. lclock - t < Second => t + Second > lclock
    BY <1>0
  <2> QED
    BY <1>4, <2>1, <2>2
<1> QED
  BY <1>1, <1>2, <1>3, <1>4

\* Whatever arrives and whenever it does, a session, an address or the log gets no more
\* over any span of time than its limiter promises, across refills, windows, bans, clean-ups
\* and reloads of the configuration.
THEOREM LimitersKeepTheirLimits == LSpec => []LimitsHold
<1> QED
  BY LInitially, LimStep, LimitsFollow, PTL DEF LSpec

-----------------------------------------------------------------------------
(* Half *)

\* The powers that the widths of the two formats are built from.
LEMMA PowersOfTwo ==
  /\ 2^0 = 1 /\ 2^1 = 2 /\ 2^2 = 4 /\ 2^3 = 8 /\ 2^4 = 16 /\ 2^5 = 32 /\ 2^6 = 64 /\ 2^7 = 128 /\ 2^8 = 256
  /\ 2^9 = 512 /\ 2^10 = 1024 /\ 2^11 = 2048 /\ 2^12 = 4096 /\ 2^13 = 8192 /\ 2^14 = 16384 /\ 2^15 = 32768
  /\ 2^16 = 65536 /\ 2^17 = 131072 /\ 2^18 = 262144 /\ 2^19 = 524288 /\ 2^20 = 1048576 /\ 2^21 = 2097152
  /\ 2^22 = 4194304 /\ 2^23 = 8388608 /\ 2^24 = 16777216
OBVIOUS

\* The octave of the subnormals that are shifted up by k.
Octaves == 1 .. 10
Scale(k) == 2^k
Lifted(f, k) == f * 2^k
Octave(k) == {f \in 1 .. 1023 : Lifted(f, k) \in 1024 .. 2047}

\* Octave k has the numbers with 11 - k digits.
OctaveRange(k, f) ==
  \/ k = 1 /\ 512 <= f /\ f <= 1023
  \/ k = 2 /\ 256 <= f /\ f <= 511
  \/ k = 3 /\ 128 <= f /\ f <= 255
  \/ k = 4 /\ 64 <= f /\ f <= 127
  \/ k = 5 /\ 32 <= f /\ f <= 63
  \/ k = 6 /\ 16 <= f /\ f <= 31
  \/ k = 7 /\ 8 <= f /\ f <= 15
  \/ k = 8 /\ 4 <= f /\ f <= 7
  \/ k = 9 /\ 2 <= f /\ f <= 3
  \/ k = 10 /\ 1 <= f /\ f <= 1

LEMMA OctaveIs ==
  ASSUME NEW k \in Octaves, NEW f \in Octave(k)
  PROVE  OctaveRange(k, f) /\ f \in 1 .. 1023 /\ Lifted(f, k) \in 1024 .. 2047
<1>1. f \in 1 .. 1023 /\ Lifted(f, k) \in 1024 .. 2047
  BY DEF Octave
<1>2. CASE k = 1
  <2>1. f * 2 \in 1024 .. 2047
    BY <1>1, <1>2, PowersOfTwo DEF Lifted
  <2>2. f \in 512 .. 1023
    BY <1>1, <2>1
  <2> QED
    BY <1>1, <1>2, <2>2 DEF OctaveRange
<1>3. CASE k = 2
  <2>1. f * 4 \in 1024 .. 2047
    BY <1>1, <1>3, PowersOfTwo DEF Lifted
  <2>2. f \in 256 .. 511
    BY <1>1, <2>1
  <2> QED
    BY <1>1, <1>3, <2>2 DEF OctaveRange
<1>4. CASE k = 3
  <2>1. f * 8 \in 1024 .. 2047
    BY <1>1, <1>4, PowersOfTwo DEF Lifted
  <2>2. f \in 128 .. 255
    BY <1>1, <2>1
  <2> QED
    BY <1>1, <1>4, <2>2 DEF OctaveRange
<1>5. CASE k = 4
  <2>1. f * 16 \in 1024 .. 2047
    BY <1>1, <1>5, PowersOfTwo DEF Lifted
  <2>2. f \in 64 .. 127
    BY <1>1, <2>1
  <2> QED
    BY <1>1, <1>5, <2>2 DEF OctaveRange
<1>6. CASE k = 5
  <2>1. f * 32 \in 1024 .. 2047
    BY <1>1, <1>6, PowersOfTwo DEF Lifted
  <2>2. f \in 32 .. 63
    BY <1>1, <2>1
  <2> QED
    BY <1>1, <1>6, <2>2 DEF OctaveRange
<1>7. CASE k = 6
  <2>1. f * 64 \in 1024 .. 2047
    BY <1>1, <1>7, PowersOfTwo DEF Lifted
  <2>2. f \in 16 .. 31
    BY <1>1, <2>1
  <2> QED
    BY <1>1, <1>7, <2>2 DEF OctaveRange
<1>8. CASE k = 7
  <2>1. f * 128 \in 1024 .. 2047
    BY <1>1, <1>8, PowersOfTwo DEF Lifted
  <2>2. f \in 8 .. 15
    BY <1>1, <2>1
  <2> QED
    BY <1>1, <1>8, <2>2 DEF OctaveRange
<1>9. CASE k = 8
  <2>1. f * 256 \in 1024 .. 2047
    BY <1>1, <1>9, PowersOfTwo DEF Lifted
  <2>2. f \in 4 .. 7
    BY <1>1, <2>1
  <2> QED
    BY <1>1, <1>9, <2>2 DEF OctaveRange
<1>10. CASE k = 9
  <2>1. f * 512 \in 1024 .. 2047
    BY <1>1, <1>10, PowersOfTwo DEF Lifted
  <2>2. f \in 2 .. 3
    BY <1>1, <2>1
  <2> QED
    BY <1>1, <1>10, <2>2 DEF OctaveRange
<1>11. CASE k = 10
  <2>1. f * 1024 \in 1024 .. 2047
    BY <1>1, <1>11, PowersOfTwo DEF Lifted
  <2>2. f \in 1 .. 1
    BY <1>1, <2>1
  <2> QED
    BY <1>1, <1>11, <2>2 DEF OctaveRange
<1>12. k = 1 \/ k = 2 \/ k = 3 \/ k = 4 \/ k = 5 \/ k = 6 \/ k = 7 \/ k = 8 \/ k = 9 \/ k = 10
  BY DEF Octaves
<1> QED
  BY <1>2, <1>3, <1>4, <1>5, <1>6, <1>7, <1>8, <1>9, <1>10, <1>11, <1>12

LEMMA OctavesCover ==
  ASSUME NEW f \in 1 .. 1023
  PROVE  \E k \in Octaves : f \in Octave(k)
<1>1. f * 2 \in 1024 .. 2047 \/ f * 4 \in 1024 .. 2047 \/ f * 8 \in 1024 .. 2047 \/ f * 16 \in 1024 .. 2047
      \/ f * 32 \in 1024 .. 2047 \/ f * 64 \in 1024 .. 2047 \/ f * 128 \in 1024 .. 2047 \/ f * 256 \in 1024 .. 2047
      \/ f * 512 \in 1024 .. 2047 \/ f * 1024 \in 1024 .. 2047
  OBVIOUS
<1> QED
  BY <1>1, PowersOfTwo DEF Octave, Lifted, Octaves

LEMMA RangesDisjoint ==
  ASSUME NEW j \in Nat, NEW k \in Nat, NEW f \in Nat, OctaveRange(k, f), OctaveRange(j, f)
  PROVE  j = k
<1>1. CASE k = 1 /\ 512 <= f /\ f <= 1023
  BY <1>1 DEF OctaveRange
<1>2. CASE k = 2 /\ 256 <= f /\ f <= 511
  BY <1>2 DEF OctaveRange
<1>3. CASE k = 3 /\ 128 <= f /\ f <= 255
  BY <1>3 DEF OctaveRange
<1>4. CASE k = 4 /\ 64 <= f /\ f <= 127
  BY <1>4 DEF OctaveRange
<1>5. CASE k = 5 /\ 32 <= f /\ f <= 63
  BY <1>5 DEF OctaveRange
<1>6. CASE k = 6 /\ 16 <= f /\ f <= 31
  BY <1>6 DEF OctaveRange
<1>7. CASE k = 7 /\ 8 <= f /\ f <= 15
  BY <1>7 DEF OctaveRange
<1>8. CASE k = 8 /\ 4 <= f /\ f <= 7
  BY <1>8 DEF OctaveRange
<1>9. CASE k = 9 /\ 2 <= f /\ f <= 3
  BY <1>9 DEF OctaveRange
<1>10. CASE k = 10 /\ 1 <= f /\ f <= 1
  BY <1>10 DEF OctaveRange
<1> QED
  BY <1>1, <1>2, <1>3, <1>4, <1>5, <1>6, <1>7, <1>8, <1>9, <1>10 DEF OctaveRange

LEMMA OctavesDisjoint ==
  ASSUME NEW j \in Octaves, NEW k \in Octaves, NEW f, f \in Octave(k), f \in Octave(j)
  PROVE  j = k
<1>1. OctaveRange(k, f) /\ OctaveRange(j, f) /\ f \in 1 .. 1023
  BY OctaveIs
<1>2. f \in Nat /\ j \in Nat /\ k \in Nat
  BY <1>1 DEF Octaves
<1> QED
  BY <1>1, <1>2, RangesDisjoint

\* The positive float32 that a positive half stands for.
Value(h) == F16BitsToF32(h).mag

LEMMA NormalValue ==
  ASSUME NEW h \in Nat, 1024 <= h, h <= 31743
  PROVE  Value(h) = 939524096 + h * 8192
<1> DEFINE exp == h \div 1024
           frac == h % 1024
<1>0. h \in Nat /\ h >= 1024 /\ h < 31744
  OBVIOUS
<1>a. h % 32768 = h
  BY <1>0
<1>b. exp \in Nat /\ frac \in 0 .. 1023 /\ h = exp * 1024 + frac
  BY <1>0
<1>1. h % 32768 = h /\ exp \in 1 .. 30 /\ frac \in 0 .. 1023 /\ h = exp * 1024 + frac
  <2> HIDE DEF exp, frac
  <2> QED
    BY <1>0, <1>a, <1>b
<1> HIDE DEF exp, frac
<1>2. Value(h) = (exp + 112) * ExpUnit + frac * 8192
  <2>1. h % 32768 = h /\ h # 0 /\ h \div 1024 # 0 /\ h \div 1024 # 31
    BY <1>0, <1>1 DEF exp
  <2> QED
    BY <2>1 DEF Value, F16BitsToF32, Float, exp, frac
<1> QED
  BY <1>1, <1>2 DEF ExpUnit

\* A subnormal of octave k.
LEMMA SubnormalValue ==
  ASSUME NEW k \in Octaves, NEW h \in Octave(k)
  PROVE  Value(h) = (113 - k) * 8388608 + (Lifted(h, k) - 1024) * 8192
<1> DEFINE Fits(i) == Lifted(h, i) \in 1024 .. 2047
           up == CHOOSE i \in Octaves : Fits(i)
<1>1. h \in 1 .. 1023 /\ Fits(k)
  BY DEF Octave
<1>2. h % 32768 = h /\ h \div 1024 = 0 /\ h % 1024 = h /\ h # 0
  BY <1>1
<1>3. Value(h) = Normalised(h)
  BY <1>2 DEF Value, F16BitsToF32, Float
<1>4. up \in Octaves /\ Fits(up)
  <2> HIDE DEF Fits
  <2> QED
    BY <1>1, Zenon
<1>n. Normalised(h) = (113 - up) * 8388608 + (Lifted(h, up) - 1024) * 8192
  BY DEF Normalised, Lifted, ExpUnit, Octaves
<1> HIDE DEF up
<1>5. h \in Octave(up)
  BY <1>1, <1>4 DEF Octave
<1>6. up = k
  BY <1>4, <1>5, OctavesDisjoint
<1> QED
  BY <1>3, <1>n, <1>6

LEMMA ScaleIs ==
  ASSUME NEW k \in Octaves
  PROVE  Scale(k) \in Nat /\ Scale(k) >= 2 /\ Scale(k) <= 1024
<1>1. CASE k = 1
  BY <1>1, PowersOfTwo DEF Scale
<1>2. CASE k = 2
  BY <1>2, PowersOfTwo DEF Scale
<1>3. CASE k = 3
  BY <1>3, PowersOfTwo DEF Scale
<1>4. CASE k = 4
  BY <1>4, PowersOfTwo DEF Scale
<1>5. CASE k = 5
  BY <1>5, PowersOfTwo DEF Scale
<1>6. CASE k = 6
  BY <1>6, PowersOfTwo DEF Scale
<1>7. CASE k = 7
  BY <1>7, PowersOfTwo DEF Scale
<1>8. CASE k = 8
  BY <1>8, PowersOfTwo DEF Scale
<1>9. CASE k = 9
  BY <1>9, PowersOfTwo DEF Scale
<1>10. CASE k = 10
  BY <1>10, PowersOfTwo DEF Scale
<1>12. k = 1 \/ k = 2 \/ k = 3 \/ k = 4 \/ k = 5 \/ k = 6 \/ k = 7 \/ k = 8 \/ k = 9 \/ k = 10
  BY DEF Octaves
<1> QED
  BY <1>1, <1>2, <1>3, <1>4, <1>5, <1>6, <1>7, <1>8, <1>9, <1>10, <1>12

\* Lifting by k and by k - 1, and one number more.
LEMMA LiftIs ==
  ASSUME NEW k \in Octaves, NEW f \in Nat
  PROVE  /\ Scale(k) \in Nat /\ Scale(k) >= 2 /\ Lifted(f, k) \in Nat
         /\ Lifted(f + 1, k) = Lifted(f, k) + Scale(k)
         /\ k > 1 => Lifted(f, k) = 2 * Lifted(f, k - 1) /\ Lifted(f, k - 1) \in Nat
<1>1. CASE k = 1
  BY <1>1, PowersOfTwo DEF Scale, Lifted
<1>2. CASE k = 2
  BY <1>2, PowersOfTwo DEF Scale, Lifted
<1>3. CASE k = 3
  BY <1>3, PowersOfTwo DEF Scale, Lifted
<1>4. CASE k = 4
  BY <1>4, PowersOfTwo DEF Scale, Lifted
<1>5. CASE k = 5
  BY <1>5, PowersOfTwo DEF Scale, Lifted
<1>6. CASE k = 6
  BY <1>6, PowersOfTwo DEF Scale, Lifted
<1>7. CASE k = 7
  BY <1>7, PowersOfTwo DEF Scale, Lifted
<1>8. CASE k = 8
  BY <1>8, PowersOfTwo DEF Scale, Lifted
<1>9. CASE k = 9
  BY <1>9, PowersOfTwo DEF Scale, Lifted
<1>10. CASE k = 10
  BY <1>10, PowersOfTwo DEF Scale, Lifted
<1>12. k = 1 \/ k = 2 \/ k = 3 \/ k = 4 \/ k = 5 \/ k = 6 \/ k = 7 \/ k = 8 \/ k = 9 \/ k = 10
  BY DEF Octaves
<1> QED
  BY <1>1, <1>2, <1>3, <1>4, <1>5, <1>6, <1>7, <1>8, <1>9, <1>10, <1>12

\* The number after one of octave k is of octave k, or the first of the next one.
LEMMA OctaveEnds ==
  ASSUME NEW k \in Octaves, NEW f \in Octave(k)
  PROVE  /\ f + 1 <= 1023 \/ k = 1
         /\ Lifted(f + 1, k) \in 1024 .. 2047 => f + 1 <= 1023
         /\ Lifted(f + 1, k) \in 1024 .. 2047 \/ Lifted(f + 1, k) = 2048
<1> DEFINE Ends == /\ f + 1 <= 1023 \/ k = 1
                   /\ Lifted(f + 1, k) \in 1024 .. 2047 => f + 1 <= 1023
                   /\ Lifted(f + 1, k) \in 1024 .. 2047 \/ Lifted(f + 1, k) = 2048
<1> SUFFICES Ends
  OBVIOUS
<1> HIDE DEF Ends
<1>1. OctaveRange(k, f) /\ f \in 1 .. 1023
  BY OctaveIs
<1>2. f \in Nat /\ k \in Nat
  BY <1>1 DEF Octaves
<1>3. CASE k = 1
  <2>1. 512 <= f /\ f <= 1023
    BY <1>1, <1>2, <1>3 DEF OctaveRange
  <2>2. Lifted(f + 1, k) = (f + 1) * 2
    BY <1>3, PowersOfTwo DEF Lifted
  <2> QED
    BY <1>2, <1>3, <2>1, <2>2 DEF Ends
<1>4. CASE k = 2
  <2>1. 256 <= f /\ f <= 511
    BY <1>1, <1>2, <1>4 DEF OctaveRange
  <2>2. Lifted(f + 1, k) = (f + 1) * 4
    BY <1>4, PowersOfTwo DEF Lifted
  <2> QED
    BY <1>2, <1>4, <2>1, <2>2 DEF Ends
<1>5. CASE k = 3
  <2>1. 128 <= f /\ f <= 255
    BY <1>1, <1>2, <1>5 DEF OctaveRange
  <2>2. Lifted(f + 1, k) = (f + 1) * 8
    BY <1>5, PowersOfTwo DEF Lifted
  <2> QED
    BY <1>2, <1>5, <2>1, <2>2 DEF Ends
<1>6. CASE k = 4
  <2>1. 64 <= f /\ f <= 127
    BY <1>1, <1>2, <1>6 DEF OctaveRange
  <2>2. Lifted(f + 1, k) = (f + 1) * 16
    BY <1>6, PowersOfTwo DEF Lifted
  <2> QED
    BY <1>2, <1>6, <2>1, <2>2 DEF Ends
<1>7. CASE k = 5
  <2>1. 32 <= f /\ f <= 63
    BY <1>1, <1>2, <1>7 DEF OctaveRange
  <2>2. Lifted(f + 1, k) = (f + 1) * 32
    BY <1>7, PowersOfTwo DEF Lifted
  <2> QED
    BY <1>2, <1>7, <2>1, <2>2 DEF Ends
<1>8. CASE k = 6
  <2>1. 16 <= f /\ f <= 31
    BY <1>1, <1>2, <1>8 DEF OctaveRange
  <2>2. Lifted(f + 1, k) = (f + 1) * 64
    BY <1>8, PowersOfTwo DEF Lifted
  <2> QED
    BY <1>2, <1>8, <2>1, <2>2 DEF Ends
<1>9. CASE k = 7
  <2>1. 8 <= f /\ f <= 15
    BY <1>1, <1>2, <1>9 DEF OctaveRange
  <2>2. Lifted(f + 1, k) = (f + 1) * 128
    BY <1>9, PowersOfTwo DEF Lifted
  <2> QED
    BY <1>2, <1>9, <2>1, <2>2 DEF Ends
<1>10. CASE k = 8
  <2>1. 4 <= f /\ f <= 7
    BY <1>1, <1>2, <1>10 DEF OctaveRange
  <2>2. Lifted(f + 1, k) = (f + 1) * 256
    BY <1>10, PowersOfTwo DEF Lifted
  <2> QED
    BY <1>2, <1>10, <2>1, <2>2 DEF Ends
<1>11. CASE k = 9
  <2>1. 2 <= f /\ f <= 3
    BY <1>1, <1>2, <1>11 DEF OctaveRange
  <2>2. Lifted(f + 1, k) = (f + 1) * 512
    BY <1>11, PowersOfTwo DEF Lifted
  <2> QED
    BY <1>2, <1>11, <2>1, <2>2 DEF Ends
<1>12. CASE k = 10
  <2>1. 1 <= f /\ f <= 1
    BY <1>1, <1>2, <1>12 DEF OctaveRange
  <2>2. Lifted(f + 1, k) = (f + 1) * 1024
    BY <1>12, PowersOfTwo DEF Lifted
  <2> QED
    BY <1>2, <1>12, <2>1, <2>2 DEF Ends
<1>13. k = 1 \/ k = 2 \/ k = 3 \/ k = 4 \/ k = 5 \/ k = 6 \/ k = 7 \/ k = 8 \/ k = 9 \/ k = 10
  BY DEF Octaves
<1> QED
  BY <1>3, <1>4, <1>5, <1>6, <1>7, <1>8, <1>9, <1>10, <1>11, <1>12, <1>13

\* Subnormals of octave k are 2^k * 8192 apart.
LEMMA SubnormalStep ==
  ASSUME NEW k \in Octaves, NEW h \in Octave(k)
  PROVE  Value(h) \in Int /\ Value(h + 1) = Value(h) + 8192 * Scale(k)
<1>0. h \in 1 .. 1023 /\ h \in Nat /\ k \in Nat
  <2>1. h \in 1 .. 1023
    BY OctaveIs
  <2> QED
    BY <2>1 DEF Octaves
<1>1. Scale(k) \in Nat /\ Lifted(h, k) \in Nat /\ Lifted(h + 1, k) = Lifted(h, k) + Scale(k)
  BY <1>0, LiftIs
<1>2. Value(h) = (113 - k) * 8388608 + (Lifted(h, k) - 1024) * 8192
  BY SubnormalValue
<1>3. /\ h + 1 <= 1023 \/ k = 1
      /\ Lifted(h + 1, k) \in 1024 .. 2047 => h + 1 <= 1023
      /\ Lifted(h + 1, k) \in 1024 .. 2047 \/ Lifted(h + 1, k) = 2048
  BY OctaveEnds
<1>5. Value(h) \in Int
  BY <1>0, <1>1, <1>2
<1>6. CASE Lifted(h + 1, k) \in 1024 .. 2047
  <2>1. h + 1 \in Octave(k)
    BY <1>0, <1>3, <1>6 DEF Octave
  <2>2. Value(h + 1) = (113 - k) * 8388608 + (Lifted(h + 1, k) - 1024) * 8192
    BY <2>1, SubnormalValue
  <2> QED
    BY <1>0, <1>1, <1>2, <1>5, <2>2
<1>7. CASE Lifted(h + 1, k) = 2048 /\ ~(h + 1 <= 1023)
  <2>1. h + 1 = 1024 /\ k = 1
    BY <1>0, <1>3, <1>7
  <2>2. Value(h + 1) = 939524096 + 1024 * 8192
    BY <2>1, NormalValue
  <2> QED
    BY <1>0, <1>1, <1>2, <1>5, <1>7, <2>1, <2>2
<1>8. CASE Lifted(h + 1, k) = 2048 /\ h + 1 <= 1023
  <2>0. h + 1 \in 1 .. 1023 /\ h + 1 \in Nat
    BY <1>0, <1>8
  <2>1. CASE k > 1
    <3> DEFINE i == k - 1
    <3>1. i \in Octaves /\ i = k - 1
      BY <2>1 DEF Octaves
    <3>2. Lifted(h + 1, i) = 1024
      <4>1. Lifted(h + 1, k) = 2 * Lifted(h + 1, i) /\ Lifted(h + 1, i) \in Nat
        BY <2>0, <2>1, LiftIs
      <4> QED
        BY <1>8, <4>1
    <3> HIDE DEF i
    <3>3. h + 1 \in Octave(i)
      BY <2>0, <3>2 DEF Octave
    <3>4. Value(h + 1) = (113 - i) * 8388608 + (Lifted(h + 1, i) - 1024) * 8192
      BY <3>1, <3>3, SubnormalValue
    <3> QED
      BY <1>0, <1>1, <1>2, <1>5, <1>8, <3>1, <3>2, <3>4
  <2>2. CASE ~(k > 1)
    <3>1. k = 1
      BY <2>2 DEF Octaves
    <3>2. Lifted(h + 1, 1) = (h + 1) * 2
      BY PowersOfTwo DEF Lifted
    <3> QED
      BY <1>0, <1>8, <3>1, <3>2
  <2> QED
    BY <2>1, <2>2
<1> QED
  BY <1>3, <1>6, <1>7, <1>8

\* Zero, the smallest subnormal and infinity.
LEMMA ValueEnds ==
  Value(0) = 0 /\ 1 \in Octave(10) /\ Value(1) = 103 * 8388608 /\ Value(31744) = 255 * 8388608
<1>1. Value(0) = 0
  <2>1. 0 % 32768 = 0
    OBVIOUS
  <2> QED
    BY <2>1 DEF Value, F16BitsToF32, Float
<1>2. Lifted(1, 10) = 1024
  BY PowersOfTwo DEF Lifted
<1>3. 1 \in Octave(10)
  BY <1>2 DEF Octave
<1>4. Value(1) = 103 * 8388608
  <2>1. Value(1) = (113 - 10) * 8388608 + (Lifted(1, 10) - 1024) * 8192
    <3>1. 10 \in Octaves
      BY DEF Octaves
    <3> QED
      BY <1>3, <3>1, SubnormalValue
  <2> QED
    BY <1>2, <2>1
<1>5. Value(31744) = 255 * 8388608
  <2>1. 31744 % 32768 = 31744 /\ 31744 \div 1024 = 31 /\ 31744 % 1024 = 0
    OBVIOUS
  <2> QED
    BY <2>1 DEF Value, F16BitsToF32, Float, Infinity32, ExpUnit
<1> QED
  BY <1>1, <1>3, <1>4, <1>5

LEMMA SubnormalMidpoint ==
  ASSUME NEW k \in Octaves, NEW h \in Octave(k)
  PROVE  Midpoint(h) = Value(h) + 4096 * Scale(k)
<1>0. h \in 1 .. 1023
  BY OctaveIs
<1>1. Value(h) \in Int /\ Value(h + 1) = Value(h) + 8192 * Scale(k)
  BY SubnormalStep
<1>2. Scale(k) \in Nat
  BY <1>0, LiftIs
<1>3. Midpoint(h) = Value(h) + (Value(h + 1) - Value(h)) \div 2
  BY <1>0 DEF Midpoint, Value, Infinity16
<1> QED
  BY <1>1, <1>2, <1>3

LEMMA NormalMidpoint ==
  ASSUME NEW h \in Nat, 1024 <= h, h <= 31743
  PROVE  Midpoint(h) = Value(h) + 4096
<1>1. Value(h) = 939524096 + h * 8192
  BY NormalValue
<1>2. CASE h = 31743
  <2>1. Midpoint(h) = 142 * 8388608 + 8384512
    BY <1>2 DEF Midpoint, Infinity16, ExpUnit
  <2> QED
    BY <1>1, <1>2, <2>1
<1>3. CASE h # 31743
  <2>1. Value(h + 1) = 939524096 + (h + 1) * 8192
    <3>1. h + 1 \in Nat /\ 1024 <= h + 1 /\ h + 1 <= 31743
      BY <1>3
    <3> QED
      BY <3>1, NormalValue
  <2>2. h # 0 /\ h # 31744 - 1
    BY <1>3
  <2>3. Midpoint(h) = Value(h) + (Value(h + 1) - Value(h)) \div 2
    BY <2>2 DEF Midpoint, Value, Infinity16
  <2> QED
    BY <1>1, <2>1, <2>3
<1> QED
  BY <1>2, <1>3

\* A midpoint lies between its two halves, and all are float32s.
LEMMA MidpointBetween ==
  ASSUME NEW h \in Nat, h <= 31743
  PROVE  /\ Value(h) \in Nat /\ Midpoint(h) \in Nat /\ Value(h + 1) \in Nat
         /\ Value(h) < Midpoint(h) /\ Midpoint(h) < Value(h + 1) /\ Value(h + 1) <= 2139095040
<1>1. CASE h = 0
  <2>1. Midpoint(0) = 102 * 8388608
    BY DEF Midpoint, ExpUnit, Infinity16
  <2> QED
    BY <1>1, <2>1, ValueEnds
<1>2. CASE 1 <= h /\ h <= 1023
  <2>1. PICK k \in Octaves : h \in Octave(k)
    <3>1. h \in 1 .. 1023
      BY <1>2
    <3> QED
      BY <3>1, OctavesCover
  <2>2. Value(h) = (113 - k) * 8388608 + (Lifted(h, k) - 1024) * 8192
    BY <2>1, SubnormalValue
  <2>3. Lifted(h, k) \in 1024 .. 2047
    BY <2>1 DEF Octave
  <2>4. Value(h + 1) = Value(h) + 8192 * Scale(k)
    BY <2>1, SubnormalStep
  <2>5. Midpoint(h) = Value(h) + 4096 * Scale(k)
    BY <2>1, SubnormalMidpoint
  <2>6. Scale(k) \in Nat /\ Scale(k) >= 2 /\ Scale(k) <= 1024
    BY ScaleIs
  <2>8. k \in Nat /\ 1 <= k /\ k <= 10 /\ Lifted(h, k) \in Nat /\ 1024 <= Lifted(h, k) /\ Lifted(h, k) <= 2047
    BY <2>3 DEF Octaves
  <2> QED
    BY <2>2, <2>4, <2>5, <2>6, <2>8
<1>3. CASE 1024 <= h /\ h <= 31742
  <2>1. Value(h) = 939524096 + h * 8192 /\ Midpoint(h) = Value(h) + 4096
    BY <1>3, NormalValue, NormalMidpoint
  <2>2. Value(h + 1) = 939524096 + (h + 1) * 8192
    <3>1. h + 1 \in Nat /\ 1024 <= h + 1 /\ h + 1 <= 31743
      BY <1>3
    <3> QED
      BY <3>1, NormalValue
  <2> QED
    BY <1>3, <2>1, <2>2
<1>4. CASE h = 31743
  <2>1. Value(31743) = 939524096 + 31743 * 8192 /\ Midpoint(31743) = Value(31743) + 4096
    BY NormalValue, NormalMidpoint
  <2> QED
    BY <1>4, <2>1, ValueEnds
<1> QED
  BY <1>1, <1>2, <1>3, <1>4

\* A half that is read is the nearest to the float32 it became.
LEMMA ReadNearest ==
  ASSUME NEW h \in Nat, h <= 31744
  PROVE  IsNearest(h, Value(h)) /\ Value(h) \in Nat /\ Value(h) <= 2139095040
<1>1. ASSUME h > 0 PROVE Value(h) > Midpoint(h - 1)
  <2> DEFINE g == h - 1
  <2>1. g \in Nat /\ g <= 31743 /\ g + 1 = h
    BY <1>1
  <2> HIDE DEF g
  <2>2. Midpoint(g) \in Nat /\ Value(g + 1) \in Nat /\ Midpoint(g) < Value(g + 1)
    BY <2>1, MidpointBetween
  <2>3. Value(h) > Midpoint(g)
    BY <2>1, <2>2
  <2> QED
    BY <2>3 DEF g
<1>2. ASSUME h <= 31743 PROVE Value(h) < Midpoint(h) /\ Value(h) \in Nat /\ Value(h) <= 2139095040
  <2>1. /\ Value(h) \in Nat /\ Midpoint(h) \in Nat /\ Value(h + 1) \in Nat
        /\ Value(h) < Midpoint(h) /\ Midpoint(h) < Value(h + 1) /\ Value(h + 1) <= 2139095040
    BY <1>2, MidpointBetween
  <2> QED
    BY <2>1
<1>3. Value(h) \in Nat /\ Value(h) <= 2139095040
  <2>1. CASE h = 31744
    BY <2>1, ValueEnds
  <2>2. CASE h <= 31743
    BY <1>2, <2>2
  <2> QED
    BY <2>1, <2>2
<1>4. h < 31744 => h <= 31743
  OBVIOUS
<1> QED
  BY <1>1, <1>2, <1>3, <1>4 DEF IsNearest, Infinity16

\* What lies between the halves r and r + 1 is rounded to the nearer one, at the midpoint to
\* the even one.
LEMMA RoundsNearest ==
  ASSUME NEW r \in Nat, r <= 31743, NEW mid \in Nat, NEW rem \in Nat, rem < 2 * mid, NEW h,
         h = IF rem > mid \/ (rem = mid /\ r % 2 = 1) THEN r + 1 ELSE r,
         Midpoint(r) = Value(r) + mid, r < 31743 => Value(r + 1) = Value(r) + 2 * mid
  PROVE  h \in Nat /\ h <= 31744 /\ IsNearest(h, Value(r) + rem)
<1> DEFINE v == Value(r)
<1>0. v \in Nat /\ Midpoint(r) \in Nat /\ v < Midpoint(r)
  BY MidpointBetween
<1>v. v = Value(r)
  OBVIOUS
<1> HIDE DEF v
<1>1. CASE rem > mid \/ (rem = mid /\ r % 2 = 1)
  <2>1. h = r + 1 /\ h \in Nat /\ h <= 31744 /\ h - 1 = r
    BY <1>1
  <2>2. v + rem > Midpoint(r) \/ (v + rem = Midpoint(r) /\ h % 2 = 0)
    <3>1. r % 2 = 1 => (r + 1) % 2 = 0
      OBVIOUS
    <3> QED
      BY <1>0, <1>v, <1>1, <2>1, <3>1
  <2>3. ASSUME h < 31744 PROVE v + rem < Midpoint(h)
    <3>1. h \in Nat /\ h <= 31743 /\ r < 31743
      BY <2>1, <2>3
    <3>2. Midpoint(h) \in Nat /\ Value(h) \in Nat /\ Value(h) < Midpoint(h)
      BY <3>1, MidpointBetween
    <3>3. Value(h) = v + 2 * mid
      BY <1>v, <2>1, <3>1
    <3> QED
      BY <1>0, <3>2, <3>3
  <2> QED
    BY <1>v, <2>1, <2>2, <2>3 DEF IsNearest, Infinity16
<1>2. CASE ~(rem > mid \/ (rem = mid /\ r % 2 = 1))
  <2>1. h = r /\ h \in Nat /\ h <= 31744
    BY <1>2
  <2>2. v + rem < Midpoint(r) \/ (v + rem = Midpoint(r) /\ h % 2 = 0)
    <3>1. r % 2 = 1 \/ r % 2 = 0
      OBVIOUS
    <3> QED
      BY <1>0, <1>v, <1>2, <2>1, <3>1
  <2>3. ASSUME h > 0 PROVE v + rem > Midpoint(h - 1)
    <3> DEFINE g == h - 1
    <3>1. g \in Nat /\ g <= 31743 /\ g + 1 = r
      BY <2>1, <2>3
    <3> HIDE DEF g
    <3>2. Midpoint(g) \in Nat /\ Midpoint(g) < Value(g + 1)
      BY <3>1, MidpointBetween
    <3>3. v + rem > Midpoint(g)
      BY <1>0, <1>v, <3>1, <3>2
    <3> QED
      BY <3>3 DEF g
  <2> QED
    BY <1>v, <2>1, <2>2, <2>3 DEF IsNearest, Infinity16
<1> QED
  BY <1>1, <1>2

\* A number of 24 digits, shifted down by k + 13, is a subnormal of octave k.
Splits(k, m, r, rem, mid) ==
  /\ r \in Octave(k) /\ r \in Nat /\ rem \in Nat /\ rem < 8192 * Scale(k)
  /\ m = 8192 * Lifted(r, k) + rem /\ mid = 4096 * Scale(k)

LEMMA ShiftSplits ==
  ASSUME NEW k \in Octaves, NEW m \in Nat, 8388608 <= m, m <= 16777215
  PROVE  Splits(k, m, m \div 2^(k + 13), m % 2^(k + 13), 2^((k + 13) - 1))
<1>1. CASE k = 1
  <2> DEFINE r == m \div 16384
             rem == m % 16384
  <2>1. r \in Nat /\ rem \in Nat /\ rem < 16384 /\ m = r * 16384 + rem
    OBVIOUS
  <2>2. 2^(k + 13) = 16384 /\ 2^((k + 13) - 1) = 8192 /\ Scale(k) = 2
    BY <1>1, PowersOfTwo DEF Scale
  <2> HIDE DEF r, rem
  <2>3. 512 <= r /\ r <= 1023
    BY <2>1
  <2>4. Lifted(r, k) = r * 2
    BY <1>1, PowersOfTwo DEF Lifted
  <2>5. r \in Octave(k)
    BY <2>1, <2>3, <2>4 DEF Octave
  <2>6. m = 8192 * Lifted(r, k) + rem /\ rem < 8192 * Scale(k)
    BY <2>1, <2>2, <2>4
  <2> QED
    BY <2>1, <2>2, <2>5, <2>6 DEF r, rem, Splits
<1>2. CASE k = 2
  <2> DEFINE r == m \div 32768
             rem == m % 32768
  <2>1. r \in Nat /\ rem \in Nat /\ rem < 32768 /\ m = r * 32768 + rem
    OBVIOUS
  <2>2. 2^(k + 13) = 32768 /\ 2^((k + 13) - 1) = 16384 /\ Scale(k) = 4
    BY <1>2, PowersOfTwo DEF Scale
  <2> HIDE DEF r, rem
  <2>3. 256 <= r /\ r <= 511
    BY <2>1
  <2>4. Lifted(r, k) = r * 4
    BY <1>2, PowersOfTwo DEF Lifted
  <2>5. r \in Octave(k)
    BY <2>1, <2>3, <2>4 DEF Octave
  <2>6. m = 8192 * Lifted(r, k) + rem /\ rem < 8192 * Scale(k)
    BY <2>1, <2>2, <2>4
  <2> QED
    BY <2>1, <2>2, <2>5, <2>6 DEF r, rem, Splits
<1>3. CASE k = 3
  <2> DEFINE r == m \div 65536
             rem == m % 65536
  <2>1. r \in Nat /\ rem \in Nat /\ rem < 65536 /\ m = r * 65536 + rem
    OBVIOUS
  <2>2. 2^(k + 13) = 65536 /\ 2^((k + 13) - 1) = 32768 /\ Scale(k) = 8
    BY <1>3, PowersOfTwo DEF Scale
  <2> HIDE DEF r, rem
  <2>3. 128 <= r /\ r <= 255
    BY <2>1
  <2>4. Lifted(r, k) = r * 8
    BY <1>3, PowersOfTwo DEF Lifted
  <2>5. r \in Octave(k)
    BY <2>1, <2>3, <2>4 DEF Octave
  <2>6. m = 8192 * Lifted(r, k) + rem /\ rem < 8192 * Scale(k)
    BY <2>1, <2>2, <2>4
  <2> QED
    BY <2>1, <2>2, <2>5, <2>6 DEF r, rem, Splits
<1>4. CASE k = 4
  <2> DEFINE r == m \div 131072
             rem == m % 131072
  <2>1. r \in Nat /\ rem \in Nat /\ rem < 131072 /\ m = r * 131072 + rem
    OBVIOUS
  <2>2. 2^(k + 13) = 131072 /\ 2^((k + 13) - 1) = 65536 /\ Scale(k) = 16
    BY <1>4, PowersOfTwo DEF Scale
  <2> HIDE DEF r, rem
  <2>3. 64 <= r /\ r <= 127
    BY <2>1
  <2>4. Lifted(r, k) = r * 16
    BY <1>4, PowersOfTwo DEF Lifted
  <2>5. r \in Octave(k)
    BY <2>1, <2>3, <2>4 DEF Octave
  <2>6. m = 8192 * Lifted(r, k) + rem /\ rem < 8192 * Scale(k)
    BY <2>1, <2>2, <2>4
  <2> QED
    BY <2>1, <2>2, <2>5, <2>6 DEF r, rem, Splits
<1>5. CASE k = 5
  <2> DEFINE r == m \div 262144
             rem == m % 262144
  <2>1. r \in Nat /\ rem \in Nat /\ rem < 262144 /\ m = r * 262144 + rem
    OBVIOUS
  <2>2. 2^(k + 13) = 262144 /\ 2^((k + 13) - 1) = 131072 /\ Scale(k) = 32
    BY <1>5, PowersOfTwo DEF Scale
  <2> HIDE DEF r, rem
  <2>3. 32 <= r /\ r <= 63
    BY <2>1
  <2>4. Lifted(r, k) = r * 32
    BY <1>5, PowersOfTwo DEF Lifted
  <2>5. r \in Octave(k)
    BY <2>1, <2>3, <2>4 DEF Octave
  <2>6. m = 8192 * Lifted(r, k) + rem /\ rem < 8192 * Scale(k)
    BY <2>1, <2>2, <2>4
  <2> QED
    BY <2>1, <2>2, <2>5, <2>6 DEF r, rem, Splits
<1>6. CASE k = 6
  <2> DEFINE r == m \div 524288
             rem == m % 524288
  <2>1. r \in Nat /\ rem \in Nat /\ rem < 524288 /\ m = r * 524288 + rem
    OBVIOUS
  <2>2. 2^(k + 13) = 524288 /\ 2^((k + 13) - 1) = 262144 /\ Scale(k) = 64
    BY <1>6, PowersOfTwo DEF Scale
  <2> HIDE DEF r, rem
  <2>3. 16 <= r /\ r <= 31
    BY <2>1
  <2>4. Lifted(r, k) = r * 64
    BY <1>6, PowersOfTwo DEF Lifted
  <2>5. r \in Octave(k)
    BY <2>1, <2>3, <2>4 DEF Octave
  <2>6. m = 8192 * Lifted(r, k) + rem /\ rem < 8192 * Scale(k)
    BY <2>1, <2>2, <2>4
  <2> QED
    BY <2>1, <2>2, <2>5, <2>6 DEF r, rem, Splits
<1>7. CASE k = 7
  <2> DEFINE r == m \div 1048576
             rem == m % 1048576
  <2>1. r \in Nat /\ rem \in Nat /\ rem < 1048576 /\ m = r * 1048576 + rem
    OBVIOUS
  <2>2. 2^(k + 13) = 1048576 /\ 2^((k + 13) - 1) = 524288 /\ Scale(k) = 128
    BY <1>7, PowersOfTwo DEF Scale
  <2> HIDE DEF r, rem
  <2>3. 8 <= r /\ r <= 15
    BY <2>1
  <2>4. Lifted(r, k) = r * 128
    BY <1>7, PowersOfTwo DEF Lifted
  <2>5. r \in Octave(k)
    BY <2>1, <2>3, <2>4 DEF Octave
  <2>6. m = 8192 * Lifted(r, k) + rem /\ rem < 8192 * Scale(k)
    BY <2>1, <2>2, <2>4
  <2> QED
    BY <2>1, <2>2, <2>5, <2>6 DEF r, rem, Splits
<1>8. CASE k = 8
  <2> DEFINE r == m \div 2097152
             rem == m % 2097152
  <2>1. r \in Nat /\ rem \in Nat /\ rem < 2097152 /\ m = r * 2097152 + rem
    OBVIOUS
  <2>2. 2^(k + 13) = 2097152 /\ 2^((k + 13) - 1) = 1048576 /\ Scale(k) = 256
    BY <1>8, PowersOfTwo DEF Scale
  <2> HIDE DEF r, rem
  <2>3. 4 <= r /\ r <= 7
    BY <2>1
  <2>4. Lifted(r, k) = r * 256
    BY <1>8, PowersOfTwo DEF Lifted
  <2>5. r \in Octave(k)
    BY <2>1, <2>3, <2>4 DEF Octave
  <2>6. m = 8192 * Lifted(r, k) + rem /\ rem < 8192 * Scale(k)
    BY <2>1, <2>2, <2>4
  <2> QED
    BY <2>1, <2>2, <2>5, <2>6 DEF r, rem, Splits
<1>9. CASE k = 9
  <2> DEFINE r == m \div 4194304
             rem == m % 4194304
  <2>1. r \in Nat /\ rem \in Nat /\ rem < 4194304 /\ m = r * 4194304 + rem
    OBVIOUS
  <2>2. 2^(k + 13) = 4194304 /\ 2^((k + 13) - 1) = 2097152 /\ Scale(k) = 512
    BY <1>9, PowersOfTwo DEF Scale
  <2> HIDE DEF r, rem
  <2>3. 2 <= r /\ r <= 3
    BY <2>1
  <2>4. Lifted(r, k) = r * 512
    BY <1>9, PowersOfTwo DEF Lifted
  <2>5. r \in Octave(k)
    BY <2>1, <2>3, <2>4 DEF Octave
  <2>6. m = 8192 * Lifted(r, k) + rem /\ rem < 8192 * Scale(k)
    BY <2>1, <2>2, <2>4
  <2> QED
    BY <2>1, <2>2, <2>5, <2>6 DEF r, rem, Splits
<1>10. CASE k = 10
  <2> DEFINE r == m \div 8388608
             rem == m % 8388608
  <2>1. r \in Nat /\ rem \in Nat /\ rem < 8388608 /\ m = r * 8388608 + rem
    OBVIOUS
  <2>2. 2^(k + 13) = 8388608 /\ 2^((k + 13) - 1) = 4194304 /\ Scale(k) = 1024
    BY <1>10, PowersOfTwo DEF Scale
  <2> HIDE DEF r, rem
  <2>3. 1 <= r /\ r <= 1
    BY <2>1
  <2>4. Lifted(r, k) = r * 1024
    BY <1>10, PowersOfTwo DEF Lifted
  <2>5. r \in Octave(k)
    BY <2>1, <2>3, <2>4 DEF Octave
  <2>6. m = 8192 * Lifted(r, k) + rem /\ rem < 8192 * Scale(k)
    BY <2>1, <2>2, <2>4
  <2> QED
    BY <2>1, <2>2, <2>5, <2>6 DEF r, rem, Splits
<1>12. k = 1 \/ k = 2 \/ k = 3 \/ k = 4 \/ k = 5 \/ k = 6 \/ k = 7 \/ k = 8 \/ k = 9 \/ k = 10
  BY DEF Octaves
<1> QED
  BY <1>1, <1>2, <1>3, <1>4, <1>5, <1>6, <1>7, <1>8, <1>9, <1>10, <1>12

\* Writing a float32 in the range of the subnormals above half the smallest one.
LEMMA WritesSubnormal ==
  ASSUME NEW k \in Octaves, NEW mant \in Nat, mant <= 8388607, NEW h,
         h = ShiftRounded(mant + 8388608, k + 13)
  PROVE  h \in Nat /\ h <= 31744 /\ IsNearest(h, (113 - k) * 8388608 + mant)
<1> DEFINE m == mant + 8388608
           r == m \div 2^(k + 13)
           rem == m % 2^(k + 13)
           mid == 2^((k + 13) - 1)
<1>1. m \in Nat /\ 8388608 <= m /\ m <= 16777215
  OBVIOUS
<1>s. Splits(k, m, r, rem, mid)
  <2> HIDE DEF m
  <2> QED
    BY <1>1, ShiftSplits
<1>3. h = IF rem > mid \/ (rem = mid /\ r % 2 = 1) THEN r + 1 ELSE r
  BY DEF ShiftRounded
<1>m. m = mant + 8388608
  OBVIOUS
<1> HIDE DEF m, r, rem, mid
<1>2. /\ r \in Octave(k) /\ r \in Nat /\ rem \in Nat /\ rem < 8192 * Scale(k)
      /\ m = 8192 * Lifted(r, k) + rem /\ mid = 4096 * Scale(k)
  BY <1>s DEF Splits
<1>4. r <= 1023
  BY <1>2 DEF Octave
<1>5. Value(r) = (113 - k) * 8388608 + (Lifted(r, k) - 1024) * 8192
  BY <1>2, SubnormalValue
<1>6. Value(r + 1) = Value(r) + 8192 * Scale(k) /\ Value(r) \in Int
  BY <1>2, SubnormalStep
<1>7. Midpoint(r) = Value(r) + 4096 * Scale(k)
  BY <1>2, SubnormalMidpoint
<1>8. Scale(k) \in Nat
  BY ScaleIs
<1>9. Lifted(r, k) \in Nat
  BY <1>2 DEF Octave
<1>10. /\ r \in Nat /\ r <= 31743 /\ mid \in Nat /\ rem \in Nat /\ rem < 2 * mid /\ Midpoint(r) = Value(r) + mid
       /\ r < 31743 => Value(r + 1) = Value(r) + 2 * mid
  BY <1>2, <1>4, <1>6, <1>7, <1>8
<1>11. h \in Nat /\ h <= 31744 /\ IsNearest(h, Value(r) + rem)
  BY <1>3, <1>10, RoundsNearest
<1>12. Value(r) + rem = (113 - k) * 8388608 + mant
  <2>1. k \in Nat
    BY DEF Octaves
  <2> QED
    BY <1>2, <1>5, <1>9, <1>m, <2>1
<1> QED
  BY <1>11, <1>12

\* Writing a float32 in the range of the normal halves.
LEMMA WritesNormal ==
  ASSUME NEW v \in Nat, 8388608 <= v, v <= 260046847, NEW h, h = ShiftRounded(v, 13)
  PROVE  h \in Nat /\ h <= 31744 /\ IsNearest(h, 939524096 + v)
<1> DEFINE r == v \div 8192
           rem == v % 8192
<1>1. r \in Nat /\ rem \in Nat /\ rem < 8192 /\ v = r * 8192 + rem
  OBVIOUS
<1>2. 2^13 = 8192 /\ 2^(13 - 1) = 4096
  BY PowersOfTwo
<1>3. h = IF rem > 4096 \/ (rem = 4096 /\ r % 2 = 1) THEN r + 1 ELSE r
  BY <1>2 DEF ShiftRounded
<1> HIDE DEF r, rem
<1>4. 1024 <= r /\ r <= 31743
  BY <1>1
<1>5. Value(r) = 939524096 + r * 8192 /\ Midpoint(r) = Value(r) + 4096
  BY <1>1, <1>4, NormalValue, NormalMidpoint
<1>6. ASSUME r < 31743 PROVE Value(r + 1) = Value(r) + 2 * 4096
  <2>1. r + 1 \in Nat /\ 1024 <= r + 1 /\ r + 1 <= 31743
    BY <1>1, <1>4, <1>6
  <2>2. Value(r + 1) = 939524096 + (r + 1) * 8192
    BY <2>1, NormalValue
  <2> QED
    BY <1>1, <1>5, <2>2
<1> DEFINE mid == 4096
<1>7. /\ rem < 2 * mid /\ mid \in Nat /\ Midpoint(r) = Value(r) + mid
      /\ r < 31743 => Value(r + 1) = Value(r) + 2 * mid
      /\ h = IF rem > mid \/ (rem = mid /\ r % 2 = 1) THEN r + 1 ELSE r
  BY <1>1, <1>3, <1>5, <1>6
<1> HIDE DEF mid
<1>8. h \in Nat /\ h <= 31744 /\ IsNearest(h, Value(r) + rem)
  BY <1>1, <1>4, <1>7, RoundsNearest
<1>9. Value(r) + rem = 939524096 + v
  BY <1>1, <1>5
<1> QED
  BY <1>8, <1>9

\* Half the smallest subnormal becomes zero, and what is larger the smallest one.
LEMMA WritesTiny ==
  ASSUME NEW mant \in Nat, mant <= 8388607, NEW h, h = ShiftRounded(mant + 8388608, 24)
  PROVE  h \in Nat /\ h <= 31744 /\ IsNearest(h, 855638016 + mant)
<1> DEFINE m == mant + 8388608
<1>1. 2^24 = 16777216 /\ 2^(24 - 1) = 8388608
  BY PowersOfTwo
<1>2. m \div 16777216 = 0 /\ m % 16777216 = m
  OBVIOUS
<1>3. h = IF mant > 0 THEN 1 ELSE 0
  <2>1. h = IF m > 8388608 \/ (m = 8388608 /\ 0 % 2 = 1) THEN 0 + 1 ELSE 0
    BY <1>1, <1>2 DEF ShiftRounded
  <2> QED
    BY <2>1
<1>4. Midpoint(0) = 855638016
  BY DEF Midpoint, ExpUnit, Infinity16
<1>5. Midpoint(1) \in Nat /\ Value(1) < Midpoint(1) /\ Value(1) = 103 * 8388608
  BY MidpointBetween, ValueEnds
<1>6. CASE mant > 0
  <2>1. h = 1 /\ 855638016 + mant > Midpoint(0) /\ 855638016 + mant < Midpoint(1)
    BY <1>3, <1>4, <1>5, <1>6
  <2>2. 1 - 1 = 0 /\ 1 \in Nat /\ 1 <= 31744
    OBVIOUS
  <2> QED
    BY <2>1, <2>2 DEF IsNearest
<1>7. CASE ~(mant > 0)
  <2>1. h = 0 /\ 855638016 + mant = Midpoint(0) /\ 0 % 2 = 0
    BY <1>3, <1>4, <1>7
  <2> QED
    BY <2>1 DEF IsNearest
<1> QED
  BY <1>6, <1>7

\* A float32: its sign and 31 bits.
IsFloat(x) == x \in [neg : BOOLEAN, mag : Nat] /\ x.mag <= 2147483647

\* What x has to be written as.
WrittenNearest(x, bits) ==
  IF x.mag > Infinity32 THEN bits = NaN16
  ELSE \E h \in Nat : h <= 31744 /\ bits = Signed(x.neg, h) /\ IsNearest(h, x.mag)

LEMMA InfinityIs == Infinity32 = 2139095040 /\ ExpUnit = 8388608 /\ Infinity16 = 31744 /\ NaN16 = 32256
BY DEF Infinity32, ExpUnit, Infinity16, NaN16

\* The sign is the top bit of a half.
TopBit(bits, h, d) ==
  bits \in Nat /\ bits # -1 /\ bits % 32768 = h /\ bits \div 32768 = d /\ (bits >= 32768 <=> d = 1)

LEMMA TopBitIs ==
  ASSUME NEW h \in Nat, h <= 31744
  PROVE  TopBit(32768 + h, h, 1) /\ TopBit(h, h, 0)
<1>1. (32768 + h) % 32768 = h /\ (32768 + h) \div 32768 = 1
  OBVIOUS
<1>2. h % 32768 = h /\ h \div 32768 = 0
  OBVIOUS
<1> QED
  BY <1>1, <1>2 DEF TopBit

LEMMA SignedIs ==
  ASSUME NEW neg \in BOOLEAN, NEW h \in Nat, h <= 31744
  PROVE  TopBit(Signed(neg, h), h, IF neg THEN 1 ELSE 0)
<1>1. TopBit(32768 + h, h, 1) /\ TopBit(h, h, 0)
  BY TopBitIs
<1>2. CASE neg
  <2>1. Signed(neg, h) = 32768 + h /\ (IF neg THEN 1 ELSE 0) = 1
    BY <1>2 DEF Signed
  <2> QED
    BY <1>1, <2>1
<1>3. CASE ~neg
  <2>1. Signed(neg, h) = h /\ (IF neg THEN 1 ELSE 0) = 0
    BY <1>3 DEF Signed
  <2> QED
    BY <1>1, <2>1
<1> QED
  BY <1>2, <1>3

\* Every float32 is written as the nearest half.
LEMMA WritesNearest ==
  ASSUME NEW x, IsFloat(x)
  PROVE  WrittenNearest(x, F32ToF16Bits(x))
<1> DEFINE mag == x.mag
           exp == mag \div 8388608
           mant == mag % 8388608
           e == exp - 112
           bits == F32ToF16Bits(x)
<1> SUFFICES WrittenNearest(x, bits)
  OBVIOUS
<1>1. mag \in Nat /\ mag <= 2147483647
  BY DEF IsFloat
<1>2. exp \in Nat /\ mant \in Nat /\ mant <= 8388607 /\ mag = exp * 8388608 + mant
  <2> HIDE DEF mag
  <2> QED
    BY <1>1
<1>3. bits = CASE exp = 255 /\ mant # 0 -> NaN16
               [] (exp = 255 /\ mant = 0) \/ (exp < 255 /\ e >= 31) -> Signed(x.neg, Infinity16)
               [] exp < 255 /\ e < -10 -> Signed(x.neg, 0)
               [] e \in -10 .. 0 -> Signed(x.neg, ShiftRounded(mant + 8388608, 14 - e))
               [] OTHER -> Signed(x.neg, ShiftRounded(e * 8388608 + mant, 13))
  BY DEF F32ToF16Bits, ExpUnit
<1>4. e \in Int /\ exp = e + 112
  BY <1>2
<1> HIDE DEF mag, exp, mant, e, bits
<1>5. exp <= 255
  BY <1>1, <1>2
<1>w. ASSUME NEW h \in Nat, h <= 31744, bits = Signed(x.neg, h), IsNearest(h, mag), ~(mag > Infinity32)
      PROVE  WrittenNearest(x, bits)
  BY <1>w DEF WrittenNearest, mag
<1>6. CASE exp = 255 /\ mant # 0
  <2>1. bits = NaN16
    BY <1>2, <1>3, <1>4, <1>6
  <2>2. mag > Infinity32
    BY <1>2, <1>6, InfinityIs
  <2> QED
    BY <2>1, <2>2 DEF WrittenNearest, mag
<1>7. CASE (exp = 255 /\ mant = 0) \/ (exp < 255 /\ e >= 31)
  <2>1. bits = Signed(x.neg, 31744)
    BY <1>2, <1>3, <1>4, <1>7, InfinityIs
  <2>2. mag >= 1199570944
    BY <1>2, <1>4, <1>7
  <2>i. ~(mag > Infinity32)
    BY <1>2, <1>4, <1>7, InfinityIs
  <2>3. Midpoint(31743) = 1199566848
    BY DEF Midpoint, ExpUnit, Infinity16
  <2>m. mag > Midpoint(31743)
    BY <1>1, <2>2, <2>3
  <2>4. 31744 - 1 = 31743 /\ 31744 \in Nat /\ 31744 <= 31744
    OBVIOUS
  <2>5. IsNearest(31744, mag)
    BY <2>4, <2>m DEF IsNearest, Infinity16
  <2> QED
    BY <1>w, <2>1, <2>4, <2>5, <2>i
<1>8. CASE exp < 255 /\ e < -10
  <2>1. bits = Signed(x.neg, 0)
    BY <1>3, <1>4, <1>8
  <2>2. mag < 855638016
    BY <1>2, <1>4, <1>8
  <2>i. ~(mag > Infinity32)
    BY <1>2, <1>4, <1>8, InfinityIs
  <2>3. Midpoint(0) = 855638016
    BY DEF Midpoint, ExpUnit, Infinity16
  <2>4. IsNearest(0, mag)
    BY <2>2, <2>3 DEF IsNearest
  <2>5. 0 \in Nat /\ 0 <= 31744
    OBVIOUS
  <2> QED
    BY <1>w, <2>1, <2>4, <2>5, <2>i
<1>9. CASE -10 <= e /\ e <= 0
  <2> DEFINE h == ShiftRounded(mant + 8388608, 14 - e)
  <2>1. bits = Signed(x.neg, h)
    BY <1>3, <1>4, <1>9
  <2>i. ~(mag > Infinity32)
    BY <1>2, <1>4, <1>9, InfinityIs
  <2>3. h \in Nat /\ h <= 31744 /\ IsNearest(h, mag)
    <3>1. CASE e = -10
      <4>1. h = ShiftRounded(mant + 8388608, 24)
        BY <3>1
      <4>2. mag = 855638016 + mant
        BY <1>2, <1>4, <3>1
      <4> HIDE DEF h
      <4> QED
        BY <1>2, <4>1, <4>2, WritesTiny
    <3>2. CASE e # -10
      <4> DEFINE k == 1 - e
      <4>1. k \in Octaves /\ 14 - e = k + 13
        BY <1>4, <1>9, <3>2 DEF Octaves
      <4>2. mag = (113 - k) * 8388608 + mant
        BY <1>2, <1>4
      <4> HIDE DEF k
      <4>3. h = ShiftRounded(mant + 8388608, k + 13)
        BY <4>1
      <4> HIDE DEF h
      <4> QED
        BY <1>2, <4>1, <4>2, <4>3, WritesSubnormal
    <3> QED
      BY <3>1, <3>2
  <2> HIDE DEF h
  <2> QED
    BY <1>w, <2>1, <2>3, <2>i
<1>10. CASE 1 <= e /\ e <= 30
  <2> DEFINE v == e * 8388608 + mant
             h == ShiftRounded(v, 13)
  <2>1. bits = Signed(x.neg, h)
    BY <1>3, <1>4, <1>10
  <2>2. mag = 939524096 + v /\ v \in Nat /\ 8388608 <= v /\ v <= 260046847
    BY <1>2, <1>4, <1>10
  <2>i. ~(mag > Infinity32)
    BY <1>2, <1>4, <1>10, InfinityIs
  <2>h. h = ShiftRounded(v, 13)
    OBVIOUS
  <2> HIDE DEF v, h
  <2>3. h \in Nat /\ h <= 31744 /\ IsNearest(h, mag)
    BY <2>2, <2>h, WritesNormal
  <2> QED
    BY <1>w, <2>1, <2>3, <2>i
<1>11. \/ exp = 255 /\ mant # 0
       \/ (exp = 255 /\ mant = 0) \/ (exp < 255 /\ e >= 31)
       \/ exp < 255 /\ e < -10
       \/ -10 <= e /\ e <= 0
       \/ 1 <= e /\ e <= 30
  BY <1>2, <1>4, <1>5
<1> QED
  BY <1>6, <1>7, <1>8, <1>9, <1>10, <1>11

HalfInv == IsFloat(position) /\ (packed # -1 => WrittenNearest(position, packed))

\* What is written as the nearest half satisfies the property.
LEMMA WrittenIsNearest ==
  ASSUME HalfInv
  PROVE  HalfNearest
<1> SUFFICES ASSUME packed # -1
             PROVE  IF position.mag > Infinity32 THEN packed = NaN16
                    ELSE /\ packed \div 32768 = (IF position.neg THEN 1 ELSE 0)
                         /\ IsNearest(packed % 32768, position.mag)
  BY DEF HalfNearest
<1>1. WrittenNearest(position, packed) /\ position.neg \in BOOLEAN
  BY DEF HalfInv, IsFloat
<1>2. CASE position.mag > Infinity32
  BY <1>1, <1>2 DEF WrittenNearest
<1>3. CASE ~(position.mag > Infinity32)
  <2>1. PICK h \in Nat : h <= 31744 /\ packed = Signed(position.neg, h) /\ IsNearest(h, position.mag)
    BY <1>1, <1>3 DEF WrittenNearest
  <2>2. TopBit(packed, h, IF position.neg THEN 1 ELSE 0)
    BY <1>1, <2>1, SignedIs
  <2>3. packed \div 32768 = (IF position.neg THEN 1 ELSE 0) /\ packed % 32768 = h
    BY <2>2 DEF TopBit
  <2> QED
    BY <1>3, <2>1, <2>3
<1> QED
  BY <1>2, <1>3

LEMMA HalvesAre ==
  ASSUME NEW h \in Halves
  PROVE  h \in Nat /\ h <= 31744
<1>1. h \in 0 .. Infinity16
  BY HalvesAssumption
<1> QED
  BY <1>1 DEF Infinity16

\* The positions to begin with are float32s.
LEMMA PositionsAreFloats ==
  ASSUME NEW x \in Positions
  PROVE  IsFloat(x)
<1> DEFINE edges == UNION {{F16BitsToF32(h).mag} \cup (IF h < Infinity16 THEN {Midpoint(h)} ELSE {}) : h \in Halves}
           near == edges \cup {m - 1 : m \in edges \ {0}} \cup {m + 1 : m \in edges}
<1>1. PICK neg \in BOOLEAN, m \in near : x = [neg |-> neg, mag |-> m]
  BY DEF Positions, Float
<1>3. ASSUME NEW y \in edges PROVE y \in Nat /\ y <= 2139095040
  <2>1. PICK h \in Halves : y \in {F16BitsToF32(h).mag} \cup (IF h < Infinity16 THEN {Midpoint(h)} ELSE {})
    BY <1>3
  <2>2. h \in Nat /\ h <= 31744
    BY HalvesAre
  <2>3. CASE y = F16BitsToF32(h).mag
    <3>1. y = Value(h)
      BY <2>3 DEF Value
    <3>2. Value(h) \in Nat /\ Value(h) <= 2139095040
      BY <2>2, ReadNearest
    <3> QED
      BY <3>1, <3>2
  <2>4. CASE h < Infinity16 /\ y = Midpoint(h)
    <3>1. h <= 31743
      BY <2>2, <2>4 DEF Infinity16
    <3>2. Midpoint(h) \in Nat /\ Value(h + 1) \in Nat /\ Midpoint(h) < Value(h + 1) /\ Value(h + 1) <= 2139095040
      BY <2>2, <3>1, MidpointBetween
    <3> QED
      BY <2>4, <3>2
  <2> QED
    BY <2>1, <2>3, <2>4
<1> HIDE DEF edges
<1>4. m \in Nat /\ m <= 2147483647
  <2>1. CASE m \in edges
    <3>1. m \in Nat /\ m <= 2139095040
      BY <1>3, <2>1
    <3> QED
      BY <3>1
  <2>2. CASE \E y \in edges \ {0} : m = y - 1
    <3>1. PICK y \in edges : y # 0 /\ m = y - 1
      BY <2>2
    <3>2. y \in Nat /\ y <= 2139095040
      BY <1>3
    <3> QED
      BY <3>1, <3>2
  <2>3. CASE \E y \in edges : m = y + 1
    <3>1. PICK y \in edges : m = y + 1
      BY <2>3
    <3>2. y \in Nat /\ y <= 2139095040
      BY <1>3
    <3> QED
      BY <3>1, <3>2
  <2> QED
    BY <2>1, <2>2, <2>3
<1> QED
  BY <1>1, <1>4 DEF IsFloat

\* Whoever reads what was written gets a float32 that would be written the same.
LEMMA ReadStep ==
  ASSUME HalfInv, ReadPosition
  PROVE  HalfInv'
<1>1. packed # -1 /\ position' = F16BitsToF32(packed) /\ packed' = packed
  BY DEF ReadPosition
<1>2. WrittenNearest(position, packed) /\ position.neg \in BOOLEAN
  BY <1>1 DEF HalfInv, IsFloat
<1>3. CASE position.mag > Infinity32
  <2> DEFINE sign == 32256 >= 32768
  <2>s. sign \in BOOLEAN
    OBVIOUS
  <2>1. packed = 32256
    BY <1>2, <1>3 DEF WrittenNearest, NaN16
  <2>2. 32256 % 32768 = 32256 /\ 32256 \div 1024 = 31 /\ 32256 % 1024 = 512 /\ ~(32256 >= 32768)
    OBVIOUS
  <2>3. position' = [neg |-> sign, mag |-> Infinity32 + 512 * 8192]
    <3>1. F16BitsToF32(32256).mag = Infinity32 + 512 * 8192
      BY <2>2 DEF F16BitsToF32, Float
    <3>2. F16BitsToF32(32256).neg = sign
      BY DEF F16BitsToF32, Float
    <3> HIDE DEF sign
    <3>3. F16BitsToF32(32256) = [neg |-> F16BitsToF32(32256).neg, mag |-> F16BitsToF32(32256).mag]
      BY DEF F16BitsToF32, Float
    <3> QED
      BY <1>1, <2>1, <3>1, <3>2, <3>3
  <2>4. /\ Infinity32 + 512 * 8192 \in Nat /\ Infinity32 + 512 * 8192 <= 2147483647
        /\ Infinity32 + 512 * 8192 > Infinity32
    BY InfinityIs
  <2> HIDE DEF sign
  <2>5. IsFloat(position') /\ position'.mag > Infinity32
    BY <2>3, <2>4, <2>s DEF IsFloat
  <2>6. WrittenNearest(position', packed')
    BY <1>1, <2>1, <2>5 DEF WrittenNearest, NaN16
  <2> QED
    BY <2>5, <2>6 DEF HalfInv, IsFloat, WrittenNearest
<1>4. CASE ~(position.mag > Infinity32)
  <2> DEFINE neg == position.neg
  <2>1. PICK h \in Nat : h <= 31744 /\ packed = Signed(neg, h)
    BY <1>2, <1>4 DEF WrittenNearest
  <2>2. TopBit(packed, h, IF neg THEN 1 ELSE 0)
    BY <1>2, <2>1, SignedIs
  <2>3. packed % 32768 = h /\ h % 32768 = h /\ (packed >= 32768) = neg
    BY <1>2, <2>1, <2>2 DEF TopBit
  <2>4. F16BitsToF32(packed).neg = (packed >= 32768) /\ F16BitsToF32(packed).mag = Value(h)
    BY <2>3 DEF Value, F16BitsToF32, Float
  <2>5. F16BitsToF32(packed) = [neg |-> F16BitsToF32(packed).neg, mag |-> F16BitsToF32(packed).mag]
    BY DEF F16BitsToF32, Float
  <2>6. position' = [neg |-> neg, mag |-> Value(h)]
    BY <1>1, <2>3, <2>4, <2>5
  <2>7. IsNearest(h, Value(h)) /\ Value(h) \in Nat /\ Value(h) <= 2139095040
    BY <2>1, ReadNearest
  <2>8. Value(h) <= 2147483647 /\ ~(Value(h) > Infinity32)
    BY <2>7, InfinityIs
  <2>9. position'.neg = neg /\ position'.mag = Value(h)
    BY <2>6
  <2>10. IsFloat(position')
    BY <1>2, <2>6, <2>7, <2>8 DEF IsFloat
  <2>11. WrittenNearest(position', packed')
    BY <1>1, <2>1, <2>7, <2>8, <2>9 DEF WrittenNearest
  <2> QED
    BY <2>10, <2>11 DEF HalfInv, IsFloat, WrittenNearest
<1> QED
  BY <1>3, <1>4

LEMMA HalfStep ==
  ASSUME HalfInv, [HalfNext]_halfVars
  PROVE  HalfInv'
<1>1. CASE WritePosition
  <2>1. packed' = F32ToF16Bits(position) /\ position' = position /\ IsFloat(position)
    BY <1>1 DEF WritePosition, HalfInv
  <2>2. WrittenNearest(position, F32ToF16Bits(position))
    BY <2>1, WritesNearest
  <2>3. IsFloat(position') /\ WrittenNearest(position', packed')
    BY <2>1, <2>2
  <2> QED
    BY <2>3 DEF HalfInv, IsFloat, WrittenNearest
<1>2. CASE ReadPosition
  BY <1>2, ReadStep
<1>3. CASE UNCHANGED halfVars
  BY <1>3 DEF halfVars, HalfInv, IsFloat, WrittenNearest
<1> QED
  BY <1>1, <1>2, <1>3 DEF HalfNext

\* Every position is written as the nearest half, ties to even, with its sign, every NaN
\* as the one NaN, and a position read back is written the same again.
THEOREM PositionsAreWrittenNearest == HalfSpec => []HalfNearest
<1>1. HalfInit => HalfInv
  BY PositionsAreFloats DEF HalfInit, HalfInv
<1> QED
  BY <1>1, HalfStep, WrittenIsNearest, PTL DEF HalfSpec

\* The same of the functions alone, for every float32 there is.
THEOREM EveryFloatIsWrittenNearest ==
  \A x \in [neg : BOOLEAN, mag : Nat] : x.mag <= 2147483647 => WrittenNearest(x, F32ToF16Bits(x))
BY WritesNearest DEF IsFloat
=============================================================================

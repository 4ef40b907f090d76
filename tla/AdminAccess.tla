---------------------------- MODULE AdminAccess ----------------------------
(***************************************************************************)
(* Temporary administrator tokens (httpapi otp and admin, the console's    *)
(* approve, deny and pending).  A request opens a session; the right code, *)
(* printed on the terminal, or an approval on the console turns it into a  *)
(* token bound to the address.  OTP sessions live under otpMu, approvals   *)
(* and tokens under state.Mu.  A token is named after its session.         *)
(***************************************************************************)
EXTENDS Naturals, FiniteSets

CONSTANTS Ips, Ssids,
          OtpMaxAttempts, AdminMaxFailed,   \* otpMaxAttempts, adminMaxFailedPerIP
          OtpTTL, BanTTL, TokenTTL,         \* OTPTTLMS, otpBanDuration, TempTokenTTLMS
          AMaxClock                         \* bound on time

ASSUME AdminAssumption ==
  {OtpMaxAttempts, AdminMaxFailed, OtpTTL, BanTTL, TokenTTL, AMaxClock} \subseteq Nat \ {0}

VARIABLES otps,              \* otpSessions: ssid -> expiresAt
          failIP, failSsid,  \* otpFailIP, otpFailSSID
          banIP, banSsid,    \* otpBanIP, otpBanSSID: who -> until
          issuing,           \* verifyOTP calls between otpMu and state.Mu
          approvals,         \* CLIApprovalSessions: ssid -> [ip, exp, status]
          tokens,            \* TempAdminTokens: ssid -> [ip, exp, banned]
          adminFails,        \* adminAuth.failedIP; at the limit the address is banned
          static,            \* an admin token is configured
          opened,            \* sessions requested so far
          issued, handed,    \* tokens made for, and given out by, a session
          wrong,             \* wrong codes judged for a session
          aclock

aVars == <<otps, failIP, failSsid, banIP, banSsid, issuing, approvals, tokens, adminFails,
           static, opened, issued, handed, wrong, aclock>>
otpVars == <<otps, failIP, failSsid, banIP, banSsid>>
cliVars == <<approvals, tokens>>
history == <<opened, issued, handed, wrong>>

With(f, k, v) == [i \in DOMAIN f \cup {k} |-> IF i = k THEN v ELSE f[i]]
Without(f, ks) == [i \in DOMAIN f \ ks |-> f[i]]
Plus1(f, k) == [f EXCEPT ![k] = @ + 1]

AInit ==
  /\ otps = <<>> /\ banIP = <<>> /\ banSsid = <<>> /\ approvals = <<>> /\ tokens = <<>>
  /\ failIP = [i \in Ips |-> 0] /\ failSsid = [s \in Ssids |-> 0]
  /\ issuing = {} /\ adminFails = [i \in Ips |-> 0] /\ static = FALSE /\ opened = {}
  /\ issued = [s \in Ssids |-> 0] /\ handed = [s \in Ssids |-> 0] /\ wrong = [s \in Ssids |-> 0]
  /\ aclock = 0

\* What pruneOTPLocked leaves: a ban's end also clears the failures it counted.
LiveOtps == Without(otps, {s \in DOMAIN otps : aclock > otps[s]})
Over(bans) == {k \in DOMAIN bans : aclock >= bans[k]}
Pruned_Counts(fails, bans) == [k \in DOMAIN fails |-> IF k \in DOMAIN bans \ Over(bans) THEN fails[k] ELSE 0]
Pruned(fails, bans) == [k \in DOMAIN fails |-> IF k \in Over(bans) THEN 0 ELSE fails[k]]

PruneBans ==
  /\ banIP' = Without(banIP, Over(banIP)) /\ failIP' = Pruned(failIP, banIP)
  /\ banSsid' = Without(banSsid, Over(banSsid)) /\ failSsid' = Pruned(failSsid, banSsid)

\* handleOTPRequest, both modes; routeOTP refuses while a token is configured.
RequestOtp(s) ==
  /\ ~static /\ s \notin opened /\ opened' = opened \cup {s}
  /\ otps' = With(LiveOtps, s, aclock + OtpTTL)
  /\ PruneBans
  /\ UNCHANGED <<issuing, approvals, tokens, adminFails, static, issued, handed, wrong, aclock>>

RequestCli(s, ip) ==
  /\ ~static /\ s \notin opened /\ opened' = opened \cup {s}
  /\ approvals' = With(approvals, s, [ip |-> ip, exp |-> aclock + OtpTTL, status |-> "pending"])
  /\ UNCHANGED <<otpVars, issuing, tokens, adminFails, static, issued, handed, wrong, aclock>>

\* verifyOTP after pruning, when neither address nor session is banned and
\* the session lives.
Judged(s, ip) ==
  /\ ~static /\ s \in DOMAIN LiveOtps
  /\ ip \notin DOMAIN banIP \ Over(banIP) /\ s \notin DOMAIN banSsid \ Over(banSsid)

\* The right code: the session is spent before the token is made.
VerifyRight(s, ip) ==
  /\ Judged(s, ip)
  /\ otps' = Without(LiveOtps, {s})
  /\ failIP' = [Pruned(failIP, banIP) EXCEPT ![ip] = 0] /\ banIP' = Without(banIP, Over(banIP))
  /\ failSsid' = [Pruned(failSsid, banSsid) EXCEPT ![s] = 0] /\ banSsid' = Without(banSsid, Over(banSsid))
  /\ issuing' = issuing \cup {[ssid |-> s, ip |-> ip, exp |-> aclock + TokenTTL]}
  /\ UNCHANGED <<cliVars, adminFails, static, history, aclock>>

\* A wrong code: both counts rise, and at the limit each bans its own.
VerifyWrong(s, ip) ==
  /\ Judged(s, ip)
  /\ failIP' = Plus1(Pruned(failIP, banIP), ip) /\ failSsid' = Plus1(Pruned(failSsid, banSsid), s)
  /\ banIP' = LET b == Without(banIP, Over(banIP)) IN
              IF failIP'[ip] >= OtpMaxAttempts THEN With(b, ip, aclock + BanTTL) ELSE b
  /\ LET b == Without(banSsid, Over(banSsid)) IN
       IF failSsid'[s] >= OtpMaxAttempts
       THEN banSsid' = With(b, s, aclock + BanTTL) /\ otps' = Without(LiveOtps, {s})
       ELSE banSsid' = b /\ otps' = LiveOtps
  /\ wrong' = Plus1(wrong, s)
  /\ UNCHANGED <<issuing, cliVars, adminFails, static, opened, issued, handed, aclock>>

\* verifyOTP that judges nothing, and the cleanup every five minutes.
PruneOnly ==
  /\ otps' = LiveOtps /\ PruneBans
  /\ UNCHANGED <<issuing, cliVars, adminFails, static, history, aclock>>

\* The second half of verifyOTP, under state.Mu.
StoreToken(i) ==
  /\ i \in issuing /\ issuing' = issuing \ {i}
  /\ tokens' = With(tokens, i.ssid, [ip |-> i.ip, exp |-> i.exp, banned |-> FALSE])
  /\ issued' = Plus1(issued, i.ssid) /\ handed' = Plus1(handed, i.ssid)
  /\ UNCHANGED <<otpVars, approvals, adminFails, static, opened, wrong, aclock>>

Late(s) == aclock > approvals[s].exp

\* cmdApprove and cmdDeny on the session the operator named; only the former
\* looks at the time.
Approve(s) ==
  /\ s \in DOMAIN approvals
  /\ IF Late(s) THEN approvals' = Without(approvals, {s}) /\ UNCHANGED <<tokens, issued>>
     ELSE /\ approvals[s].status = "pending"
          /\ approvals' = [approvals EXCEPT ![s].status = "approved"]
          /\ tokens' = With(tokens, s, [ip |-> approvals[s].ip, exp |-> aclock + TokenTTL, banned |-> FALSE])
          /\ issued' = Plus1(issued, s)
  /\ UNCHANGED <<otpVars, issuing, adminFails, static, opened, handed, wrong, aclock>>

Deny(s) ==
  /\ s \in DOMAIN approvals /\ approvals[s].status = "pending"
  /\ approvals' = [approvals EXCEPT ![s].status = "denied"]
  /\ UNCHANGED <<otpVars, issuing, tokens, adminFails, static, history, aclock>>

\* verifyCLIApproval: the client polls; a settled session is answered once.
VerifyCli(s, ip) ==
  /\ ~static /\ s \in DOMAIN approvals
  /\ \/ Late(s)
     \/ ip = approvals[s].ip /\ approvals[s].status # "pending"
  /\ approvals' = Without(approvals, {s})
  /\ handed' = IF ~Late(s) /\ approvals[s].status = "approved" THEN Plus1(handed, s) ELSE handed
  /\ UNCHANGED <<otpVars, issuing, tokens, adminFails, static, opened, issued, wrong, aclock>>

\* cmdPending drops the late sessions; RunCleanupOnce also the denied ones
\* and the dead tokens.
Pending ==
  /\ approvals' = Without(approvals, {s \in DOMAIN approvals : Late(s)})
  /\ UNCHANGED <<otpVars, issuing, tokens, adminFails, static, history, aclock>>

RunCleanup ==
  /\ approvals' = Without(approvals, {s \in DOMAIN approvals : Late(s) \/ approvals[s].status = "denied"})
  /\ tokens' = Without(tokens, {t \in DOMAIN tokens : tokens[t].banned \/ aclock > tokens[t].exp})
  /\ UNCHANGED <<otpVars, issuing, adminFails, static, history, aclock>>

Barred(ip) == adminFails[ip] >= AdminMaxFailed

\* checkAdmin with a temporary token: from another address it is dead.
CheckTemp(t, ip) ==
  /\ ~Barred(ip) /\ t \in DOMAIN tokens
  /\ ~tokens[t].banned /\ aclock <= tokens[t].exp /\ tokens[t].ip # ip
  /\ tokens' = [tokens EXCEPT ![t].banned = TRUE]
  /\ UNCHANGED <<otpVars, issuing, approvals, adminFails, static, history, aclock>>

\* checkAdmin with what is no temporary token: recordFailure, or success.
CheckStatic(ip, right) ==
  /\ ~Barred(ip) /\ static
  /\ adminFails' = IF right THEN [adminFails EXCEPT ![ip] = 0] ELSE Plus1(adminFails, ip)
  /\ UNCHANGED <<otpVars, issuing, cliVars, static, history, aclock>>

\* A reload configures an admin token.
ConfigureToken ==
  /\ ~static /\ static' = TRUE
  /\ UNCHANGED <<otpVars, issuing, cliVars, adminFails, history, aclock>>

ATick ==
  /\ aclock < AMaxClock /\ aclock' = aclock + 1
  /\ UNCHANGED <<otpVars, issuing, cliVars, adminFails, static, history>>

ANext ==
  \/ \E s \in Ssids : RequestOtp(s) \/ Approve(s) \/ Deny(s)
  \/ \E s \in Ssids, ip \in Ips :
       RequestCli(s, ip) \/ VerifyRight(s, ip) \/ VerifyWrong(s, ip) \/ VerifyCli(s, ip) \/ CheckTemp(s, ip)
  \/ \E i \in issuing : StoreToken(i)
  \/ \E ip \in Ips, right \in BOOLEAN : CheckStatic(ip, right)
  \/ PruneOnly \/ Pending \/ RunCleanup \/ ConfigureToken \/ ATick

ASpec == AInit /\ [][ANext]_aVars

-----------------------------------------------------------------------------
\* A session is good for one token, given out once, and for a bounded number
\* of guesses, from whatever addresses and however bans and sessions expire
\* in between (verifyOTP, verifyCLIApproval, cmdApprove, pruneOTPLocked).
SessionsAreOneUse ==
  \A s \in Ssids :
    /\ issued[s] + Cardinality({i \in issuing : i.ssid = s}) <= 1 /\ handed[s] <= issued[s]
    /\ wrong[s] <= OtpMaxAttempts
=============================================================================

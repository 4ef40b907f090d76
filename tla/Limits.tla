------------------------------- MODULE Limits -------------------------------
(***************************************************************************)
(* The four limiters of the server: a session's token buckets for          *)
(* operations and for packets (network/ratelimit), the connections of an   *)
(* address (network/connlimit), its HTTP requests (httpapi/server) and its *)
(* lines in the connection log (logging/connratelimit).  Init picks the    *)
(* limiter and the requests are those of one session or one address.       *)
(* A token is Second parts; a bucket gains its capacity in Second ticks.   *)
(***************************************************************************)
EXTENDS Naturals, Sequences, FiniteSets, Selection

CONSTANTS OpCapacity, TotalCapacity,  \* opSpec, totalSpec
          Second,                     \* ticks in a second: of the refill and of the log window
          Span, Spans,                \* windowDur; the windows that can be configured
          BanSpan,                    \* banDur or connLogBlacklistDur
          MaxMax,                     \* largest configured maximum
          LogThreshold,               \* connLogThreshold
          LMaxClock                   \* bound on time

ASSUME LimitsAssumption ==
  /\ {OpCapacity, TotalCapacity, Second, Span, BanSpan, MaxMax, LogThreshold, LMaxClock} \subseteq Nat \ {0}
  /\ Spans \subseteq Nat \ {0}
  /\ Span <= BanSpan     \* connRateWindow and connRateBan: 10 and 30 seconds
  /\ Second <= BanSpan   \* connLogWindow and connLogBlacklistDur: a second and an hour

VARIABLES limiter, lclock,
          lmax, lspan,   \* maxConns or max, windowDur or window
          op, total,     \* the buckets: [tokens, last], in parts of 1/Second
          window,        \* connWindow or ipWindow: [count, reset]; count 0 is none
          barredUntil,   \* banned or blacklisted
          stamps,        \* ipStat.timestamps
          passed, packets,  \* times of the requests let through, and of packets
          thisLimit, lastLimit  \* history: [max, span] of this window, the largest
                                \* maximum in force in it, and of the window before

lVars == <<limiter, lmax, lspan, lclock, op, total, window, barredUntil, stamps, passed, packets, thisLimit, lastLimit>>
limits == <<lmax, lspan>>
limitHistory == <<thisLimit, lastLimit>>

LInit ==
  /\ limiter \in {"session", "connection", "http", "log"} /\ lclock = 0
  /\ lmax \in 1..MaxMax /\ lspan \in IF limiter = "http" THEN Spans ELSE {Span}
  /\ op = [tokens |-> OpCapacity * Second, last |-> 0]
  /\ total = [tokens |-> TotalCapacity * Second, last |-> 0]
  /\ window = [count |-> 0, reset |-> 0] /\ barredUntil = 0 /\ stamps = <<>>
  /\ passed = <<>> /\ packets = <<>>
  /\ thisLimit = [max |-> lmax, span |-> lspan] /\ lastLimit = thisLimit

Note(ok) == passed' = IF ok THEN Append(passed, lclock) ELSE passed

\* consume: refill by the time elapsed, then take one token if there is one.
Refilled(b, capacity) ==
  LET t == b.tokens + (lclock - b.last) * capacity
  IN  [tokens |-> IF t > capacity * Second THEN capacity * Second ELSE t, last |-> lclock]
Enough(b) == b.tokens >= Second
Consume(b) == IF Enough(b) THEN [b EXCEPT !.tokens = @ - Second] ELSE b

\* allow: every packet costs a packet token; an operation (categorize) also
\* costs an operation token, and a refused one has paid for its packet.
Command(discrete) ==
  /\ limiter = "session"
  /\ LET t == Refilled(total, TotalCapacity)
         o == Refilled(op, OpCapacity)
     IN  /\ total' = Consume(t)
         /\ packets' = IF Enough(t) THEN Append(packets, lclock) ELSE packets
         /\ op' = IF Enough(t) /\ discrete THEN Consume(o) ELSE op
         /\ Note(discrete /\ Enough(t) /\ Enough(o))
  /\ UNCHANGED <<limiter, limits, lclock, window, barredUntil, stamps, limitHistory>>

NewWindow ==
  /\ window' = [count |-> 1, reset |-> lclock + lspan]
  /\ lastLimit' = thisLimit /\ thisLimit' = [max |-> lmax, span |-> lspan]

\* connectionRateLimiter.allow: one too many bars the address.
Connect ==
  /\ limiter = "connection"
  /\ IF lclock < barredUntil THEN Note(FALSE) /\ UNCHANGED <<window, barredUntil, limitHistory>>
     ELSE IF window.count = 0 \/ lclock >= window.reset
     THEN NewWindow /\ barredUntil' = 0 /\ Note(TRUE)
     ELSE /\ UNCHANGED limitHistory
          /\ IF window.count + 1 > lmax
             THEN window' = [window EXCEPT !.count = 0] /\ barredUntil' = lclock + BanSpan /\ Note(FALSE)
             ELSE window' = [window EXCEPT !.count = @ + 1] /\ barredUntil' = 0 /\ Note(TRUE)
  /\ UNCHANGED <<limiter, limits, lclock, op, total, stamps, packets>>

\* rateLimiter.allow: the window lasts through its reset.
HttpRequest ==
  /\ limiter = "http"
  /\ IF window.count = 0 \/ lclock > window.reset THEN NewWindow /\ Note(TRUE)
     ELSE /\ UNCHANGED limitHistory
          /\ IF window.count >= lmax THEN UNCHANGED window /\ Note(FALSE)
             ELSE window' = [window EXCEPT !.count = @ + 1] /\ Note(TRUE)
  /\ UNCHANGED <<limiter, limits, lclock, op, total, barredUntil, stamps, packets>>

\* connRateLimiter.shouldLog.
ShouldLog ==
  /\ limiter = "log"
  /\ LET kept == Append(Selected(stamps, {i \in DOMAIN stamps : stamps[i] + Second > lclock}), lclock)
     IN  IF lclock < barredUntil THEN Note(FALSE) /\ UNCHANGED <<barredUntil, stamps>>
         ELSE IF Len(kept) > LogThreshold
         THEN stamps' = <<>> /\ barredUntil' = lclock + BanSpan /\ Note(FALSE)
         ELSE stamps' = kept /\ barredUntil' = 0 /\ Note(TRUE)
  /\ UNCHANGED <<limiter, limits, lclock, op, total, window, packets, limitHistory>>

\* connRateLimiter.remove and clear, by the operator: what was logged before
\* no longer counts.
Unbar ==
  /\ limiter = "log" /\ stamps' = <<>> /\ barredUntil' = 0 /\ passed' = <<>>
  /\ UNCHANGED <<limiter, limits, lclock, op, total, window, packets, limitHistory>>

CleanUp_All ==
  /\ limiter = "connection" /\ window.count > 0
  /\ window' = [window EXCEPT !.count = 0]
  /\ UNCHANGED <<limiter, limits, lclock, op, total, barredUntil, stamps, passed, packets, limitHistory>>

\* cleanup and gc: what has run out is forgotten.
CleanUp ==
  /\ \/ limiter = "connection" /\ window.count > 0 /\ lclock >= window.reset
     \/ limiter = "http" /\ window.count > 0 /\ lclock > window.reset
  /\ window' = [window EXCEPT !.count = 0]
  /\ UNCHANGED <<limiter, limits, lclock, op, total, barredUntil, stamps, passed, packets, limitHistory>>

\* setMaxConns and setOptions, when the configuration is read again: the
\* window that has begun keeps its reset.
SetOptions(n, span) ==
  /\ limiter = "http" \/ (limiter = "connection" /\ span = lspan)
  /\ <<n, span>> # <<lmax, lspan>> /\ lmax' = n /\ lspan' = span
  /\ thisLimit' = [thisLimit EXCEPT !.max = IF n > @ THEN n ELSE @]
  /\ UNCHANGED <<limiter, lclock, op, total, window, barredUntil, stamps, passed, packets, lastLimit>>

LTick ==
  /\ lclock < LMaxClock /\ lclock' = lclock + 1
  /\ UNCHANGED <<limiter, limits, op, total, window, barredUntil, stamps, passed, packets, limitHistory>>

LNext ==
  \/ \E d \in BOOLEAN : Command(d)
  \/ Connect \/ HttpRequest \/ ShouldLog \/ Unbar \/ CleanUp \/ LTick
  \/ \E n \in 1..MaxMax, span \in Spans \cup {Span} : SetOptions(n, span)

LSpec == LInit /\ [][LNext]_lVars

-----------------------------------------------------------------------------
Since(ts, t) == Cardinality({i \in DOMAIN ts : ts[i] >= t})

\* Over any span of time a limiter lets through what it can promise: a bucket
\* its capacity and what the span refills, however often it runs dry; a fixed
\* window, over less than the length of the window before it, that window's
\* maximum and its own, across a boundary, a ban and reloads of either number;
\* the log its threshold (consume, allow, cleanup, setOptions, shouldLog).
LimitsHold ==
  \A t \in 0..lclock :
    CASE limiter = "session" ->
           /\ Since(passed, t) * Second <= OpCapacity * (Second + lclock - t)
           /\ Since(packets, t) * Second <= TotalCapacity * (Second + lclock - t)
      [] limiter \in {"connection", "http"} ->
           lclock - t < lastLimit.span => Since(passed, t) <= lastLimit.max + thisLimit.max
      [] OTHER -> lclock - t < Second => Since(passed, t) <= LogThreshold
=============================================================================

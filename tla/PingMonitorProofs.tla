-------------------------- MODULE PingMonitorProofs -------------------------
(***************************************************************************)
(* Proofs about the failure detector, for every configuration, latency and *)
(* duration of the handshake.  What carries them is the position of the    *)
(* two timers relative to each other: both count from the last ping, so    *)
(* that a running timer has exactly the rest of the timeout left, and a    *)
(* timer that fired did so a timeout after that ping.                      *)
(*                                                                         *)
(* That a live peer is kept needs, beyond that, the age of every ping and  *)
(* answer on its way: with a latency below half the timeout all of them    *)
(* have been handled before the timer fires, so that a failure means a     *)
(* ping dropped in the handshake, and these are an interval apart          *)
(* (LiveInv).                                                              *)
(***************************************************************************)
EXTENDS PingMonitor, TLAPS

\* Seconds since the ticker last had its tick taken.
SincePing == IF tickerC THEN config.interval ELSE config.interval - ticker

\* The timer counts towards a failure, or has just done so.
Awaiting == timer # Off \/ timerC

TimersAligned ==
    /\ timer # Off => timer = config.timeout - SincePing
    /\ timerC => timer = Off /\ SincePing = config.timeout
    /\ tickerC => ticker = config.interval

\* What bounds the silence at each moment between two pings.
SilenceSoFar ==
    config.timeout < config.interval /\ Up =>
        silent <= pingFailure * config.interval + SincePing
                    + (IF Awaiting THEN config.interval ELSE 0)

PingInv ==
    /\ PingTypeOK
    /\ TimersAligned
    /\ Up => pingFailure < config.threshold
    /\ SilenceSoFar
    /\ config.timeout > config.interval => ~timerC /\ pingFailure = 0 /\ Up

(* checkConfig leaves no interval, timeout or threshold below one.         *)
LEMMA ConfigPositive ==
    ASSUME NEW c \in Configs
    PROVE  /\ c.interval \in Nat \ {0}
           /\ c.timeout \in Nat \ {0}
           /\ c.threshold \in Nat \ {0}
BY PingAssumption DEF Configs, checkConfig

(* Messages that travel on keep their type.                                *)
LEMMA OlderType == ASSUME NEW net \in Seq(Nat) PROVE Older(net) \in Seq(Nat)
<1>1. Len(net) \in Nat /\ \A i \in 1 .. Len(net) : net[i] + 1 \in Nat
  OBVIOUS
<1> QED BY <1>1 DEF Older

(* One more round of a product, and the products stay natural numbers.      *)
LEMMA Product ==
    ASSUME NEW a \in Nat, NEW b \in Nat
    PROVE  /\ (a + 1) * b = a * b + b
           /\ a * b \in Nat
OBVIOUS

(* PingInv holds when start has set up the goroutines.                     *)
LEMMA PingInvInit == Init => PingInv
<1> SUFFICES ASSUME Init PROVE PingInv
  OBVIOUS
<1>1. /\ config.interval \in Nat \ {0}
      /\ config.timeout \in Nat \ {0}
      /\ config.threshold \in Nat \ {0}
  BY ConfigPositive DEF Init
<1>2. pings \in Seq(Nat) /\ pongs \in Seq(Nat)
  BY DEF Init
<1>3. tickerC \in BOOLEAN /\ timerC \in BOOLEAN
  BY Zenon DEF Init
<1>4. PingTypeOK
  BY <1>1, <1>2, <1>3, PingAssumption DEF Init, PingTypeOK
<1> QED BY <1>1, <1>4 DEF Init, PingInv, TimersAligned, SilenceSoFar, SincePing, Awaiting, Up, Off

(* PingInv is kept by every step.                                          *)
LEMMA PingInvNext == PingInv /\ [Next]_vars => PingInv'
<1> SUFFICES ASSUME PingInv, [Next]_vars PROVE PingInv'
  OBVIOUS
<1> USE DEF Off
<1>0. /\ config.interval \in Nat \ {0}
      /\ config.timeout \in Nat \ {0}
      /\ config.threshold \in Nat \ {0}
      /\ MaxClock \in Nat
  BY ConfigPositive, PingAssumption DEF PingInv, PingTypeOK
<1>t. /\ ticker \in 1 .. config.interval
      /\ timer \in {Off} \union 1 .. config.timeout
      /\ pingFailure \in 0 .. config.threshold
      /\ silent \in 0 .. MaxClock
      /\ timer # Off => timer = config.timeout - SincePing
      /\ timerC => timer = Off /\ SincePing = config.timeout
      /\ tickerC => ticker = config.interval
  BY DEF PingInv, PingTypeOK, TimersAligned
<1>p. /\ pingFailure * config.interval \in Nat
      /\ (pingFailure + 1) * config.interval = pingFailure * config.interval + config.interval
  BY <1>0, <1>t, Product
<1>s. SincePing \in 0 .. config.interval
  BY <1>0, <1>t DEF SincePing
<1>1. CASE Tick
  <2>0. /\ tickerC' <=> ticker = 1
        /\ timerC' <=> timer = 1
        /\ ticker' = IF ticker = 1 THEN config.interval ELSE ticker - 1
        /\ timer' = IF timer \in {Off, 1} THEN Off ELSE timer - 1
        /\ ~tickerC /\ ~timerC
        /\ UNCHANGED <<config, pingFailure, state>>
        /\ silent' = Later(silent)
    BY <1>1, Zenon DEF Tick, params
  <2>1. PingTypeOK'
    BY <1>0, <1>1, OlderType, SMTT(30) DEF PingInv, PingTypeOK, Tick, Later, params
  <2>2. SincePing' = SincePing + 1
    BY <1>0, <1>t, <2>0 DEF SincePing
  <2>3. TimersAligned'
    BY <1>0, <1>t, <1>s, <2>0, <2>2 DEF TimersAligned
  <2>4. silent' <= silent + 1 /\ silent' \in Nat /\ (Awaiting' <=> Awaiting)
    BY <1>0, <1>t, <2>0 DEF Later, Awaiting
  <2>5. SilenceSoFar'
    BY <1>0, <1>t, <1>p, <1>s, <2>0, <2>2, <2>4 DEF PingInv, SilenceSoFar, Up
  <2>6. config.timeout > config.interval => ~timerC'
    BY <1>0, <1>t, <2>0 DEF SincePing
  <2> QED BY <2>0, <2>1, <2>3, <2>5, <2>6 DEF PingInv, Up
<1>2. CASE PingTimer
  <2>0. /\ tickerC /\ ~tickerC' /\ ~timerC'
        /\ timer' = config.timeout
        /\ UNCHANGED <<config, ticker, pingFailure, state, silent>>
    BY <1>2 DEF PingTimer, params, clocks
  <2>1. PingTypeOK'
    <3>1. pings' \in Seq(Nat)
      BY <1>2 DEF PingInv, PingTypeOK, PingTimer
    <3>2. tickerC' \in BOOLEAN /\ timerC' \in BOOLEAN
      BY <1>2, Zenon DEF PingTimer
    <3> QED BY <1>0, <1>2, <3>1, <3>2 DEF PingInv, PingTypeOK, PingTimer, params, clocks
  <2>2. SincePing' = 0 /\ SincePing = config.interval
    BY <1>0, <1>t, <2>0 DEF SincePing
  <2>3. TimersAligned'
    BY <1>0, <1>t, <2>0, <2>2 DEF TimersAligned
  <2>4. config.timeout < config.interval => ~Awaiting
    BY <1>0, <1>t, <2>2 DEF Awaiting
  <2>5. Awaiting'
    BY <1>0, <2>0 DEF Awaiting
  <2>6. SilenceSoFar'
    BY <1>0, <1>t, <1>p, <2>0, <2>2, <2>4, <2>5 DEF PingInv, SilenceSoFar, Up
  <2> QED BY <2>0, <2>1, <2>3, <2>6 DEF PingInv, Up
<1>3. CASE PingTimeout
  <2>0. /\ timerC /\ ~timerC' /\ Up
        /\ pingFailure' = pingFailure + 1
        /\ state' = IF pingFailure + 1 >= config.threshold THEN "disconnected" ELSE state
        /\ UNCHANGED <<config, ticker, tickerC, timer, silent>>
    BY <1>3 DEF PingTimeout, TooManyFailures, params, clocks
  <2>1. config.timeout <= config.interval /\ pingFailure < config.threshold
    BY <1>0, <2>0 DEF PingInv
  <2>2. PingTypeOK'
    <3>1. tickerC' \in BOOLEAN /\ timerC' \in BOOLEAN
      BY <1>3, Zenon DEF PingTimeout, PingInv, PingTypeOK
    <3> QED BY <1>0, <1>3, <2>0, <2>1, <3>1
            DEF PingInv, PingTypeOK, PingTimeout, params, messages, clocks
  <2>3. SincePing' = SincePing
    BY <2>0 DEF SincePing
  <2>4. TimersAligned'
    BY <1>t, <2>0, <2>3 DEF TimersAligned
  <2>5. Awaiting /\ ~Awaiting'
    BY <1>t, <2>0 DEF Awaiting
  <2>6. SilenceSoFar'
    BY <1>0, <1>t, <1>p, <1>s, <2>0, <2>3, <2>5 DEF PingInv, SilenceSoFar
  <2>7. Up' => pingFailure' < config.threshold'
    BY <1>0, <1>t, <2>0 DEF Up
  <2> QED BY <1>0, <2>0, <2>1, <2>2, <2>4, <2>6, <2>7 DEF PingInv
<1>4. CASE handlePing
  <2>1. PingTypeOK'
    BY <1>0, <1>4 DEF PingInv, PingTypeOK, handlePing, params, timers, clocks
  <2> QED BY <1>4, <2>1
          DEF PingInv, TimersAligned, SilenceSoFar, SincePing, Awaiting, Up, handlePing, params,
              timers, clocks
<1>5. CASE handlePong
  <2>1. PingTypeOK'
    <3>1. tickerC' \in BOOLEAN /\ timerC' \in BOOLEAN
      BY <1>5, Zenon DEF PingInv, PingTypeOK, handlePong, Answered
    <3>2. pongs' \in Seq(Nat)
      BY <1>5 DEF PingInv, PingTypeOK, handlePong
    <3>3. /\ timer' \in {Off} \union 1 .. config.timeout
          /\ pingFailure' \in 0 .. config.threshold
          /\ silent' \in 0 .. MaxClock
      BY <1>0, <1>5, <1>t, SMTT(30) DEF handlePong, Answered
    <3> QED BY <1>5, <3>1, <3>2, <3>3 DEF PingInv, PingTypeOK, handlePong, params
  <2>2. CASE state = "handshake"
    BY <1>5, <2>1, <2>2
    DEF PingInv, TimersAligned, SilenceSoFar, SincePing, Awaiting, Up, handlePong, params
  <2>3. CASE state # "handshake"
    <3>1. SincePing' = SincePing /\ SincePing \in Nat
      BY <1>0, <1>5, SMTT(30) DEF PingInv, PingTypeOK, SincePing, handlePong, params
    <3>2. TimersAligned'
      BY <1>5, <2>3 DEF PingInv, TimersAligned, handlePong, Answered, params
    <3>3. SilenceSoFar'
      BY <1>0, <1>5, <2>3, <3>1 DEF SilenceSoFar, Awaiting, handlePong, Answered, params
    <3> QED BY <1>0, <1>5, <2>1, <2>3, <3>2, <3>3 DEF PingInv, Up, handlePong, Answered, params
  <2> QED BY <2>2, <2>3
<1>6. CASE Verified
  <2>1. PingTypeOK'
    BY <1>6 DEF PingInv, PingTypeOK, Verified, params, timers, messages, clocks
  <2> QED BY <1>6, <2>1
          DEF PingInv, TimersAligned, SilenceSoFar, SincePing, Awaiting, Up, Verified, params,
              timers, clocks
<1>7. CASE PeerVerified
  <2>1. PingTypeOK'
    BY <1>7 DEF PingInv, PingTypeOK, PeerVerified, params, timers, messages, clocks
  <2> QED BY <1>7, <2>1
          DEF PingInv, TimersAligned, SilenceSoFar, SincePing, Awaiting, Up, PeerVerified, params,
              timers, clocks
<1>8. CASE PeerDies
  <2>1. PingTypeOK'
    BY <1>8 DEF PingInv, PingTypeOK, PeerDies, params, timers, clocks
  <2> QED BY <1>8, <2>1
          DEF PingInv, TimersAligned, SilenceSoFar, SincePing, Awaiting, Up, PeerDies, params,
              timers, clocks
<1>9. CASE UNCHANGED vars
  BY <1>9 DEF PingInv, PingTypeOK, TimersAligned, SilenceSoFar, SincePing, Awaiting, Up, vars,
              params, timers, messages, clocks
<1> QED BY <1>1, <1>2, <1>3, <1>4, <1>5, <1>6, <1>7, <1>8, <1>9 DEF Next, System

(* The types hold in every reachable state.                                *)
THEOREM PingTypeCorrect == Spec => []PingTypeOK
<1>1. PingInv => PingTypeOK
  BY DEF PingInv
<1> QED BY <1>1, PingInvInit, PingInvNext, PTL DEF Spec

(* The detector is sound in one direction for every configuration whose    *)
(* timeout is below its interval: whatever the network and the peer do,    *)
(* no connection stays up for longer than threshold intervals and one      *)
(* timeout without an answer (the goroutines of start, handlePong).        *)
THEOREM SilenceIsBounded == Spec => []SilenceBounded
<1>1. PingInv => SilenceBounded
  <2> SUFFICES ASSUME PingInv, config.timeout < config.interval, Up
               PROVE  silent <= config.threshold * config.interval + config.timeout
    BY DEF SilenceBounded
  <2>1. /\ config.interval \in Nat \ {0}
        /\ config.timeout \in Nat \ {0}
        /\ config.threshold \in Nat \ {0}
    BY ConfigPositive DEF PingInv, PingTypeOK
  <2>2. pingFailure \in Nat /\ pingFailure + 1 <= config.threshold /\ silent \in Nat
    BY <2>1 DEF PingInv, PingTypeOK
  <2>3. (pingFailure + 1) * config.interval <= config.threshold * config.interval
    BY <2>1, <2>2
  <2>4. silent <= (pingFailure + 1) * config.interval + config.timeout
    <3>1. /\ (pingFailure + 1) * config.interval = pingFailure * config.interval + config.interval
          /\ pingFailure * config.interval \in Nat
      BY <2>1, <2>2, Product, Zenon
    <3>2. SincePing \in Nat /\ SincePing <= config.interval
      BY <2>1 DEF PingInv, PingTypeOK, SincePing
    <3>3. Awaiting => SincePing <= config.timeout
      BY <2>1, <3>2 DEF PingInv, PingTypeOK, TimersAligned, Awaiting
    <3> QED BY <2>1, <2>2, <3>1, <3>2, <3>3 DEF PingInv, SilenceSoFar
  <2>5. /\ (pingFailure + 1) * config.interval \in Nat
        /\ config.threshold * config.interval \in Nat
    BY <2>1, <2>2
  <2> QED BY <2>1, <2>2, <2>3, <2>4, <2>5
<1> QED BY <1>1, PingInvInit, PingInvNext, PTL DEF Spec

(* The warning of checkConfig is exact: with a timeout above the interval  *)
(* no ping is ever counted as failed.                                      *)
THEOREM WarningIsExact == Spec => []NeverTimesOut
<1>1. PingInv => NeverTimesOut
  BY DEF PingInv, NeverTimesOut
<1> QED BY <1>1, PingInvInit, PingInvNext, PTL DEF Spec

-----------------------------------------------------------------------------
(* A live peer *)

\* What is on its way belongs to the last ping: it is no older than that ping
\* and will have been handled before the timer fires.
OnTheWay ==
    /\ \A i \in 1 .. Len(pings) : pings[i] = SincePing /\ SincePing <= latency
    /\ \A i \in 1 .. Len(pongs) : pongs[i] <= latency /\ SincePing <= pongs[i] + latency

\* A failure that has been counted belongs to the last ping.
Counted == IF Awaiting THEN 0 ELSE config.interval

\* Failures are counted for pings that were dropped in the handshake, and these
\* are an interval apart.
LiveInv ==
    Prompt /\ peer # "dead" =>
        /\ Handshaking => /\ elapsed <= deadline
                          /\ pingFailure * config.interval + SincePing <= elapsed + Counted
        /\ OnTheWay
        /\ Awaiting /\ pings = <<>> /\ pongs = <<>> => pingFailure * config.interval <= deadline
        /\ pingFailure > 0 => (pingFailure - 1) * config.interval <= deadline

GaveUp == ~Up => pingFailure >= config.threshold

(* Division: what fits a times into b.                                      *)
LEMMA Quotient ==
    ASSUME NEW a \in Nat, NEW b \in Nat, NEW c \in Nat \ {0}, a * c <= b
    PROVE  a <= b \div c
<1> DEFINE q == b \div c
<1>1. q \in Nat /\ b < (q + 1) * c
  OBVIOUS
<1> HIDE DEF q
<1>2. ASSUME a > q PROVE FALSE
  <2>1. PICK k \in Nat : a = (q + 1) + k
    <3>1. a - (q + 1) \in Nat
      BY <1>1, <1>2
    <3> QED BY <1>1, <3>1
  <2>2. a * c = (q + 1) * c + k * c
    BY <1>1, <2>1
  <2>3. k * c \in Nat /\ (q + 1) * c \in Nat /\ a * c \in Nat
    BY <1>1
  <2> QED BY <1>1, <2>2, <2>3
<1>3. a <= q
  BY <1>1, <1>2
<1> QED BY <1>3 DEF q

LEMMA GaveUpNext == PingInv /\ GaveUp /\ [Next]_vars => GaveUp'
<1> SUFFICES ASSUME PingInv, GaveUp, [Next]_vars PROVE GaveUp'
  OBVIOUS
<1>1. pingFailure \in Nat /\ config.threshold \in Nat
  BY ConfigPositive DEF PingInv, PingTypeOK
<1>2. CASE Tick \/ PingTimer \/ handlePing \/ PeerVerified \/ PeerDies \/ UNCHANGED vars
  <2>1. UNCHANGED <<config, pingFailure, state>>
    BY <1>2, Zenon DEF Tick, PingTimer, handlePing, PeerVerified, PeerDies, vars, params
  <2> QED BY <2>1 DEF GaveUp, Up
<1>3. CASE PingTimeout
  BY <1>1, <1>3 DEF PingTimeout, TooManyFailures, GaveUp, Up, params
<1>4. CASE handlePong
  BY <1>4 DEF handlePong, GaveUp, Up
<1>5. CASE Verified
  BY <1>5 DEF Verified, GaveUp, Up
<1> QED BY <1>2, <1>3, <1>4, <1>5, Zenon DEF Next, System

LEMMA LiveInvInit == Init => LiveInv
<1> SUFFICES ASSUME Init PROVE LiveInv
  OBVIOUS
<1>1. /\ config.interval \in Nat \ {0} /\ config.timeout \in Nat \ {0}
      /\ latency \in Nat /\ deadline \in Nat
  BY ConfigPositive, PingAssumption DEF Init
<1>2. SincePing = 0 /\ Awaiting /\ Counted = 0 /\ pingFailure * config.interval = 0
  BY <1>1 DEF Init, SincePing, Awaiting, Counted, Off
<1>3. OnTheWay
  BY <1>1, <1>2 DEF Init, OnTheWay
<1> QED BY <1>1, <1>2, <1>3 DEF Init, LiveInv

(* One second later everything on its way is a second older, and the last  *)
(* ping a second longer ago.                                               *)
LEMMA TickOnTheWay ==
    ASSUME latency \in Nat, SincePing \in Nat, SincePing' = SincePing + 1, OnTheWay, Tick,
           pings \in Seq(Nat), pongs \in Seq(Nat)
    PROVE  OnTheWay' /\ (pings' = <<>> <=> pings = <<>>) /\ (pongs' = <<>> <=> pongs = <<>>)
<1>1. /\ \A i \in 1 .. Len(pings) : pings[i] < latency
      /\ \A i \in 1 .. Len(pongs) : pongs[i] < latency
      /\ pings' = Older(pings) /\ pongs' = Older(pongs) /\ latency' = latency
  BY DEF Tick, params
<1>2. ASSUME NEW net \in Seq(Nat)
      PROVE  /\ Len(Older(net)) = Len(net) /\ (Older(net) = <<>> <=> net = <<>>)
             /\ \A i \in 1 .. Len(net) : net[i] \in Nat /\ Older(net)[i] = net[i] + 1
  <2>1. Older(net) \in Seq(Nat) /\ Len(net) \in Nat
    BY OlderType
  <2>2. Len(Older(net)) = Len(net)
    BY <2>1 DEF Older
  <2>3. \A i \in 1 .. Len(net) : net[i] \in Nat /\ Older(net)[i] = net[i] + 1
    BY DEF Older
  <2>4. Older(net) = <<>> <=> net = <<>>
    BY <2>1, <2>2
  <2> QED BY <2>2, <2>3, <2>4
<1>3. \A i \in 1 .. Len(pings') : pings'[i] = SincePing' /\ SincePing' <= latency
  BY <1>1, <1>2 DEF OnTheWay
<1>4. \A i \in 1 .. Len(pongs') : pongs'[i] <= latency /\ SincePing' <= pongs'[i] + latency
  BY <1>1, <1>2, SMTT(30) DEF OnTheWay
<1>5. (pings' = <<>> <=> pings = <<>>) /\ (pongs' = <<>> <=> pongs = <<>>)
  BY <1>1, <1>2
<1> QED BY <1>1, <1>3, <1>4, <1>5 DEF OnTheWay

(* Once the timer has fired, or the ticker is due, nothing is on its way.   *)
LEMMA NothingLeft ==
    ASSUME latency \in Nat, SincePing \in Nat, 2 * latency < SincePing, OnTheWay,
           pings \in Seq(Nat), pongs \in Seq(Nat)
    PROVE  pings = <<>> /\ pongs = <<>>
<1>1. ASSUME NEW i \in 1 .. Len(pings) PROVE FALSE
  BY <1>1 DEF OnTheWay
<1>2. ASSUME NEW i \in 1 .. Len(pongs) PROVE FALSE
  <2>1. pongs[i] \in Nat /\ pongs[i] <= latency /\ SincePing <= pongs[i] + latency
    BY SMTT(30) DEF OnTheWay
  <2> QED BY <2>1
<1>3. \A net \in Seq(Nat) : net # <<>> => 1 \in 1 .. Len(net)
  OBVIOUS
<1> QED BY <1>1, <1>2, <1>3

(* A message that is handled leaves the others as they are.                *)
LEMMA TailKept ==
    ASSUME NEW net \in Seq(Nat), net # <<>>
    PROVE  \A i \in 1 .. Len(Tail(net)) : i + 1 \in 1 .. Len(net) /\ Tail(net)[i] = net[i + 1]
OBVIOUS

LEMMA LiveInvNext == PingInv /\ LiveInv /\ [Next]_vars => LiveInv'
<1> SUFFICES ASSUME PingInv, LiveInv, [Next]_vars, Prompt', peer' # "dead" PROVE LiveInv'
  BY Zenon DEF LiveInv
<1> USE DEF Off
<1>0. /\ config.interval \in Nat \ {0} /\ config.timeout \in Nat \ {0}
      /\ latency \in Nat /\ deadline \in Nat /\ deadline <= MaxClock /\ MaxClock \in Nat
  BY ConfigPositive, PingAssumption DEF PingInv, PingTypeOK
<1>t. /\ ticker \in 1 .. config.interval
      /\ timer \in {Off} \union 1 .. config.timeout
      /\ pingFailure \in Nat /\ elapsed \in 0 .. MaxClock
      /\ pings \in Seq(Nat) /\ pongs \in Seq(Nat)
      /\ timer # Off => timer = config.timeout - SincePing
      /\ timerC => timer = Off /\ SincePing = config.timeout
      /\ tickerC => ticker = config.interval
  BY DEF PingInv, PingTypeOK, TimersAligned
<1>p. /\ pingFailure * config.interval \in Nat
      /\ (pingFailure + 1) * config.interval = pingFailure * config.interval + config.interval
  BY <1>0, <1>t, Product, ZenonT(60)
<1>s. SincePing \in 0 .. config.interval
  BY <1>0, <1>t DEF SincePing
<1>w. Counted \in {0, config.interval}
  BY DEF Counted
<1>c. UNCHANGED <<config, latency, deadline>> /\ peer # "dead"
  BY Zenon DEF Next, System, Tick, PingTimer, PingTimeout, handlePing, handlePong, Verified,
               PeerVerified, PeerDies, vars, params
<1>l. /\ 2 * latency < config.timeout /\ config.timeout < config.interval
      /\ Handshaking => /\ elapsed <= deadline
                        /\ pingFailure * config.interval + SincePing <= elapsed + Counted
      /\ OnTheWay
      /\ Awaiting /\ pings = <<>> /\ pongs = <<>> => pingFailure * config.interval <= deadline
      /\ pingFailure > 0 => (pingFailure - 1) * config.interval <= deadline
  BY <1>c DEF LiveInv, Prompt
<1>m. PICK m \in Nat : m = pingFailure * config.interval
  BY <1>p
<1>h. Handshaking => elapsed <= deadline /\ m + SincePing <= elapsed + Counted
  BY <1>l, <1>m
<1>i. /\ elapsed \in Int /\ deadline \in Int /\ SincePing \in Nat
      /\ config.interval \in Int /\ Counted \in Int
  BY <1>0, <1>t, <1>s, <1>w
<1>b. ASSUME Handshaking, Awaiting PROVE pingFailure * config.interval <= deadline
  <2>1. Counted = 0
    BY <1>b DEF Counted
  <2>2. m <= deadline
    BY <1>b, <1>h, <1>i, <2>1
  <2> QED BY <1>m, <2>2
<1>1. CASE Tick
  <2>0. /\ tickerC' <=> ticker = 1
        /\ timerC' <=> timer = 1
        /\ ticker' = IF ticker = 1 THEN config.interval ELSE ticker - 1
        /\ timer' = IF timer \in {Off, 1} THEN Off ELSE timer - 1
        /\ ~tickerC /\ ~timerC
        /\ UNCHANGED <<pingFailure, state, peer>>
        /\ elapsed' = Later(elapsed)
        /\ Handshaking => elapsed < deadline
    BY <1>1, Zenon DEF Tick
  <2>1. SincePing' = SincePing + 1
    BY <1>0, <1>t, <1>c, <2>0 DEF SincePing
  <2>2. (Awaiting' <=> Awaiting) /\ Counted' = Counted
    BY <1>0, <1>c, <1>t, <2>0 DEF Awaiting, Counted
  <2>3. OnTheWay' /\ (pings' = <<>> <=> pings = <<>>) /\ (pongs' = <<>> <=> pongs = <<>>)
    BY <1>0, <1>1, <1>t, <1>s, <1>l, <2>1, TickOnTheWay
  <2>4. Handshaking' => /\ elapsed' <= deadline
                        /\ pingFailure * config.interval + SincePing' <= elapsed' + Counted'
    <3>1. (Handshaking' <=> Handshaking)
      BY <2>0 DEF Handshaking
    <3>2. Handshaking => elapsed' = elapsed + 1 /\ elapsed' <= deadline
      BY <1>0, <1>t, <2>0 DEF Later
    <3>3. m + SincePing <= elapsed + Counted => m + SincePing' <= (elapsed + 1) + Counted'
      BY <1>i, <2>1, <2>2
    <3> QED BY <1>m, <1>h, <3>1, <3>2, <3>3, Zenon
  <2> QED BY <1>c, <1>l, <2>0, <2>2, <2>3, <2>4 DEF LiveInv
<1>2. CASE PingTimer
  <2>0. /\ tickerC /\ ~tickerC' /\ ~timerC' /\ timer' = config.timeout
        /\ pings' = Append(pings, 0)
        /\ UNCHANGED <<ticker, pingFailure, state, peer, pongs, elapsed>>
    BY <1>2, <1>c DEF PingTimer, clocks
  <2>1. SincePing' = 0 /\ SincePing = config.interval
    BY <1>0, <1>t, <1>c, <2>0 DEF SincePing
  <2>2. ~Awaiting /\ Awaiting' /\ Counted = config.interval /\ Counted' = 0
    BY <1>0, <1>t, <1>l, <2>0, <2>1, SMTT(30) DEF Awaiting, Counted
  <2>3. pings = <<>> /\ pongs = <<>>
    BY <1>0, <1>t, <1>l, <2>1, NothingLeft
  <2>4. pings' = <<0>> /\ pongs' = <<>>
    BY <2>0, <2>3
  <2>5. OnTheWay'
    BY <1>0, <1>c, <2>1, <2>4 DEF OnTheWay
  <2>6. Handshaking' => /\ elapsed' <= deadline
                        /\ pingFailure * config.interval + SincePing' <= elapsed' + Counted'
    <3>1. (Handshaking' <=> Handshaking)
      BY <2>0 DEF Handshaking
    <3>2. m + SincePing <= elapsed + Counted => m + SincePing' <= elapsed + Counted'
      BY <1>i, <2>1, <2>2
    <3>3. elapsed' = elapsed
      BY <2>0
    <3> QED BY <1>m, <1>h, <3>1, <3>2, <3>3, Zenon
  <2>7. pings' # <<>>
    BY <2>4
  <2> QED BY <1>c, <1>l, <2>0, <2>2, <2>5, <2>6, <2>7 DEF LiveInv
<1>3. CASE PingTimeout
  <2>0. /\ timerC /\ ~timerC' /\ pingFailure' = pingFailure + 1
        /\ UNCHANGED <<ticker, tickerC, timer, peer, pings, pongs, elapsed>>
    BY <1>3 DEF PingTimeout, messages, clocks
  <2>1. SincePing' = SincePing /\ SincePing = config.timeout
    BY <1>c, <1>t, <2>0 DEF SincePing
  <2>2. Awaiting /\ ~Awaiting' /\ Counted = 0 /\ Counted' = config.interval
    BY <1>c, <1>t, <2>0 DEF Awaiting, Counted
  <2>3. pings = <<>> /\ pongs = <<>>
    BY <1>0, <1>t, <1>l, <2>1, NothingLeft
  <2>4. (pingFailure' - 1) * config.interval <= deadline
    <3>1. pingFailure' - 1 = pingFailure
      BY <1>t, <2>0
    <3> QED BY <1>l, <2>2, <2>3, <3>1
  <2>5. OnTheWay'
    BY <1>c, <1>l, <2>0, <2>1 DEF OnTheWay
  <2>6. Handshaking' => /\ elapsed' <= deadline
                        /\ pingFailure' * config.interval + SincePing' <= elapsed' + Counted'
    <3>1. Handshaking' => Handshaking
      BY <1>3, <1>c DEF Handshaking, PingTimeout
    <3>2. pingFailure' * config.interval = m + config.interval /\ elapsed' = elapsed
      BY <1>p, <1>m, <2>0
    <3>3. m + SincePing <= elapsed + Counted
             => (m + config.interval) + SincePing' <= elapsed + Counted'
      BY <1>i, <2>1, <2>2
    <3> QED BY <1>h, <3>1, <3>2, <3>3, Zenon
  <2> QED BY <1>c, <2>2, <2>4, <2>5, <2>6 DEF LiveInv
<1>4. CASE handlePing
  <2>0. /\ pings # <<>> /\ pings' = Tail(pings)
        /\ pongs' = IF peer = "handshake" THEN pongs ELSE Append(pongs, 0)
        /\ UNCHANGED <<ticker, tickerC, timer, timerC, pingFailure, state, peer, elapsed>>
    BY <1>4 DEF handlePing, timers, clocks
  <2>1. SincePing' = SincePing /\ (Awaiting' <=> Awaiting) /\ Counted' = Counted /\ (Handshaking' <=> Handshaking)
    BY <1>c, <2>0 DEF SincePing, Awaiting, Counted, Handshaking
  <2>2. SincePing <= latency
    <3>1. 1 \in 1 .. Len(pings)
      BY <1>t, <2>0
    <3> QED BY <1>l, <3>1 DEF OnTheWay
  <2>3. OnTheWay'
    <3>1. \A i \in 1 .. Len(pings') : pings'[i] = SincePing
      BY <1>t, <1>l, <2>0, TailKept DEF OnTheWay
    <3>2. \A i \in 1 .. Len(pongs') : pongs'[i] <= latency /\ SincePing <= pongs'[i] + latency
      <4>1. CASE pongs' = pongs
        BY <1>l, <4>1 DEF OnTheWay
      <4>2. CASE pongs' = Append(pongs, 0)
        <5>1. \A i \in 1 .. Len(pongs') : pongs'[i] = 0 \/ (i \in 1 .. Len(pongs) /\ pongs'[i] = pongs[i])
          BY <1>t, <4>2
        <5> QED BY <1>0, <1>s, <1>l, <2>2, <5>1 DEF OnTheWay
      <4> QED BY <2>0, <4>1, <4>2
    <3> QED BY <1>c, <2>1, <2>2, <3>1, <3>2 DEF OnTheWay
  <2>4. Awaiting' /\ pings' = <<>> /\ pongs' = <<>> => pingFailure * config.interval <= deadline
    <3>1. CASE peer = "handshake"
      <4>1. Handshaking
        BY <3>1 DEF Handshaking
      <4> QED BY <1>b, <2>1, <4>1, Zenon
    <3>2. CASE peer # "handshake"
      <4>1. \A net \in Seq(Nat) : Append(net, 0) # <<>>
        OBVIOUS
      <4> QED BY <1>t, <2>0, <3>2, <4>1, Zenon
    <3> QED BY <3>1, <3>2
  <2> QED BY <1>c, <1>l, <2>0, <2>1, <2>3, <2>4, Zenon DEF LiveInv
<1>5. CASE handlePong
  <2>0. /\ pongs # <<>> /\ pongs' = Tail(pongs)
        /\ UNCHANGED <<ticker, tickerC, pings, state, peer, elapsed>>
    BY <1>5 DEF handlePong
  <2>1. SincePing' = SincePing /\ (Handshaking' <=> Handshaking)
    BY <1>c, <2>0 DEF SincePing, Handshaking
  <2>2. OnTheWay'
    <3>1. \A i \in 1 .. Len(pongs') : pongs'[i] <= latency /\ SincePing <= pongs'[i] + latency
      BY <1>t, <1>l, <2>0, TailKept DEF OnTheWay
    <3> QED BY <1>c, <1>l, <2>0, <2>1, <3>1 DEF OnTheWay
  <2>3. CASE state = "handshake"
    <3>1. UNCHANGED <<timer, timerC, pingFailure>>
      BY <1>5, <2>3 DEF handlePong
    <3>2. (Awaiting' <=> Awaiting) /\ Counted' = Counted
      BY <1>c, <3>1 DEF Awaiting, Counted
    <3>3. Handshaking
      BY <1>c, <2>3 DEF Handshaking, PingInv, PingTypeOK
    <3>4. Awaiting => pingFailure * config.interval <= deadline
      BY <1>b, <3>3, Zenon
    <3> QED BY <1>c, <1>l, <2>0, <2>1, <2>2, <3>1, <3>2, <3>4 DEF LiveInv
  <2>4. CASE state # "handshake"
    <3>1. timer' = Off /\ ~timerC' /\ pingFailure' = 0
      BY <1>5, <2>4 DEF handlePong, Answered
    <3>2. ~Awaiting' /\ Counted' = config.interval
      BY <1>c, <3>1 DEF Awaiting, Counted
    <3>3. Handshaking' => /\ elapsed' <= deadline
                          /\ pingFailure' * config.interval + SincePing' <= elapsed' + Counted'
      BY <1>0, <1>t, <1>s, <1>l, <2>0, <2>1, <3>1, <3>2, SMTT(30)
    <3> QED BY <1>c, <2>2, <3>1, <3>2, <3>3 DEF LiveInv
  <2> QED BY <2>3, <2>4
<1>6. CASE Verified \/ PeerVerified \/ UNCHANGED vars
  <2>0. UNCHANGED <<ticker, tickerC, timer, timerC, pingFailure, pings, pongs, elapsed>>
    BY <1>6, Zenon DEF Verified, PeerVerified, vars, timers, messages, clocks
  <2>1. SincePing' = SincePing /\ (Awaiting' <=> Awaiting) /\ Counted' = Counted
    BY <1>c, <2>0 DEF SincePing, Awaiting, Counted
  <2>2. Handshaking' => Handshaking
    BY <1>6 DEF Verified, PeerVerified, Handshaking, vars
  <2>3. OnTheWay'
    BY <1>c, <1>l, <2>0, <2>1 DEF OnTheWay
  <2> QED BY <1>c, <1>l, <2>0, <2>1, <2>2, <2>3 DEF LiveInv
<1>7. CASE PeerDies
  BY <1>7 DEF PeerDies
<1> QED BY <1>1, <1>2, <1>3, <1>4, <1>5, <1>6, <1>7, Zenon DEF Next, System

(* A peer that answers in time is never dropped, for every interval,       *)
(* timeout and threshold, every latency below half the timeout and every   *)
(* handshake of less than threshold - 1 intervals (the goroutines of start *)
(* and queueInboundMessage, which drops pings and answers in the           *)
(* handshake).                                                             *)
THEOREM LivePeerIsKept == Spec => []LivePeerKept
<1>1. PingInv /\ LiveInv /\ GaveUp => LivePeerKept
  <2> SUFFICES ASSUME PingInv, LiveInv, GaveUp, Prompt, peer # "dead", ~Up,
                      (deadline \div config.interval) + 1 < config.threshold
               PROVE  FALSE
    BY Zenon DEF LivePeerKept
  <2>1. /\ config.interval \in Nat \ {0} /\ config.threshold \in Nat \ {0}
        /\ deadline \in Nat /\ pingFailure \in Nat
    BY ConfigPositive, PingAssumption DEF PingInv, PingTypeOK
  <2>2. pingFailure >= config.threshold
    BY DEF GaveUp
  <2>3. pingFailure - 1 \in Nat /\ (pingFailure - 1) * config.interval <= deadline
    BY <2>1, <2>2 DEF LiveInv
  <2>4. pingFailure - 1 <= deadline \div config.interval
    BY <2>1, <2>3, Quotient
  <2>5. deadline \div config.interval \in Int
    BY <2>1
  <2> QED BY <2>1, <2>2, <2>4, <2>5
<1>2. Init => GaveUp
  BY DEF Init, GaveUp, Up
<1> QED BY <1>1, <1>2, PingInvInit, PingInvNext, LiveInvInit, LiveInvNext, GaveUpNext, PTL DEF Spec
=============================================================================

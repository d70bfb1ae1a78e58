---------------------------- MODULE PingMonitor -----------------------------
(***************************************************************************)
(* The failure detector of one end of a connection: the ping ticker, the   *)
(* timer of the answer and the count of pings without one, together with   *)
(* the handshake that makes either end drop pings and answers              *)
(* (Cluster/remoteNode.go).                                                *)
(*                                                                         *)
(* Time passes in steps of a second.  A goroutine takes what is in its     *)
(* channel before the clock moves, a message travels for at most latency   *)
(* seconds in each direction while the peer is alive, and each end has     *)
(* handled the other's VERIFY after deadline seconds.  A peer may stop     *)
(* answering at any moment without the connection being closed.            *)
(***************************************************************************)
EXTENDS Integers, Sequences

CONSTANTS Intervals, Timeouts, Thresholds,   \* values of the user's configuration
          Latencies, Deadlines,              \* see above
          MaxClock                           \* bound on the two clocks below

ASSUME PingAssumption ==
    /\ Intervals \subseteq Int /\ Timeouts \subseteq Int
    /\ Thresholds \subseteq Nat     \* a negative one drops at the first timeout
    /\ Latencies \subseteq Nat /\ Deadlines \subseteq Nat
    /\ MaxClock \in Nat /\ \A d \in Deadlines : d <= MaxClock

VARIABLES config, latency, deadline,   \* chosen at the start
          ticker,        \* seconds to the next tick
          tickerC,       \* a tick is in pingTimer.C
          timer,         \* seconds until pingTimeout fires, Off if it is stopped
          timerC,        \* its value is in pingTimeout.C
          pingFailure,
          state,         \* of this end
          peer,          \* state of the other end
          pings, pongs,  \* messages on the way: the seconds they have travelled
          elapsed,       \* clock: seconds since the start
          silent         \* clock: seconds since the last answer, or the start

params == <<config, latency, deadline>>
timers == <<ticker, tickerC, timer, timerC>>
messages == <<pings, pongs>>
clocks == <<elapsed, silent>>
vars == <<params, timers, pingFailure, state, peer, messages, clocks>>

Off == -1

checkConfig(interval, timeout, threshold) ==
    [interval  |-> IF interval < 1 THEN 5 ELSE interval,
     timeout   |-> IF timeout < 1 THEN 3 ELSE timeout,
     threshold |-> IF threshold = 0 THEN 5 ELSE threshold]

Configs == {checkConfig(i, t, n) : i \in Intervals, t \in Timeouts, n \in Thresholds}

PingTypeOK ==
    /\ config \in Configs /\ latency \in Latencies /\ deadline \in Deadlines
    /\ ticker \in 1 .. config.interval
    /\ timer \in {Off} \union 1 .. config.timeout
    /\ tickerC \in BOOLEAN /\ timerC \in BOOLEAN
    /\ pingFailure \in 0 .. config.threshold
    /\ state \in {"handshake", "connected", "disconnected"}
    /\ peer \in {"handshake", "connected", "dead"}
    /\ pings \in Seq(Nat) /\ pongs \in Seq(Nat)
    /\ elapsed \in 0 .. MaxClock /\ silent \in 0 .. MaxClock

Up == state # "disconnected"

-----------------------------------------------------------------------------
(* Time *)

Older(net) == [i \in 1 .. Len(net) |-> net[i] + 1]
Later(clock) == IF clock < MaxClock THEN clock + 1 ELSE clock

\* A peer that has died may have left this end without its VERIFY.
Handshaking == peer = "handshake" \/ (state = "handshake" /\ peer = "connected")

Tick ==
    /\ Up
    /\ ~tickerC /\ ~timerC
    /\ \A i \in 1 .. Len(pings) : pings[i] < latency
    /\ \A i \in 1 .. Len(pongs) : pongs[i] < latency
    /\ Handshaking => elapsed < deadline
    /\ tickerC' = (ticker = 1)
    /\ ticker' = IF ticker = 1 THEN config.interval ELSE ticker - 1
    /\ timerC' = (timer = 1)
    /\ timer' = IF timer \in {Off, 1} THEN Off ELSE timer - 1
    /\ pings' = Older(pings) /\ pongs' = Older(pongs)
    /\ elapsed' = Later(elapsed) /\ silent' = Later(silent)
    /\ UNCHANGED <<params, pingFailure, state, peer>>

-----------------------------------------------------------------------------
(* The goroutines of start *)

\* The timer is not started again with the next ping.
MutPingTimer ==
    /\ Up
    /\ tickerC
    /\ tickerC' = FALSE
    /\ pings' = IF peer = "dead" THEN pings ELSE Append(pings, 0)
    /\ UNCHANGED <<params, ticker, timer, timerC, pingFailure, state, peer, pongs, clocks>>

\* A tick: stop, drain and restart the timer, send a ping.  A dead peer takes
\* nothing from the network.
PingTimer ==
    /\ Up
    /\ tickerC
    /\ tickerC' = FALSE
    /\ timer' = config.timeout /\ timerC' = FALSE
    /\ pings' = IF peer = "dead" THEN pings ELSE Append(pings, 0)
    /\ UNCHANGED <<params, ticker, pingFailure, state, peer, pongs, clocks>>

\* One failure too many is tolerated.
MutTooManyFailures(n) == n > config.threshold

TooManyFailures(n) == n >= config.threshold

PingTimeout ==
    /\ Up
    /\ timerC
    /\ timerC' = FALSE
    /\ pingFailure' = pingFailure + 1
    /\ state' = IF TooManyFailures(pingFailure + 1) THEN "disconnected" ELSE state
    /\ UNCHANGED <<params, ticker, tickerC, timer, peer, messages, clocks>>

-----------------------------------------------------------------------------
(* The messages.  queueInboundMessage drops pings and answers in the       *)
(* handshake.                                                              *)

handlePing ==
    /\ peer # "dead"
    /\ pings # <<>>
    /\ pings' = Tail(pings)
    /\ pongs' = IF peer = "handshake" THEN pongs ELSE Append(pongs, 0)
    /\ UNCHANGED <<params, timers, pingFailure, state, peer, clocks>>

\* The answer changes nothing here.
MutAnswered ==
    /\ silent' = 0
    /\ UNCHANGED <<timer, timerC, pingFailure>>

Answered ==
    /\ timer' = Off /\ timerC' = FALSE
    /\ pingFailure' = 0
    /\ silent' = 0

handlePong ==
    /\ Up
    /\ pongs # <<>>
    /\ pongs' = Tail(pongs)
    /\ IF state = "handshake" THEN UNCHANGED <<timer, timerC, pingFailure, silent>>
                              ELSE Answered
    /\ UNCHANGED <<params, ticker, tickerC, state, peer, pings, elapsed>>

\* Either end handles the other's VERIFY.
Verified ==
    /\ state = "handshake"
    /\ state' = "connected"
    /\ UNCHANGED <<params, timers, pingFailure, peer, messages, clocks>>

PeerVerified ==
    /\ peer = "handshake"
    /\ peer' = "connected"
    /\ UNCHANGED <<params, timers, pingFailure, state, messages, clocks>>

\* The peer crashes, hangs or is cut off.
PeerDies ==
    /\ peer # "dead"
    /\ peer' = "dead"
    /\ pings' = <<>>
    /\ UNCHANGED <<params, timers, pingFailure, state, pongs, clocks>>

-----------------------------------------------------------------------------
\* start: the ticker, the timer, the first ping.
Init ==
    /\ config \in Configs /\ latency \in Latencies /\ deadline \in Deadlines
    /\ ticker = config.interval /\ tickerC = FALSE
    /\ timer = config.timeout /\ timerC = FALSE
    /\ pingFailure = 0
    /\ state = "handshake" /\ peer = "handshake"
    /\ pings = <<0>> /\ pongs = <<>>
    /\ elapsed = 0 /\ silent = 0

System == Tick \/ PingTimer \/ PingTimeout \/ handlePing \/ handlePong \/ Verified \/ PeerVerified

Next == System \/ PeerDies

Spec == Init /\ [][Next]_vars

\* Time passes and the goroutines run; the peer need not die.  VERIFY needs no
\* fairness: Tick waits for it.
FairSpec ==
    /\ Spec
    /\ WF_vars(Tick) /\ WF_vars(PingTimer) /\ WF_vars(PingTimeout)
    /\ WF_vars(handlePing) /\ WF_vars(handlePong)

-----------------------------------------------------------------------------
(* Properties *)

\* Answers are faster than the timer, and the timer than the next ping.
Prompt == 2 * latency < config.timeout /\ config.timeout < config.interval

(* A live peer is never dropped: as long as an answer takes less than      *)
(* PingTimeout, and the handshake lasts less than threshold - 1 intervals  *)
(* (the pings sent during it are dropped at the other end or their answers *)
(* here), the connection survives.  The first ping is sent before VERIFY:  *)
(* a threshold of one leaves no handshake that is short enough.            *)
LivePeerKept ==
    Prompt /\ (deadline \div config.interval) + 1 < config.threshold /\ peer # "dead" => Up

(* A silent peer is noticed in time: while the connection is up, the last  *)
(* answer is no older than threshold intervals and a timeout, given that   *)
(* the timer fires before the ticker restarts it.                          *)
SilenceBounded ==
    config.timeout < config.interval /\ Up =>
        silent <= config.threshold * config.interval + config.timeout

(* checkConfig warns "ping timeout is greater than ping interval, pings    *)
(* will NEVER timeout": the ticker restarts the timer before it can fire,  *)
(* whoever answers or not.                                                 *)
NeverTimesOut == config.timeout > config.interval => pingFailure = 0 /\ Up

(* A dead peer is dropped in the end.                                      *)
DeadPeerDropped == peer = "dead" /\ config.timeout < config.interval ~> ~Up
=============================================================================

------------------------------- MODULE Netwatch -------------------------------
(***************************************************************************)
(* The connectivity watcher that runs beside the engine.  One iteration    *)
(* opens a connection, waits for a lookup no longer than the deadline and  *)
(* writes a line when the state changed or the heartbeat is due.  The      *)
(* lookup runs on a thread of its own and outlives the iteration; the      *)
(* watcher itself may be frozen between two.  Time is in seconds.          *)
(***************************************************************************)
EXTENDS Integers, Sequences

CONSTANTS
    Deadline,       \* timeout, of each probe
    AliveBound,     \* the seconds within which a live resolver answers
    Heartbeats,     \* the heartbeats an operator may ask for
    Answering,      \* how long a lookup may take
    Freezes,        \* how long the watcher may stand still before a sample
    MaxSamples,     \* bound: the iterations of a run
    MaxLines        \* the size of the log at which the watcher stops

ASSUME NetwatchAssumption ==
    Deadline \in Nat /\ AliveBound \in Nat /\ Heartbeats \subseteq Nat
    /\ Answering \subseteq Nat /\ Freezes \subseteq Nat

VARIABLES
    heartbeat,      \* as asked for
    watcher,        \* [up, clock, last, beat, said]: the loop and its local variables
    lookup,         \* [from, ends]: the lookup in flight, or the last one
    netlog,         \* the lines written: [kind, at, state]
    trail           \* what the iterations measured: [at, ends, state, lookup]

netwatchVars == <<heartbeat, watcher, lookup, netlog, trail>>

(***************************************************************************)
(* One sample.                                                             *)
(***************************************************************************)

Earlier(s, t) == IF s < t THEN s ELSE t

\* _DnsProbe.sample: a lookup still out is waited for again; one that ended while nobody
\* waited is discarded and asked anew.
Asked(at, takes) == IF lookup.ends <= at THEN [from |-> at, ends |-> at + takes] ELSE lookup
Answer(asking, at) ==
    IF asking.ends > at + Deadline THEN "pending"
    ELSE IF asking.ends - asking.from < AliveBound THEN "alive" ELSE "silent"

\* _describe.  Reachable without a connection: new ones are being refused.
Describe(tcp, dns, icmp) ==
    IF ~tcp /\ icmp = "ok" THEN "connect_blocked"
    ELSE IF tcp THEN CASE dns = "pending" -> "dns_pending"
                       [] dns = "alive" -> "ok"
                       [] dns = "silent" -> "dns_only"
    ELSE IF dns = "alive" THEN "transport_only" ELSE "blocked"

NetLine(kind, at, state) == [kind |-> kind, at |-> at, state |-> state]
LogFull(lines) == Len(lines) >= MaxLines

\* One iteration: a connection that fails may take its whole deadline, and only then is the
\* host pinged.  A hole longer than two heartbeats is written down and forces the next line.
Iterate ==
    \E frozen \in Freezes, tcp \in BOOLEAN, refused \in BOOLEAN, takes \in Answering,
       icmp \in {"none", "ok"} :
    LET at == watcher.clock + frozen
        hole == at - watcher.last > 2 * heartbeat
        said == IF hole THEN "" ELSE watcher.said
        connected == at + (IF tcp \/ refused THEN 0 ELSE Deadline)
        asking == Asked(connected, takes)
        state == Describe(tcp, Answer(asking, connected), icmp)
        writes == state # said \/ at >= watcher.beat
        ends == Earlier(asking.ends, connected + Deadline)
                + (IF tcp \/ icmp = "ok" THEN 0 ELSE Deadline)
        lines == netlog \o (IF hole THEN <<NetLine("gap", at, "")>> ELSE <<>>)
                        \o (IF writes THEN <<NetLine("state", at, state)>> ELSE <<>>)
    IN
    /\ watcher.up /\ Len(trail) < MaxSamples
    /\ tcp => icmp = "none" /\ ~refused     \* none: no answer, or the host was not asked
    /\ watcher' = [up |-> ~LogFull(lines), clock |-> ends + 1, last |-> at,
                   beat |-> IF writes THEN at + heartbeat ELSE watcher.beat,
                   said |-> IF writes THEN state ELSE said]
    /\ lookup' = asking
    /\ trail' = Append(trail, [at |-> at, ends |-> ends, state |-> state, lookup |-> asking])
    /\ netlog' = IF LogFull(lines) THEN Append(lines, NetLine("stopped", ends, "")) ELSE lines
    /\ UNCHANGED heartbeat

\* The operator stops it.
Interrupted ==
    /\ watcher.up
    /\ watcher' = [watcher EXCEPT !.up = FALSE]
    /\ netlog' = Append(netlog, NetLine("stopped", watcher.clock, ""))
    /\ UNCHANGED <<heartbeat, lookup, trail>>

NetwatchInit ==
    /\ heartbeat \in Heartbeats
    /\ watcher = [up |-> TRUE, clock |-> 0, last |-> 0, beat |-> 0, said |-> ""]
    /\ lookup = [from |-> 0, ends |-> 0]
    /\ netlog = <<>> /\ trail = <<>>

NetwatchNext == Iterate \/ Interrupted
NetwatchSpec == NetwatchInit /\ [][NetwatchNext]_netwatchVars

(***************************************************************************)
(* Properties.                                                             *)
(***************************************************************************)

\* The longest an iteration takes when nothing freezes.
Unfrozen == 3 * Deadline + 1
Indices(s) == 1..Len(s)
Holes == {i \in 2..Len(trail) : trail[i].at - trail[i - 1].at > 2 * heartbeat}

\* Whoever reads the log reads the samples: the last line of a state at or before a sample
\* names the state it measured, so no stretch of the log reads calm that was not
\* (netwatch.py watch).
LogReplaysTheSamples == \A i \in Indices(trail) : \E l \in Indices(netlog) :
    /\ netlog[l].kind = "state" /\ netlog[l].at <= trail[i].at
    /\ netlog[l].state = trail[i].state
    /\ \A later \in (l + 1)..Len(netlog) :
        netlog[later].kind = "state" => netlog[later].at > trail[i].at

\* A stretch nobody measured is written down before anything measured after it, and where
\* the heartbeat is long enough nothing else is called one (netwatch.py watch).
HolesAreMarked ==
    /\ \A i \in Holes : \E l \in Indices(netlog) :
        /\ netlog[l].kind = "gap" /\ netlog[l].at = trail[i].at
        /\ \E next \in (l + 1)..Len(netlog) :
            netlog[next].kind = "state" /\ netlog[next].at = trail[i].at
    /\ 2 * heartbeat >= Unfrozen => \A l \in Indices(netlog) :
        netlog[l].kind = "gap" => \E i \in Indices(trail) :
            /\ trail[i].at = netlog[l].at
            /\ trail[i].at > IF i = 1 THEN 0 ELSE trail[i - 1].ends + 1

\* The resolver is called well only for an answer that came while this very sample waited
\* for it, and called silent only after the time a live one needs (netwatch.py _DnsProbe).
VerdictsAreFresh == \A i \in Indices(trail) :
    LET asking == trail[i].lookup IN
    /\ trail[i].state \in {"ok", "transport_only"} =>
        asking.ends \in trail[i].at..trail[i].ends /\ asking.ends - asking.from < AliveBound
    /\ trail[i].state = "dns_only" => trail[i].ends - asking.from >= AliveBound
    /\ trail[i].ends - trail[i].at < Unfrozen

OutagesAreRecorded == LogReplaysTheSamples /\ HolesAreMarked /\ VerdictsAreFresh
=============================================================================

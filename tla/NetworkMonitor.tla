----------------------------- MODULE NetworkMonitor -----------------------------
(* The monitor of SSH logins (network-monitor.js, server.js): a pass reads the  *)
(* part of sshd's journal since the last pass, less an overlap, beside two      *)
(* inventories of sockets it waits for, and folds it into a store of known      *)
(* peers, events and flags. Reading may fail, the write may fail, the server    *)
(* may restart. Two equal journal lines are one event, as their ids are. What   *)
(* is shown of sockets is computed anew by each pass and left out.              *)
EXTENDS Integers, FiniteSets

CONSTANTS
  Peers,     \* remote addresses
  Overlap,   \* overlapMs of journalSinceArgument, in ticks
  Delay,     \* most time from the reading of the journal to the end of the pass
  MaxEvents, \* MAX_SSH_EVENTS
  MaxKnown,  \* MAX_KNOWN_PEERS
  MaxTime,   \* bound: the clock
  MaxLogins, \* bound: lines of the journal
  MaxFaults  \* bound: failed readings, failed writes and restarts

VARIABLES
  journal,   \* sshd's journal: [at, kind, peer]
  now,       \* the clock
  store,     \* networkMonitorStore
  file,      \* the store on disk
  scan,      \* the pass of monitorNetworkConnections
  left,      \* what the bounds still allow
  trusted    \* history: peers that a bootstrap pass took as known

vars == <<journal, now, store, file, scan, left, trusted>>

Never == 0 - 1
EmptyStore == [last |-> Never, known |-> {}, events |-> {}, failures |-> [p \in Peers |-> 0],
               newPeers |-> {}]
NoScan == [on |-> FALSE, bootstrap |-> FALSE, since |-> 0, readAt |-> Never, ssh |-> "pending",
           events |-> {}]
Fault == left > 0 /\ left' = left - 1

\* known: [peer, at], the latest MaxKnown of them.
KnownPeers(known) == {k.peer : k \in known}
Known(known, accepted) ==
  {[peer |-> p, at |-> CHOOSE t \in 0..MaxTime :
      /\ \E k \in known \union accepted : k.peer = p /\ k.at = t
      /\ \A k \in known \union accepted : k.peer = p => k.at <= t]
   : p \in KnownPeers(known \union accepted)}
Accepted(events) == {[peer |-> e.peer, at |-> e.at] : e \in {f \in events : f.kind = "accepted"}}
Failed(events, p) == {e \in events : e.kind = "failed" /\ e.peer = p}

\* The `limit` latest of a set; which of several equally late ones is left open.
Latest(all, limit) ==
  {kept \in SUBSET all :
     /\ Cardinality(kept) = (IF Cardinality(all) > limit THEN limit ELSE Cardinality(all))
     /\ \A k \in kept, d \in all \ kept : k.at >= d.at}

-----------------------------------------------------------------------------

\* reconcileNetworkMonitor. The peers of a bootstrap pass are known before its events
\* are looked at.
NewEvents == scan.events \ store.events
Before == IF scan.bootstrap THEN Known(store.known, Accepted(scan.events)) ELSE store.known

Reconciled(events, known) ==
  [last |-> IF scan.ssh = "ok" THEN now ELSE store.last,
   known |-> known, events |-> events,
   failures |-> [p \in Peers |-> store.failures[p] + Cardinality(Failed(NewEvents, p))],
   newPeers |-> IF scan.bootstrap THEN store.newPeers
                ELSE store.newPeers \union (KnownPeers(Accepted(NewEvents)) \ KnownPeers(Before))]

\* monitorNetworkConnections: one pass at a time.
PassBegins ==
  /\ ~scan.on
  /\ scan' = [NoScan EXCEPT !.on = TRUE, !.bootstrap = (store.last = Never),
                            !.since = IF store.last = Never THEN 0 ELSE store.last - Overlap]
  /\ UNCHANGED <<journal, now, store, file, left, trusted>>

ReadsJournal ==
  /\ scan.on /\ scan.ssh = "pending"
  /\ \/ /\ scan' = [scan EXCEPT !.ssh = "ok", !.readAt = now,
                               !.events = {e \in journal : e.at >= scan.since}]
        /\ UNCHANGED left
     \/ scan' = [scan EXCEPT !.ssh = "error"] /\ Fault
  /\ UNCHANGED <<journal, now, store, file, trusted>>

\* persistNetworkMonitor: the store in memory changes only when the write returns.
PassEnds(fails, replaced) ==
  /\ scan.ssh # "pending"
  /\ \E events \in Latest(store.events \union scan.events, MaxEvents),
        known \in Latest(Known(Before, Accepted(NewEvents)), MaxKnown) :
       /\ store' = IF fails THEN store ELSE Reconciled(events, known)
       /\ file' = IF fails => replaced THEN Reconciled(events, known) ELSE file
  /\ trusted' = IF scan.bootstrap THEN trusted \union KnownPeers(Accepted(scan.events)) ELSE trusted
  /\ IF fails THEN Fault ELSE UNCHANGED left
  /\ scan' = NoScan
  /\ UNCHANGED <<journal, now>>

\* ensureNetworkMonitor
Restart ==
  /\ Fault /\ store' = file /\ scan' = NoScan
  /\ UNCHANGED <<journal, now, file, trusted>>

Login(kind, p) ==
  /\ Cardinality(journal) < MaxLogins /\ ~\E e \in journal : e.at = now
  /\ journal' = journal \union {[at |-> now, kind |-> kind, peer |-> p]}
  /\ UNCHANGED <<now, store, file, scan, left, trusted>>

TimePasses ==
  /\ now < MaxTime /\ (scan.readAt # Never => now < scan.readAt + Delay)
  /\ now' = now + 1
  /\ UNCHANGED <<journal, store, file, scan, left, trusted>>

Init ==
  /\ journal = {} /\ now = 0
  /\ store = EmptyStore /\ file = EmptyStore /\ scan = NoScan
  /\ left = MaxFaults /\ trusted = {}

Next ==
  \/ PassBegins \/ ReadsJournal
  \/ \E fails, replaced \in BOOLEAN : PassEnds(fails, replaced)
  \/ Restart
  \/ \E kind \in {"accepted", "failed"}, p \in Peers : Login(kind, p)
  \/ TimePasses

Spec == Init /\ [][Next]_vars

-----------------------------------------------------------------------------

\* Lines that a pass has certainly read.
Old == {e \in journal : e.at < store.last - Delay}

\* The overlap and the ids together: a failed login is counted once, over passes that
\* fail, writes that fail and restarts, provided a pass takes no longer than the overlap
\* once it has read the journal (README: the code does not bound it so).
CountedOnce ==
  \A p \in Peers : /\ Cardinality(Failed(Old, p)) <= store.failures[p]
                   /\ store.failures[p] <= Cardinality(Failed(journal, p))

\* A peer that logs in for the first time is flagged, unless the monitor was just
\* starting, also when it has been forgotten since.
NewPeerFlagged ==
  \A p \in KnownPeers(Accepted(Old)) : p \in store.newPeers \union trusted

MonitorSafe == CountedOnce /\ NewPeerFlagged
=============================================================================

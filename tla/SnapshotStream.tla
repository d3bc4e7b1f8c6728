---------------------------- MODULE SnapshotStream ----------------------------
(* What a browser sees of PaneFleet: the shared snapshot collection and its     *)
(* fan-out over server-sent events (server.js, snapshot-events.js), the cache   *)
(* of slow observations (observation-cache.js), and the browser that applies    *)
(* patches, falls back to polling and reconnects (public/app.js, ui-state.js).  *)
(*                                                                              *)
(* A domain is a top-level key of the snapshot; version 0 means the key is      *)
(* absent. node runs one callback at a time, so a step is what happens between  *)
(* two awaits.                                                                  *)
EXTENDS Integers, Sequences

CONSTANTS
  Browsers,    \* browser tabs
  Domains,     \* top-level keys of the snapshot
  MaxSafe,     \* Number.MAX_SAFE_INTEGER, where sequences wrap to 1
               \* (bound: no sequence is used again while a tab or frame has it)
  MaxChanges,  \* bound: changes of the host
  MaxFaults,   \* bound: lost connections and collections that throw
  MaxLoads     \* bound: refreshes the operator asks for
Buffer == 1    \* bound: frames a connection holds before it needs a drain

Limits ==
  MaxSafe \in Nat \ {0} /\ MaxChanges \in Nat /\ MaxFaults \in Nat /\ MaxLoads \in Nat

VARIABLES
  host,     \* what the host really shows, per domain
  stream,   \* snapshotEventState, the last sequence and its fields
  cached,   \* whether snapshotEventUpdateCache, the update of stream, still counts
  pending,  \* snapshotEventUpdatePromise: fields read so far, and who awaits it
  observed, \* the observation cache: whether a domain goes through it, its entry, its age
  timer,    \* whether snapshotEventTimer is set
  clients,  \* snapshotEventClients
  wire,     \* frames under way on the connection of each browser
  sent,     \* sentSnapshotSequences of that connection
  tab,      \* the state of each browser
  left      \* what the bounds still allow: changes, faults, loads

vars == <<host, stream, cached, pending, observed, timer, clients, wire, sent, tab, left>>

Unread == -1
Nothing == [d \in Domains |-> Unread]
WholeUpdate(s, f) ==
  [sequence |-> s, fields |-> f, base |-> 0, changes |-> <<>>, removed |-> {}]
NoUpdate == WholeUpdate(0, Nothing)
Idle == [on |-> FALSE, fields |-> Nothing, broadcasts |-> 0, waiters |-> {}]

NextSequence(s) == IF s = MaxSafe THEN 1 ELSE s + 1

-----------------------------------------------------------------------------
(* Updates and patches                                                        *)

Present(f) == {d \in Domains : f[d] > 0}

FullUpdate(f) == WholeUpdate(NextSequence(stream.sequence), f)

PatchUpdate(f) ==
  [sequence |-> NextSequence(stream.sequence), fields |-> f, base |-> stream.sequence,
   changes |-> [d \in {e \in Present(f) : stream.fields[e] # f[e]} |-> f[d]],
   removed |-> Present(stream.fields) \ Present(f)]

\* Broadcast as a patch when there is a base and the patch is shorter.
Updates(f) == {FullUpdate(f)} \cup (IF stream.sequence > 0 THEN {PatchUpdate(f)} ELSE {})

Snapshot(s, f) == [event |-> "snapshot", update |-> WholeUpdate(s, f)]
Broadcast(u) ==
  IF u.base = 0 THEN Snapshot(u.sequence, u.fields)
  ELSE [event |-> "snapshot-patch", update |-> [u EXCEPT !.fields = Nothing]]
Failure == [event |-> "error", update |-> NoUpdate]

\* applySnapshotPatch refuses a patch whose base is not what the tab holds.
PatchFits(t, u) == t.sequence >= 1 /\ t.sequence = u.base /\ u.sequence = NextSequence(u.base)

Patched(f, u) ==
  [d \in Domains |-> IF d \in DOMAIN u.changes THEN u.changes[d]
                     ELSE IF d \in u.removed THEN 0 ELSE f[d]]

-----------------------------------------------------------------------------
(* Connections                                                                *)

\* A connection as the server sees it: frames, last sequence, in the fan-out.
Line(b) == [wire |-> wire[b], sent |-> sent[b], joined |-> b \in clients]
Dropped(l) == [l EXCEPT !.wire = Append(@, Failure), !.joined = FALSE]

\* writeSnapshotEvent: no sequence twice, and no frame behind an undrained one.
Written(l, frame) ==
  IF frame.update.sequence > 0 /\ l.sent = frame.update.sequence THEN l
  ELSE IF Len(l.wire) >= Buffer THEN Dropped(l)
  ELSE [l EXCEPT !.wire = Append(@, frame),
                 !.sent = IF frame.update.sequence > 0 THEN frame.update.sequence ELSE @]

Joined(l, frame) ==
  LET w == Written(l, frame) IN [w EXCEPT !.joined = Len(l.wire) < Buffer]

SetLines(lines) ==
  /\ wire' = [b \in Browsers |-> lines[b].wire]
  /\ sent' = [b \in Browsers |-> lines[b].sent]
  /\ clients' = {b \in Browsers : lines[b].joined}

\* The timer is armed when a client is there, and cleared with the last one.
Arm == timer' = (clients' # {})

\* What a settled collection does for those that await it: a new connection gets
\* the whole snapshot and joins, the fan-out gets the broadcast.
Settled(whole, part, askedFirst) ==
  LET answered(l, b) == IF b \in pending.waiters THEN Joined(l, whole) ELSE l
      fanned(l) == IF pending.broadcasts > 0 /\ l.joined THEN Written(l, part) ELSE l
  IN  [b \in Browsers |->
         IF askedFirst THEN fanned(answered(Line(b), b)) ELSE answered(fanned(Line(b)), b)]

-----------------------------------------------------------------------------
(* The server                                                                 *)

Start(broadcasts, waiters) ==
  pending' = IF pending.on
             THEN [pending EXCEPT !.broadcasts = @ + broadcasts, !.waiters = @ \cup waiters]
             ELSE [on |-> TRUE, fields |-> Nothing, broadcasts |-> broadcasts, waiters |-> waiters]

\* serveEvents: a cached update is written at once, a collection is awaited. The
\* headers open the browser's EventSource, which stops its polling.
Serves(b) ==
  tab[b].link = "asked" /\ tab' = [tab EXCEPT ![b].link = "served", ![b].polling = FALSE]
Serve(b) ==
  /\ Serves(b)
  /\ LET opened == [wire |-> <<>>, sent |-> 0, joined |-> FALSE]
     IN IF cached
        THEN /\ SetLines([c \in Browsers |->
                            IF c = b THEN Joined(opened, Snapshot(stream.sequence, stream.fields)) ELSE Line(c)])
             /\ Arm
             /\ UNCHANGED pending
        ELSE /\ SetLines([c \in Browsers |-> IF c = b THEN opened ELSE Line(c)])
             /\ Start(0, {b})
             /\ UNCHANGED timer
  /\ UNCHANGED <<host, stream, cached, observed, left>>

\* createObservationCache's get: a fresh entry, or what is loaded now.
Observe(d) == IF observed[d].fresh THEN observed[d].value ELSE host[d]
Entry(d, value) == [kept |-> observed[d].kept, value |-> value, fresh |-> observed[d].kept]

\* snapshot() reads its domains one after the other.
Reads(d) ==
  /\ pending.on /\ pending.fields[d] = Unread
  /\ pending' = [pending EXCEPT !.fields[d] = Observe(d)]
Read(d) ==
  /\ Reads(d)
  /\ observed' = [observed EXCEPT ![d] = Entry(d, Observe(d))]
  /\ UNCHANGED <<host, stream, cached, timer, clients, wire, sent, tab, left>>

\* sharedSnapshotEventUpdate settles: every await of the one promise goes on.
InUse == {tab[b].sequence : b \in Browsers} \cup
           UNION {{wire[b][i].update.sequence : i \in DOMAIN wire[b]} : b \in Browsers}

Collected ==
  /\ pending.on /\ NextSequence(stream.sequence) \notin InUse
  /\ \A d \in Domains : pending.fields[d] # Unread
  /\ \E u \in Updates(pending.fields), askedFirst \in BOOLEAN :
       /\ stream' = [sequence |-> u.sequence, fields |-> u.fields]
       /\ cached' = TRUE
       /\ SetLines(Settled(Snapshot(u.sequence, u.fields), Broadcast(u), askedFirst))
       /\ pending' = Idle
       /\ Arm
  /\ UNCHANGED <<host, observed, tab, left>>

CollectionFails ==
  /\ pending.on /\ left.faults > 0
  /\ left' = [left EXCEPT !.faults = @ - 1]
  /\ SetLines(Settled(Failure, Failure, TRUE))
  /\ pending' = Idle
  /\ Arm
  /\ UNCHANGED <<host, stream, cached, observed, tab>>

\* scheduleSnapshotEventBroadcast's callback: a fresh collection, or the one under way.
BroadcastDue ==
  /\ timer /\ timer' = FALSE
  /\ Start(1, {})
  /\ UNCHANGED <<host, stream, cached, observed, clients, wire, sent, tab, left>>

\* SNAPSHOT_EVENT_CACHE_MS and SNAPSHOT_OBSERVATION_CACHE_MS go by.
CacheExpires ==
  /\ cached /\ cached' = FALSE
  /\ UNCHANGED <<host, stream, pending, observed, timer, clients, wire, sent, tab, left>>

Expires(d) == observed[d].fresh /\ observed' = [observed EXCEPT ![d].fresh = FALSE]
ObservationExpires(d) ==
  /\ Expires(d)
  /\ UNCHANGED <<host, stream, cached, pending, timer, clients, wire, sent, tab, left>>

-----------------------------------------------------------------------------
(* The browser                                                                *)

NoLoad == [stage |-> "none", version |-> FALSE, fields |-> Nothing]

\* The server sees a closed connection: out of the fan-out, nothing more written.
Hang(b) ==
  /\ wire' = [wire EXCEPT ![b] = <<>>]
  /\ sent' = [sent EXCEPT ![b] = 0]
  /\ clients' = clients \ {b}
  /\ timer' = (timer /\ clients' # {})
  /\ pending' = [pending EXCEPT !.waiters = @ \ {b}]

Connects(b) ==
  tab[b].retry /\ tab' = [tab EXCEPT ![b].retry = FALSE, ![b].link = "asked", ![b].sequence = 0]
Connect(b) ==
  /\ Connects(b)
  /\ Hang(b)
  /\ UNCHANGED <<host, stream, cached, observed, left>>

Frame(b) == Head(wire[b])
Take(b) == wire' = [wire EXCEPT ![b] = Tail(@)]

\* state.snapshotVersion moves on, so a load under way will be dropped.
Show(b, f, s) ==
  tab' = [tab EXCEPT ![b].shown = f, ![b].sequence = s,
                     ![b].load = [@ EXCEPT !.version = FALSE]]

ReceiveSnapshot(b) ==
  /\ wire[b] # <<>> /\ Frame(b).event = "snapshot"
  /\ Show(b, Frame(b).update.fields, Frame(b).update.sequence)
  /\ Take(b)
  /\ UNCHANGED <<host, stream, cached, pending, observed, timer, clients, sent, left>>

ReceivePatch(b) ==
  /\ wire[b] # <<>> /\ Frame(b).event = "snapshot-patch"
  /\ LET u == Frame(b).update
     IN /\ PatchFits(tab[b], u)
        /\ Show(b, Patched(tab[b].shown, u), u.sequence)
  /\ Take(b)
  /\ UNCHANGED <<host, stream, cached, pending, observed, timer, clients, sent, left>>

\* reconnectForCompleteSnapshot
PatchRefused(b) ==
  /\ wire[b] # <<>> /\ Frame(b).event = "snapshot-patch"
  /\ ~PatchFits(tab[b], Frame(b).update)
  /\ tab' = [tab EXCEPT ![b].link = "closed", ![b].sequence = 0, ![b].retry = TRUE]
  /\ Hang(b)
  /\ UNCHANGED <<host, stream, cached, observed, left>>

\* mutant: a stream that broke is polled for and not opened again
InterruptedForGood(b) ==
  [tab EXCEPT ![b].link = "closed", ![b].polling = TRUE,
              ![b].load = IF tab[b].polling THEN @
                          ELSE [stage |-> "asked", version |-> TRUE, fields |-> Nothing]]

\* The error listener: an error event of the server's or a broken connection. The
\* first poll is sent at once; snapshotSequence stays until the next connectEvents.
Interrupted(b) ==
  [tab EXCEPT ![b].link = "closed", ![b].retry = TRUE, ![b].polling = TRUE,
              ![b].load = IF tab[b].polling THEN @
                          ELSE [stage |-> "asked", version |-> TRUE, fields |-> Nothing]]

ReceiveError(b) ==
  /\ wire[b] # <<>> /\ Frame(b).event = "error"
  /\ tab' = Interrupted(b)
  /\ Hang(b)
  /\ UNCHANGED <<host, stream, cached, observed, left>>

LinkBreaks(b) ==
  /\ tab[b].link \in {"asked", "served"} /\ left.faults > 0
  /\ left' = [left EXCEPT !.faults = @ - 1]
  /\ tab' = Interrupted(b)
  /\ Hang(b)
  /\ UNCHANGED <<host, stream, cached, observed>>

\* loadSnapshot: by the poll timer, or after an operator's action.
Poll(b) ==
  /\ tab[b].polling /\ tab[b].load.stage = "none"
  /\ tab' = [tab EXCEPT ![b].load = [stage |-> "asked", version |-> TRUE, fields |-> Nothing]]
  /\ UNCHANGED <<host, stream, cached, pending, observed, timer, clients, wire, sent, left>>

Refresh(b) ==
  /\ left.loads > 0 /\ tab[b].link # "none" /\ tab[b].load.stage = "none"
  /\ left' = [left EXCEPT !.loads = @ - 1]
  /\ tab' = [tab EXCEPT ![b].load = [stage |-> "asked", version |-> TRUE, fields |-> Nothing]]
  /\ UNCHANGED <<host, stream, cached, pending, observed, timer, clients, wire, sent>>

\* GET /api/snapshot collects for itself, with the observation cache.
LoadServed(b) ==
  /\ tab[b].load.stage = "asked"
  /\ tab' = [tab EXCEPT ![b].load = [@ EXCEPT !.stage = "answered",
                                              !.fields = [d \in Domains |-> Observe(d)]]]
  /\ observed' = [d \in Domains |-> Entry(d, Observe(d))]
  /\ UNCHANGED <<host, stream, cached, pending, timer, clients, wire, sent, left>>

\* mutant: the answer leaves the tab's sequence as it is
LoadKeepsSequence(b) ==
  /\ tab[b].load.stage = "answered"
  /\ tab' = [tab EXCEPT ![b].load = NoLoad, ![b].shown = tab[b].load.fields]
  /\ UNCHANGED <<host, stream, cached, pending, observed, timer, clients, wire, sent, left>>

LoadArrives(b) ==
  /\ tab[b].load.stage = "answered"
  /\ LET l == tab[b].load
     IN tab' = [tab EXCEPT ![b].load = NoLoad,
                           ![b].shown = IF l.version THEN l.fields ELSE @,
                           ![b].sequence = IF l.version THEN 0 ELSE @]
  /\ UNCHANGED <<host, stream, cached, pending, observed, timer, clients, wire, sent, left>>

\* The host: a domain changes, appears or goes.
Change(d) ==
  /\ left.changes > 0
  /\ left' = [left EXCEPT !.changes = @ - 1]
  /\ \E v \in {0, MaxChanges + 1 - left.changes} \ {host[d]} : host' = [host EXCEPT ![d] = v]
  /\ UNCHANGED <<stream, cached, pending, observed, timer, clients, wire, sent, tab>>

-----------------------------------------------------------------------------
NewTab(open) ==
  [shown |-> Nothing, sequence |-> 0, link |-> IF open THEN "closed" ELSE "none",
   retry |-> open, polling |-> FALSE, load |-> NoLoad]

\* The tabs that are opened, and what may happen to them.
InitWith(opened, kept, bounds) ==
  /\ host = [d \in Domains |-> 1]
  /\ stream = [sequence |-> 0, fields |-> [d \in Domains |-> 0]]
  /\ cached = FALSE
  /\ pending = Idle
  /\ observed = [d \in Domains |-> [kept |-> d \in kept, value |-> 0, fresh |-> FALSE]]
  /\ timer = FALSE /\ clients = {}
  /\ wire = [b \in Browsers |-> <<>>] /\ sent = [b \in Browsers |-> 0]
  /\ tab = [b \in Browsers |-> NewTab(b \in opened)]
  /\ left = bounds

Init == InitWith(Browsers, Domains, [changes |-> MaxChanges, faults |-> MaxFaults, loads |-> MaxLoads])

Server ==
  \/ \E b \in Browsers : Serve(b)
  \/ \E d \in Domains : Read(d) \/ ObservationExpires(d)
  \/ Collected \/ CollectionFails \/ BroadcastDue \/ CacheExpires

Browser(b) ==
  \/ Connect(b) \/ ReceiveSnapshot(b) \/ ReceivePatch(b) \/ PatchRefused(b)
  \/ ReceiveError(b) \/ LinkBreaks(b) \/ Poll(b) \/ Refresh(b) \/ LoadServed(b) \/ LoadArrives(b)

Next == Server \/ (\E b \in Browsers : Browser(b)) \/ (\E d \in Domains : Change(d))

\* Timers fire, awaits end, frames and answers arrive; the bounded rest need not
\* happen. Each is stated of what only that step changes.
Receive(b) ==
  wire[b] # <<>> /\ \E w \in {<<>>, Tail(wire[b])} : wire' = [wire EXCEPT ![b] = w]
Collects ==
  /\ pending.on /\ NextSequence(stream.sequence) \notin InUse
  /\ (\A d \in Domains : pending.fields[d] # Unread) /\ pending' = Idle
Fairness ==
  /\ \A d \in Domains : WF_pending(Reads(d)) /\ WF_observed(Expires(d))
  /\ WF_pending(Collects) /\ WF_timer(timer /\ timer' = FALSE)
  /\ \A b \in Browsers : WF_tab(Serves(b)) /\ WF_tab(Connects(b)) /\ WF_wire(Receive(b))

Spec == Init /\ [][Next]_vars /\ Fairness

-----------------------------------------------------------------------------
FieldsType == [Domains -> Unread .. MaxChanges + 1]

\* The types of the stream's state, of connections and of tabs.
TypeOK ==
  /\ stream.sequence \in 0 .. MaxSafe /\ stream.fields \in FieldsType
  /\ pending.waiters \subseteq Browsers /\ clients \subseteq Browsers
  /\ timer \in BOOLEAN /\ sent \in [Browsers -> 0 .. MaxSafe]
  /\ \A b \in Browsers :
       /\ Len(wire[b]) <= Buffer + 1
       /\ tab[b].link \in {"none", "closed", "asked", "served"} /\ tab[b].shown \in FieldsType

\* A browser in the fan-out that holds the server's sequence shows exactly the
\* server's fields: no patch is merged into a state it was not made for, whatever
\* polls, refreshes and other connections do to the sequence in between.
InStep ==
  \A b \in clients :
    tab[b].sequence # 0 /\ tab[b].sequence = stream.sequence => tab[b].shown = stream.fields

\* Somebody will update the tabs of the fan-out: the timer or a broadcast under way.
FanOutGoesOn == clients # {} => timer \/ pending.broadcasts > 0

\* What must hold of the stream at every moment.
StreamSafe == TypeOK /\ InStep /\ FanOutGoesOn

\* Once the host rests every browser ends up showing it, through stale caches, lost
\* frames, dropped loads and reconnections.
AllShown == \A b \in Browsers : tab[b].link # "none" => tab[b].shown = host
Converges == <>[]AllShown

===============================================================================

--------------------------- MODULE RichProviders ---------------------------
(***************************************************************************)
(* One rich provider (the VS Code extension, or a browser's extension with *)
(* its bridge) and the daemon: the provider socket (providers/server), the *)
(* provider's entry in the registry, the surface that the hub publishes,   *)
(* and the commands that go back (Hub.ActivateView, CloseView).            *)
(*                                                                         *)
(* A provider may run in several hosts, as VS Code does in each window:    *)
(* all of them publish under one provider id, each with its own counter.   *)
(* Every connection has a goroutine; Refreshes that overtake each other    *)
(* are the subject of PanelHub.  Messages are well formed; the shell's     *)
(* snapshots, the subject of ShellSnapshots, are given as native worlds.   *)
(***************************************************************************)
EXTENDS SurfaceMerge

CONSTANTS
    Editors,      \* hosts of the VS Code extension
    Browsers,     \* hosts of the web extension
    MaxConns,     \* bound: connections at a time
    Nothing,      \* no entry, no command
    NativeWorlds, \* what the shell may observe
    Starts        \* the hosts that run, the first native world and the bounds of a
                  \* behaviour, see Start

\* Changes of tabs, commands, changes of the native world, expiries, restarts of a
\* host, dropped connections and restarts of the daemon, and dials that fail.
Budget == [changes : Nat, commands : Nat, natives : Nat, expiries : Nat, reloads : Nat,
           drops : Nat, dials : Nat]

Hosts == Editors \cup Browsers

Start == [hosts : SUBSET Hosts, native : NativeWorlds, budget : Budget]

\* Connections are interchangeable; a new one is the first that is free.
Conns == 1..MaxConns
NoConn == 0

ASSUME RichProvidersAssumption ==
    /\ Editors \cap Browsers = {} /\ MaxConns \in Nat /\ Starts \subseteq Start
    /\ \A s \in Starts : s.hosts \subseteq Editors \/ s.hosts \subseteq Browsers

\* The shell shows finitely many applications, each under an id of its own.
ASSUME WorldsAssumption ==
    \A w \in NativeWorlds : IsFiniteSet(DOMAIN w) /\ Ambiguous \notin DOMAIN w

VARIABLES
    hosts,        \* the hosts that run
    tabs,         \* tabs[h]: the open tabs of host h
    revision,     \* revision[h]: its counter
    timer,        \* hosts with a publication scheduled
    socket,       \* socket[h]: its connection, or NoConn
    conns,        \* conns[c]: a connection the server handles, or Nothing
    entry,        \* the provider's snapshot in the registry, or Nothing
    client,       \* Actions.clients of the provider, or NoConn
    native,       \* what the shell observes
    surface,      \* Hub.surfaceSnapshot
    send,         \* a command between the lookup of its client and its write
    latest,       \* history: the connection registered last
    unheard,      \* history: hosts whose last publication was lost
    budget        \* what remains of the budget

host == <<hosts, tabs, revision, timer, socket>>
daemon == <<entry, client, native, surface, send, latest>>
vars == <<hosts, tabs, revision, timer, socket, conns, entry, client, native, surface,
          send, latest, unheard, budget>>

Messages == [views : SUBSET Views, rev : Nat \ {0}, from : Hosts]

\* open: the host's end; registered: handle's unregister is set.
Connections == [host : Hosts, inbox : Seq(Messages), commands : Seq(Views),
                open : BOOLEAN, registered : BOOLEAN]

Entries == [msg : Messages, fresh : BOOLEAN]
Sends   == [view : Views, conn : Conns]

\* nil is none of the values it stands in for.
ASSUME NothingAssumption ==
    Nothing \notin Connections /\ Nothing \notin Entries /\ Nothing \notin Sends

TypeOK ==
    /\ hosts \subseteq Hosts /\ timer \subseteq Hosts /\ unheard \subseteq Hosts
    /\ tabs \in [Hosts -> SUBSET Views] /\ revision \in [Hosts -> Nat]
    /\ socket \in [Hosts -> Conns \cup {NoConn}]
    /\ conns \in [Conns -> Connections \cup {Nothing}]
    /\ entry \in Entries \cup {Nothing}
    /\ {client, latest} \subseteq Conns \cup {NoConn}
    /\ native \in NativeWorlds
    /\ ViewsIn(surface) \subseteq Views
    /\ send \in Sends \cup {Nothing}
    /\ budget \in Budget

Init ==
    /\ \E s \in Starts : hosts = s.hosts /\ native = s.native /\ budget = s.budget
    /\ tabs = [h \in Hosts |-> IF h \in hosts THEN Views ELSE {}]
    /\ revision = [h \in Hosts |-> 0] /\ timer = hosts
    /\ socket = [h \in Hosts |-> NoConn] /\ conns = [c \in Conns |-> Nothing]
    /\ entry = Nothing /\ client = NoConn
    /\ surface = ApplyNone(native)
    /\ send = Nothing /\ latest = NoConn /\ unheard = {}

-----------------------------------------------------------------------------
Spend(e) == budget[e] > 0 /\ budget' = [budget EXCEPT ![e] = @ - 1]

Patches(msg) ==
    IF msg.from \in Editors THEN EditorPatches(msg.views) ELSE BrowserPatches(msg.views)

\* What a Refresh publishes when the registry holds e; the order of the native
\* applications is that of a map's iteration.
Refreshed(e, world) ==
    \E order \in SetToSeqs(DOMAIN world) :
        surface' = IF e # Nothing /\ e.fresh THEN Apply(world, order, Patches(e.msg))
                   ELSE ApplyNone(world)

(***************************************************************************)
(* The hosts.                                                              *)
(***************************************************************************)

\* A tab is opened or closed; schedule.
TabsChange(h) ==
    /\ h \in hosts /\ Spend("changes")
    /\ \E v \in Views : tabs' = [tabs EXCEPT ![h] = IF v \in @ THEN @ \ {v} ELSE @ \cup {v}]
    /\ timer' = timer \cup {h}
    /\ UNCHANGED <<hosts, revision, socket, conns, daemon, unheard>>

Unread(h) == \E c \in Conns : conns[c] # Nothing /\ conns[c].host = h /\ conns[c].inbox # <<>>

Message(h) == [views |-> tabs[h], rev |-> revision[h] + 1, from |-> h]

\* The timer fires and the host is connected.
PublishOnSocket(h) ==
    /\ h \in timer /\ socket[h] # NoConn
    /\ timer' = timer \ {h} /\ revision' = [revision EXCEPT ![h] = @ + 1]
    /\ conns' = [conns EXCEPT ![socket[h]].inbox = Append(@, Message(h))]
    /\ unheard' = unheard \ {h}
    /\ UNCHANGED <<hosts, tabs, socket, daemon, budget>>

\* The timer fires without a connection: the editor's connect, or the bridge's
\* ensureConn, and the message.  Being connected schedules the editor once more.
\* A host that was reloaded takes seconds to come back: by then the server has read
\* what its earlier connection held.
PublishAndConnect(h, c) ==
    /\ h \in timer /\ socket[h] = NoConn
    /\ conns[c] = Nothing /\ \A d \in 1..(c - 1) : conns[d] # Nothing
    /\ revision[h] = 0 => ~Unread(h)
    /\ timer' = IF h \in Editors THEN timer ELSE timer \ {h}
    /\ revision' = [revision EXCEPT ![h] = @ + 1]
    /\ socket' = [socket EXCEPT ![h] = c]
    /\ conns' = [conns EXCEPT ![c] =
         [host |-> h, inbox |-> <<Message(h)>>, commands |-> <<>>, open |-> TRUE,
          registered |-> FALSE]]
    /\ unheard' = unheard \ {h}
    /\ UNCHANGED <<hosts, tabs, daemon, budget>>

\* The daemon cannot be reached: the message is lost; the editor tries again, the
\* browser only with its next change.
DialFails(h) ==
    /\ Spend("dials") /\ h \in timer /\ socket[h] = NoConn
    /\ timer' = IF h \in Editors THEN timer ELSE timer \ {h}
    /\ revision' = [revision EXCEPT ![h] = @ + 1]
    /\ unheard' = IF h \in Editors THEN unheard ELSE unheard \cup {h}
    /\ UNCHANGED <<hosts, tabs, socket, conns, daemon>>

\* Mutant: the editor connects again without publishing.
LostSilent(hs) == timer' = timer /\ unheard' = unheard \cup (hs \ Editors)

\* The hosts hs notice that their connections are gone: the editor connects again
\* and publishes, the bridge connects with the next message.
Lost(hs) ==
    /\ timer' = timer \cup (hs \cap Editors)
    /\ unheard' = unheard \cup (hs \ Editors)

\* The connection breaks; the server may still read what was sent.
ConnectionDrops(h) ==
    /\ Spend("drops") /\ socket[h] # NoConn
    /\ conns' = [conns EXCEPT ![socket[h]].open = FALSE]
    /\ socket' = [socket EXCEPT ![h] = NoConn]
    /\ Lost({h})
    /\ UNCHANGED <<hosts, tabs, revision, daemon>>

\* The extension host is reloaded, or the browser restarted: the counter too.
HostReloads(h) ==
    /\ Spend("reloads") /\ h \in hosts
    /\ revision' = [revision EXCEPT ![h] = 0] /\ timer' = timer \cup {h}
    /\ socket' = [socket EXCEPT ![h] = NoConn]
    /\ conns' = [c \in Conns |->
         IF c = socket[h] THEN [conns[c] EXCEPT !.open = FALSE, !.commands = <<>>] ELSE conns[c]]
    /\ UNCHANGED <<hosts, tabs, daemon, unheard>>

\* handleCommand: closeView closes the tab, if it is there.
HostHandles(h) ==
    /\ socket[h] # NoConn /\ conns[socket[h]].commands # <<>>
    /\ LET v == Head(conns[socket[h]].commands) IN
       /\ conns' = [conns EXCEPT ![socket[h]].commands = Tail(@)]
       /\ tabs' = [tabs EXCEPT ![h] = @ \ {v}]
       /\ timer' = IF v \in tabs[h] THEN timer \cup {h} ELSE timer
    /\ UNCHANGED <<hosts, revision, socket, daemon, unheard, budget>>

-----------------------------------------------------------------------------
(***************************************************************************)
(* The daemon.                                                             *)
(***************************************************************************)

\* Registry.Ingest refuses a smaller revision, whether the entry expired or not.
StaleRevision(msg) == entry # Nothing /\ msg.rev < entry.msg.rev

\* Actions.register, when this connection's first snapshot was accepted.
Register(c) ==
    IF conns[c].registered THEN UNCHANGED <<client, latest>>
    ELSE client' = c /\ latest' = c

\* handle reads a message: dispatch, Hub.Ingest with its Refresh, register.
Handle(c) ==
    /\ conns[c] # Nothing /\ conns[c].inbox # <<>>
    /\ LET msg == Head(conns[c].inbox)
           next == [msg |-> msg, fresh |-> TRUE]
       IN IF StaleRevision(msg)
          THEN /\ conns' = [conns EXCEPT ![c].inbox = Tail(@)]
               /\ UNCHANGED <<entry, surface, client, latest>>
          ELSE /\ entry' = next /\ Refreshed(next, native)
               /\ Register(c)
               /\ conns' = [conns EXCEPT ![c].inbox = Tail(@), ![c].registered = TRUE]
    /\ UNCHANGED <<host, native, send, unheard, budget>>

\* Mutant: the provider is removed whoever is registered for it.
UnregisterAny(c) == client' = NoConn

\* The function register returns.
Unregister(c) == client' = IF client = c THEN NoConn ELSE client

\* The end of handle: the connection is closed and all is read.
HandleEnds(c) ==
    /\ conns[c] # Nothing /\ ~conns[c].open /\ conns[c].inbox = <<>>
    /\ IF conns[c].registered THEN Unregister(c) ELSE UNCHANGED client
    /\ latest' = IF latest = c THEN NoConn ELSE latest
    /\ conns' = [conns EXCEPT ![c] = Nothing]
    /\ send' = IF send # Nothing /\ send.conn = c THEN Nothing ELSE send
    /\ UNCHANGED <<host, entry, native, surface, unheard, budget>>

\* The entry outlives its 30 s; nobody publishes unless something changes.
Expire ==
    /\ Spend("expiries") /\ entry # Nothing /\ entry.fresh
    /\ entry' = [entry EXCEPT !.fresh = FALSE]
    /\ UNCHANGED <<host, conns, client, native, surface, send, latest, unheard>>

\* RunMaintenance's Refresh.
Tick ==
    /\ surface # ApplyNone(native) \/ (entry # Nothing /\ entry.fresh)
    /\ Refreshed(entry, native) /\ surface' # surface
    /\ UNCHANGED <<host, conns, entry, client, native, send, latest, unheard, budget>>

\* The shell submits a snapshot.
NativeChange ==
    /\ Spend("natives") /\ native' \in NativeWorlds \ {native}
    /\ Refreshed(entry, native')
    /\ UNCHANGED <<host, conns, entry, client, send, latest, unheard>>

\* Hub.CloseView: the view is looked up in the surface, its provider's client in
\* Actions; without either the call fails.
CloseView(v) ==
    /\ Spend("commands") /\ send = Nothing /\ v \in ViewsIn(surface) /\ client # NoConn
    /\ send' = [view |-> v, conn |-> client]
    /\ UNCHANGED <<host, conns, entry, client, native, surface, latest, unheard>>

\* Actions.Send writes to the client it found, if it can still be written to.
SendWrite ==
    /\ send # Nothing /\ send' = Nothing
    /\ conns' = [conns EXCEPT ![send.conn].commands =
                   IF conns[send.conn].open THEN Append(@, send.view) ELSE @]
    /\ UNCHANGED <<host, entry, client, native, surface, latest, unheard, budget>>

\* The daemon is restarted: everything it kept is gone, and so are messages that
\* it has not read; the shell submits its snapshot at once.
DaemonRestart ==
    /\ Spend("drops")
    /\ conns' = [c \in Conns |-> Nothing] /\ socket' = [h \in Hosts |-> NoConn]
    /\ Lost({h \in Hosts : socket[h] # NoConn})
    /\ entry' = Nothing /\ client' = NoConn /\ send' = Nothing /\ latest' = NoConn
    /\ surface' = ApplyNone(native)
    /\ UNCHANGED <<hosts, tabs, revision, native>>

-----------------------------------------------------------------------------
\* What timers and goroutines do on their own.
Progress ==
    \/ \E h \in Hosts : PublishOnSocket(h) \/ HostHandles(h)
    \/ \E h \in Hosts, c \in Conns : PublishAndConnect(h, c)
    \/ \E c \in Conns : Handle(c) \/ HandleEnds(c)
    \/ Tick \/ SendWrite

Next ==
    \/ Progress
    \/ \E h \in Hosts : TabsChange(h) \/ DialFails(h) \/ ConnectionDrops(h) \/ HostReloads(h)
    \/ Expire \/ NativeChange \/ DaemonRestart
    \/ \E v \in Views : CloseView(v)

Spec == Init /\ [][Next]_vars

\* Timers fire and goroutines are scheduled; no order among them is assumed.
Fairness == WF_vars(Progress)

FairSpec == Spec /\ Fairness

-----------------------------------------------------------------------------
(***************************************************************************)
(* Properties                                                              *)
(***************************************************************************)

\* Whatever the provider publishes, loses or lets expire, every application and
\* window of the shell stays in the surface, and the only additions belong to the
\* provider: the document's promise for provider failures.
NativeRemains ==
    /\ TypeOK
    /\ DOMAIN native \subseteq DOMAIN surface
    /\ \A a \in DOMAIN native : native[a] \subseteq DOMAIN surface[a]
    /\ Cardinality(DOMAIN surface \ DOMAIN native) <= 1

\* a is identified by a key of the provider that no other application has.
Identified(world, a) ==
    \E k \in ProviderKeys \cap NativeKeys[a] : \A b \in DOMAIN world \ {a} : k \notin NativeKeys[b]

\* The provider's views are shown with an application of the shell only if that
\* one, and no other, is identified by a key of its own, whatever the order in
\* which the registry's map is walked; or if it has the id the provider claims.
AttributionIsCertain ==
    \A a \in DOMAIN native :
        UNION Range(surface[a]) # {} =>
            \/ a = ProviderApp
            \/ Identified(native, a) /\ \A b \in DOMAIN native \ {a} : ~Identified(native, b)

\* Actions.clients holds the connection that was registered last, until its
\* handler ends: a connection of the same provider that ends later, or whose
\* snapshots are refused, takes nothing away from it, and no dead one stays.
ClientIsLatest == client = latest

\* When nothing changes any more, the only host of a provider is followed: the
\* registry has its tabs, and commands reach it.  The excuses are the code's: a
\* reloaded host counts from one and is refused while the registry remembers a
\* larger revision, and a browser does not repeat a message that was lost.
HostIsFollowed ==
    <>[](\A h \in hosts :
           \/ hosts # {h} \/ h \in unheard
           \/ entry # Nothing /\ revision[h] < entry.msg.rev
           \/ /\ entry # Nothing /\ entry.msg.views = tabs[h]
              /\ client = socket[h] /\ client # NoConn)
=============================================================================

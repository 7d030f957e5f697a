------------------------------- MODULE Sockets -------------------------------
(***************************************************************************)
(* The socket layer (src/os/kernel/src/network/mod.rs, syscall/sys_net.rs,  *)
(* src/os/library/network/src/lib.rs): the socket set, the map from sockets *)
(* to processes, the interface, and the thread that polls them.  Every call *)
(* is a list of steps, one for each time it takes a lock; smoltcp itself is *)
(* external, its progress happens while the poll thread holds the locks.    *)
(*                                                                         *)
(* The locks: I (INTERFACES), S (SOCKETS), M (SOCKET_PROCESS), P (the       *)
(* process manager).  All are writer locks except where M and P are read.   *)
(***************************************************************************)
EXTENDS Integers, Sequences, FiniteSets, FiniteSetsExt, Functions

CONSTANTS Threads,    \* the application threads
          ProcessOf,  \* the process of each
          Calls,      \* the library calls they make
          Cleaner,    \* whether processes exit and are dropped
          Slots,      \* bound: the size of the socket set, 1 .. n
          MaxCalls,   \* bound: how many calls a thread makes
          MaxEvents   \* bound: what happens on the network

VARIABLE net
vars == <<net>>

Poller == "poller"
Dropper == "cleanup"
None == "none"
Free == [kind |-> None, st |-> None, rx |-> 0, tx |-> 0]
Actors == Threads \cup {Poller, Dropper}
Processes == {ProcessOf[t] : t \in Threads}

SocketsAssumption ==
    /\ ProcessOf \in [Threads -> STRING] /\ Slots \in Nat \ {0} /\ MaxCalls \in Nat /\ MaxEvents \in Nat /\ Cleaner \in BOOLEAN
    /\ Calls \subseteq {"udp", "listen", "connect", "icmp", "accept", "write", "read", "drop", "resolve", "can"}

\* ------------------------------------------------------------- the calls
\* get_socket_for_current_process: the owner is checked under M and P, then S is
\* taken and the operation done.

check_ownership == <<"readM", "owner">>
open_socket == <<"add", "lockM", "insert">>
bind_socket == check_ownership \o <<"bind">>
accept_tcp == check_ownership \o <<"active">> \o open_socket \o bind_socket \o <<"swap">>
connect_tcp == check_ownership \o <<"lockS", "connect">>
send_tcp == check_ownership \o <<"can_send">> \o check_ownership \o <<"send">>
send_datagram == check_ownership \o <<"send">>
receive_tcp == check_ownership \o <<"can_recv">> \o check_ownership \o <<"recv">>
receive_datagram == check_ownership \o <<"recv">>
close_socket == <<"lockS", "readM", "owner", "close", "lockM", "remove">>
can == check_ownership \o <<"can">>
\* (While a query is pending the thread sleeps; it holds nothing then.)
get_ip_addresses == <<"lockI", "start_query", "get_query_result">>

\* UdpSocket::bind, TcpListener::bind, IcmpSocket::bind, TcpStream::connect.
udp_bind == [todo |-> open_socket \o bind_socket, kind |-> "udp"]
tcp_bind == [todo |-> open_socket \o bind_socket, kind |-> "tcp"]
icmp_bind == [todo |-> open_socket \o bind_socket, kind |-> "icmp"]
tcp_connect == [todo |-> open_socket \o connect_tcp, kind |-> "tcp"]

New(call) == CASE call = "udp" -> udp_bind [] call = "listen" -> tcp_bind [] call = "icmp" -> icmp_bind [] OTHER -> tcp_connect

\* What the objects can do.
UdpSocket == [write |-> send_datagram, read |-> receive_datagram, can |-> can, drop |-> close_socket]
TcpStream == [write |-> send_tcp, read |-> receive_tcp, can |-> can, drop |-> close_socket]
TcpListener == [accept |-> accept_tcp, drop |-> close_socket]
IcmpSocket == [write |-> send_datagram, read |-> receive_datagram, drop |-> close_socket]

Methods(o) == CASE o.role = "listen" -> TcpListener [] o.kind = "udp" -> UdpSocket [] o.kind = "tcp" -> TcpStream [] OTHER -> IcmpSocket

\* ---------------------------------------------------------------- the locks

Readable(n, l) == n.lock[l] = None
Writable(n, l) == n.lock[l] = None /\ n.readers[l] = {}
Take(n, l, a) == [n EXCEPT !.lock[l] = a]
ReleaseAll(n, a) == [n EXCEPT !.lock = [l \in DOMAIN @ |-> IF @[l] = a THEN None ELSE @[l]],
                              !.readers = [l \in DOMAIN @ |-> @[l] \ {a}]]

\* What an actor must have before its next step.
Needs(step) ==
    CASE step \in {"add", "bind", "active", "lockS", "can_send", "send", "can_recv", "recv", "can", "start_query", "get_query_result"} -> "S"
      [] step \in {"lockI", "connect"} -> "I" [] step \in {"lockM", "readM"} -> "M" [] step \in {"owner", "insert"} -> "P"
      [] step = "lockP" -> "P" [] OTHER -> None

\* insert and owner read the process manager, which only the cleanup writes.
Granted(n, step, a) ==
    LET l == Needs(step)
    IN  \/ l = None
        \/ l # None /\ n.lock[l] = a
        \/ l # None /\ IF step \in {"readM", "owner", "insert"} THEN Readable(n, l) ELSE Writable(n, l)

\* ---------------------------------------------------------------- the steps

Panic(n, why) == [n EXCEPT !.panic = why]
SlotFree(n) == {s \in 1 .. Slots : n.set[s] = Free}
Cur(n, t) == n.thr[t]
Advance(n, t) == [n EXCEPT !.thr[t].todo = Tail(@)]
Restart(n, t) == [n EXCEPT !.thr[t].todo = n.thr[t].whole]

\* SocketSet::add takes the first free slot (external).
Add(n, t) == LET s == Min(SlotFree(n)) IN [n EXCEPT !.set[s] = [Free EXCEPT !.kind = Cur(n, t).kind, !.st = "closed"], !.thr[t].h = s]

\* try_insert(..).expect(..)
Insert(n, t) ==
    LET h == Cur(n, t).h
        u == [n EXCEPT !.lock.M = None, !.owner[h] = ProcessOf[t]]
    IN  IF n.owner[h] # None THEN Panic(n, "insert") ELSE u

Owner(n, t) ==
    LET h == Cur(n, t).h
    IN  IF n.owner[h] # ProcessOf[t] THEN Panic(n, "owner") ELSE [n EXCEPT !.readers.M = @ \ {t}]

\* get_mut: the slot holds a socket of the type.
Valid(n, t) == n.set[Cur(n, t).h].kind = Cur(n, t).kind

\* A new object; the listening socket of accept replaces the old handle.
Got(n, t, role) == [n EXCEPT !.thr[t].objs = Append(@, [h |-> Cur(n, t).h, kind |-> Cur(n, t).kind, role |-> role])]

bind(n, t) ==
    LET h == Cur(n, t).h
        st == CASE Cur(n, t).kind = "tcp" -> "listen" [] OTHER -> "bound"
        u == [n EXCEPT !.set[h].st = st]
        role == IF Cur(n, t).kind = "tcp" THEN "listen" ELSE "peer"
    IN  IF ~Valid(n, t) THEN Panic(n, "get_mut")
        ELSE IF Len(Cur(n, t).todo) > 1 THEN u ELSE Got(u, t, role)

\* accept: the old handle becomes the stream.
Swap(n, t) ==
    LET i == Cur(n, t).i
        old == Cur(n, t).objs[i]
    IN  [n EXCEPT !.thr[t].objs = [@ EXCEPT ![i] = [h |-> Cur(n, t).h, kind |-> "tcp", role |-> "listen"]]
                                      \o <<[old EXCEPT !.role = "peer"]>>]

Active(st) == st \in {"connecting", "open", "remote_closed"}
can_send(n, h) == IF n.set[h].kind = "tcp" THEN n.set[h].st \in {"open", "remote_closed"} /\ n.set[h].tx = 0 ELSE n.set[h].tx = 0
can_recv(n, h) == n.set[h].rx > 0

\* socket.close() (external).
Close(s) ==
    CASE s.kind = "tcp" -> [s EXCEPT !.st = IF @ \in {"open", "remote_closed"} THEN "closing" ELSE "closed"]
      [] s.kind = "udp" -> [s EXCEPT !.st = "closed"] [] OTHER -> s

Remove(n, t) ==
    LET h == Cur(n, t).h
    IN  IF n.owner[h] = None THEN Panic(n, "unwrap")
        ELSE [n EXCEPT !.owner[h] = None, !.thr[t].objs = SelectSeq(@, LAMBDA o : o.h # h)]

\* One step of a thread, the lock being granted.
Do(n, t, step) ==
    LET h == Cur(n, t).h
        ok == Valid(n, t)
    IN  CASE step = "add" -> Advance(Add(n, t), t)
          [] step \in {"lockM", "lockS", "lockI"} -> Advance(Take(n, Needs(step), t), t)
          [] step = "readM" -> Advance([n EXCEPT !.readers.M = @ \cup {t}], t)
          [] step = "insert" -> Advance(Insert(n, t), t)
          [] step = "owner" -> Advance(Owner(n, t), t)
          [] step = "bind" -> Advance(bind(n, t), t)
          [] step = "active" -> IF ~ok THEN Panic(n, "get_mut") ELSE IF Active(n.set[h].st) THEN Advance(n, t) ELSE Restart(n, t)
          [] step = "swap" -> Advance(Swap(n, t), t)
          [] step = "connect" ->
                IF ~ok THEN Panic(n, "get_mut") ELSE Advance(ReleaseAll(Got([n EXCEPT !.set[h].st = "connecting"], t, "peer"), t), t)
          [] step = "can_send" -> IF ~ok THEN Panic(n, "get_mut") ELSE IF can_send(n, h) THEN Advance(n, t) ELSE Restart(n, t)
          [] step = "send" -> IF ~ok THEN Panic(n, "get_mut") ELSE Advance([n EXCEPT !.set[h].tx = 1], t)
          [] step = "can_recv" -> IF ~ok THEN Panic(n, "get_mut") ELSE IF can_recv(n, h) THEN Advance(n, t) ELSE Restart(n, t)
          [] step = "recv" -> IF ~ok THEN Panic(n, "get_mut") ELSE Advance([n EXCEPT !.set[h].rx = 0], t)
          [] step = "can" -> IF ~ok THEN Panic(n, "get_mut") ELSE Advance(n, t)
          [] step = "close" -> Advance([n EXCEPT !.set[h] = Close(@)], t)
          [] step = "remove" -> Advance(ReleaseAll(Remove(n, t), t), t)
          [] step = "start_query" -> Advance(ReleaseAll(n, t), t)
          [] step = "get_query_result" -> Advance(n, t)

Running == net.panic = None

Step(t) ==
    /\ Running /\ net.thr[t].todo # <<>>
    /\ LET step == Head(net.thr[t].todo)
       IN  /\ Granted(net, step, t)
           /\ step = "add" => SlotFree(net) # {}
           /\ net' = Do(net, t, step)

\* A thread makes its next call, on a new object or on one it has.
Begins(t, todo, kind, h, i) ==
    net' = [net EXCEPT !.thr[t].todo = todo, !.thr[t].whole = todo, !.thr[t].kind = kind, !.thr[t].h = h, !.thr[t].i = i,
                       !.thr[t].calls = @ + 1]

Idle(t) == Running /\ net.thr[t].todo = <<>> /\ net.thr[t].calls < MaxCalls /\ net.alive[ProcessOf[t]]

Opens(t) ==
    /\ Idle(t)
    /\ \E call \in Calls \cap {"udp", "listen", "connect", "icmp"} :
          Begins(t, New(call).todo, New(call).kind, 0, 0)

Uses(t) ==
    /\ Idle(t)
    /\ \E i \in DOMAIN net.thr[t].objs :
          LET o == net.thr[t].objs[i]
          IN  \E call \in Calls \cap DOMAIN Methods(o) : Begins(t, Methods(o)[call], o.kind, o.h, i)

Resolves(t) == Idle(t) /\ "resolve" \in Calls /\ Begins(t, get_ip_addresses, None, 0, 0)

\* ---------------------------------------------------------- the poll thread
\* I and S are only tried; SOCKET_PROCESS is waited for.

PollInterfaces ==
    /\ Running /\ net.poll = "idle"
    /\ Writable(net, "I")
    /\ net' = [Take(net, "I", Poller) EXCEPT !.poll = "sockets"]

\* Mutant: giving up keeps the lock on the interfaces.
PollKeepsLock ==
    /\ Running /\ net.poll = "sockets"
    /\ net' = IF Writable(net, "S") THEN [Take(net, "S", Poller) EXCEPT !.poll = "iface"] ELSE [net EXCEPT !.poll = "idle"]

PollSockets ==
    /\ Running /\ net.poll = "sockets"
    /\ net' = IF Writable(net, "S") THEN [Take(net, "S", Poller) EXCEPT !.poll = "iface"]
              ELSE [ReleaseAll(net, Poller) EXCEPT !.poll = "idle"]

\* What smoltcp may do with a socket (external).
Progress(s) ==
    IF s.kind = "tcp" THEN
        CASE s.st = "listen" -> {[s EXCEPT !.st = "open"]}
          [] s.st = "connecting" -> {[s EXCEPT !.st = "open"], [s EXCEPT !.st = "closed"]}
          [] s.st = "open" -> {[s EXCEPT !.st = "remote_closed"], [s EXCEPT !.rx = 1], [s EXCEPT !.tx = 0]}
          [] s.st = "closing" -> {[s EXCEPT !.st = "closed"]}
          [] OTHER -> {}
    ELSE IF s.kind # None /\ s.st = "bound" THEN {[s EXCEPT !.rx = 1], [s EXCEPT !.tx = 0]} ELSE {}

\* The DHCP socket's events: the address and the default route; the name
\* servers stay when the lease is lost.
Leased(n, event) ==
    CASE event = "deconfigured" -> n.lease \ {"address", "route"}
      [] event = "router" -> {"address", "route", "dns"}
      [] event = "no_router" -> {"address", "dns"}

PollDevice ==
    /\ Running /\ net.poll = "iface"
    /\ \/ net' = [net EXCEPT !.poll = "map"]
       \/ /\ net.events < MaxEvents
          /\ \E h \in 1 .. Slots : \E s \in Progress(net.set[h]) \ {net.set[h]} :
                net' = [net EXCEPT !.set[h] = s, !.events = @ + 1, !.poll = "map"]
       \/ /\ net.events < MaxEvents
          /\ \E e \in {"deconfigured", "router", "no_router"} :
                net' = [net EXCEPT !.lease = Leased(net, e), !.events = @ + 1, !.poll = "map"]

\* Mutant: a closed connection goes although its handle is in use.
CollectClosed(n, h) ==
    \/ n.set[h].kind = "udp" /\ n.owner[h] = None
    \/ n.set[h].kind = "tcp" /\ n.set[h].st = "closed"

\* Closed sockets whose handle is not in the map are removed.
Collectable(n, h) ==
    /\ n.set[h].kind = "udp" \/ (n.set[h].kind = "tcp" /\ n.set[h].st = "closed")
    /\ n.owner[h] = None

\* Whether a thread is about to register the handle.
Opening(n, h) == \E t \in Threads : n.thr[t].h = h /\ n.thr[t].todo # <<>> /\ Head(n.thr[t].todo) \in {"lockM", "insert"} /\ n.thr[t].whole # close_socket

PollCollects ==
    /\ Running /\ net.poll = "map" /\ Readable(net, "M")
    /\ LET gone == {h \in 1 .. Slots : Collectable(net, h)}
       IN  net' = [ReleaseAll(net, Poller) EXCEPT !.poll = "idle",
                      !.set = [h \in DOMAIN @ |-> IF h \in gone THEN Free ELSE @[h]],
                      !.early = @ \/ \E h \in gone : Opening(net, h)]

\* ------------------------------------------------------------ the cleanup
\* A process exits without dropping its objects.  Its entries in the map hold
\* references to it, so it is dropped when there are none.

Exits(p) ==
    /\ Running /\ Cleaner /\ net.alive[p] /\ \A t \in Threads : ProcessOf[t] = p => net.thr[t].todo = <<>>
    /\ net' = [net EXCEPT !.alive[p] = FALSE]

Referenced(n, p) == \E h \in 1 .. Slots : n.owner[h] = p

DropProcess(p) ==
    /\ Running /\ net.clean = <<"idle", None>> /\ ~net.alive[p] /\ p \notin net.dropped /\ ~Referenced(net, p)
    /\ Writable(net, "P")
    /\ net' = [Take(net, "P", Dropper) EXCEPT !.clean = <<"M", p>>]

close_sockets_for_process ==
    /\ Running
    /\ \/ net.clean[1] = "M" /\ Writable(net, "M") /\ net' = [Take(net, "M", Dropper) EXCEPT !.clean[1] = "S"]
       \/ /\ net.clean[1] = "S" /\ Writable(net, "S")
          /\ LET p == net.clean[2]
                 handles == {h \in 1 .. Slots : net.owner[h] = p}
             IN  net' = [ReleaseAll(net, Dropper) EXCEPT !.clean = <<"idle", None>>, !.dropped = @ \cup {p},
                            !.found = @ + Cardinality(handles),
                            !.owner = [h \in DOMAIN @ |-> IF h \in handles THEN None ELSE @[h]],
                            !.set = [h \in DOMAIN @ |-> IF h \in handles THEN Free ELSE @[h]]]

Init ==
    net = [set |-> [s \in 1 .. Slots |-> Free], owner |-> [s \in 1 .. Slots |-> None],
           lock |-> [l \in {"I", "S", "M", "P"} |-> None], readers |-> [l \in {"I", "S", "M", "P"} |-> {}],
           thr |-> [t \in Threads |-> [todo |-> <<>>, whole |-> <<>>, kind |-> None, h |-> 0, i |-> 0, calls |-> 0, objs |-> <<>>]],
           lease |-> {}, poll |-> "idle", clean |-> <<"idle", None>>, alive |-> [p \in Processes |-> TRUE], dropped |-> {},
           events |-> 0, found |-> 0, early |-> FALSE, panic |-> None]

Next ==
    \/ \E t \in Threads : Step(t) \/ Opens(t) \/ Uses(t) \/ Resolves(t)
    \/ PollInterfaces \/ PollSockets \/ PollDevice \/ PollCollects
    \/ \E p \in Processes : Exits(p) \/ DropProcess(p)
    \/ close_sockets_for_process

Spec == Init /\ [][Next]_vars

\* ------------------------------------------------ what a system call returns
\* sys_sock_accept and sys_sock_receive pack two numbers, the library takes them
\* apart; sys_get_ip_adresses writes texts that end in 0 into a zeroed buffer.

Packed(high, low, W) == high * W + low
Unpacked(v, W) == <<v \div W, v % W>>

\* The offset of the i-th text.
Idx(ips, i) == FoldFunctionOnSet(LAMBDA t, n : n + Len(t) + 1, 0, ips, 1 .. i - 1)
sys_get_ip_adresses(ips, len) ==
    [k \in 1 .. len |-> LET at == {i \in DOMAIN ips : Idx(ips, i) < k /\ k <= Idx(ips, i) + Len(ips[i])}
                        IN  IF at = {} THEN 0 ELSE LET i == CHOOSE x \in at : TRUE IN ips[i][k - Idx(ips, i)]]

\* The maximal runs without 0.
split_ips(buf) ==
    LET starts == {k \in DOMAIN buf : buf[k] # 0 /\ (k = 1 \/ buf[k - 1] = 0)}
        End(k) == Max({e \in k .. Len(buf) : \A j \in k .. e : buf[j] # 0})
    IN  [n \in 1 .. Cardinality(starts) |->
            LET k == CHOOSE x \in starts : Cardinality({y \in starts : y <= x}) = n IN SubSeq(buf, k, End(k))]

\* ------------------------------------------------------------- properties

TypeOK ==
    /\ \A h \in 1 .. Slots : net.owner[h] \in Processes \cup {None} /\ net.set[h].rx \in 0 .. 1 /\ net.set[h].tx \in 0 .. 1
    /\ \A l \in {"I", "S", "M", "P"} : net.lock[l] \in Actors \cup {None} /\ (net.lock[l] # None => net.readers[l] = {})
    /\ net.poll \in {"idle", "sockets", "iface", "map"}

\* A process never loses a socket it has opened, and no call of it panics
\* because of that, unless poll_sockets collected a socket in the window
\* between its creation and its registration.
SocketsKept ==
    ~net.early =>
        /\ net.panic = None
        /\ \A h \in 1 .. Slots : net.owner[h] # None => net.set[h] # Free
        /\ \A t \in Threads : \A i \in DOMAIN net.thr[t].objs :
              LET o == net.thr[t].objs[i]
              IN  net.owner[o.h] = ProcessOf[t] \/ Head(net.thr[t].todo \o <<None>>) = "remove"
        /\ \A t, u \in Threads : \A i \in DOMAIN net.thr[t].objs, j \in DOMAIN net.thr[u].objs :
              <<t, i>> # <<u, j>> => net.thr[t].objs[i].h # net.thr[u].objs[j].h

\* A process that is dropped has no sockets left: the map's references keep it
\* alive until then, and closing its sockets never finds one.
CleanupFindsNone == net.found = 0

\* The library gets back what the kernel returned, for a port of any value, and
\* the addresses of a host that fit the buffer, in order.
ReturnsExact ==
    /\ \A high \in 0 .. 5, low \in 0 .. 3 : Unpacked(Packed(high, low, 4), 4) = <<high, low>>
    /\ LET texts == UNION {[1 .. n -> {1, 2}] : n \in 1 .. 2}
       IN  \A ips \in UNION {[1 .. n -> texts] : n \in 0 .. 3} : split_ips(sys_get_ip_adresses(ips, 9)) = ips

\* There is a default route only while there is an address, and then there are
\* name servers.
LeaseConsistent == ("route" \in net.lease => "address" \in net.lease) /\ ("address" \in net.lease => "dns" \in net.lease)

\* poll_sockets's comment: a socket is only removed once the process has
\* released its handle.
CollectsReleased == ~net.early

\* What an actor waits for, and who has it.
WaitsFor(a) ==
    IF a \in Threads THEN IF net.thr[a].todo = <<>> THEN None ELSE Needs(Head(net.thr[a].todo))
    ELSE IF a = Poller THEN IF net.poll = "map" THEN "M" ELSE None
    ELSE IF net.clean[1] \in {"M", "S"} THEN net.clean[1] ELSE None

Blocks(b, a) ==
    LET l == WaitsFor(a) IN a # b /\ l # None /\ (net.lock[l] = b \/ b \in net.readers[l])

\* Nobody waits in a circle for locks.  (Of the calls: not connect together
\* with resolve; and not while a process is dropped.)
NoCircularWait ==
    ~ \E A \in SUBSET Actors : A # {} /\ \A a \in A : \E b \in A : Blocks(b, a)

\* poll_sockets's comment: it gives up instead of waiting in a circle.
PollAvoidsDeadlock == ~ \E b \in Actors : Blocks(b, Poller) /\ Blocks(Poller, b)

\* A socket that poll_sockets may take out of the set, and one that is gone, or
\* whose place is used again.
Dropped(h) == Collectable(net, h) /\ ~Opening(net, h)
Collected(h) == net.set[h] = Free \/ net.owner[h] # None \/ net.panic # None

=============================================================================

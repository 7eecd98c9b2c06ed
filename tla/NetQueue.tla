------------------------------ MODULE NetQueue ------------------------------
(***************************************************************************)
(* The packet queue of a VLAN (net/queue.c, net.c): a packet that some     *)
(* client cannot take now is kept and delivered when that client asks for  *)
(* it.  A sender with a callback (tap, virtio-net) stops at a zero return  *)
(* until it is called back; one without (slirp) does not look.             *)
(*                                                                         *)
(* The clients are the parameters: whether one may refuse a packet (with   *)
(* room for a few), replies from its receive handler, sends a vector of    *)
(* buffers or has a callback.                                              *)
(***************************************************************************)
EXTENDS Integers, Sequences, FiniteSets

CONSTANTS Clients,    \* the clients of the VLAN, in the order of its list
          Refusers,   \* those whose receive handler may return 0
          Droppers,   \* those whose receive handler may return -1
          Repliers,   \* those that may send from their receive handler
          Callbacks,  \* those that send with a sent_cb
          Vectors,    \* those that send with qemu_sendv_packet_async
          Room,       \* packets a refuser takes before it refuses
          MaxSent,    \* bound on the packets of each sender
          None

All == {Clients[i] : i \in DOMAIN Clients}

(* slirp, which replies from its receive handler, takes every packet and    *)
(* sends without a callback.                                               *)
ASSUME NetAssumption ==
    /\ Clients \in Seq(All)
    /\ Refusers \cup Droppers \cup Repliers \cup Callbacks \cup Vectors \subseteq All
    /\ Repliers \cap (Refusers \cup Callbacks \cup Vectors) = {}
    /\ Room \in Nat \ {0} /\ MaxSent \in [All -> Nat] /\ None \notin All

VARIABLES
    packets,    \* the queue
    net,        \* the clients as receivers: receive_disabled, room, the last
                \* packet each had of each sender, and whose came late
    link_down,  \* the clients whose link is down
    stopped,    \* the senders that wait for their callback
    sent,       \* the number of packets each has sent
    flushes     \* for each call of qemu_net_queue_flush that is running, the
                \* innermost first, the sender whose callback it called, or None

vars == <<packets, net, link_down, stopped, sent, flushes>>

Packets == [sender : All, id : Nat \ {0}, cb : BOOLEAN]

TypeOK ==
    /\ packets \in Seq(Packets)
    /\ net \in [disabled : SUBSET Refusers, room : [Refusers -> 0 .. Room],
                last : [All -> [All -> Nat]], late : SUBSET All]
    /\ link_down \in SUBSET All /\ stopped \in SUBSET Callbacks
    /\ sent \in [All -> Nat]
    /\ flushes \in Seq(All \cup {None})

Init ==
    /\ packets = <<>>
    /\ net = [disabled |-> {}, room |-> [c \in Refusers |-> Room],
              last |-> [c \in All |-> [s \in All |-> 0]], late |-> {}]
    /\ link_down = {} /\ stopped = {} /\ sent = [c \in All |-> 0]
    /\ flushes = <<>>

-----------------------------------------------------------------------------
(* What the receive handler of c returns                                   *)
Length(c, n, drop) ==
    IF c \in drop THEN -1
    ELSE IF c \in Refusers /\ n.room[c] = 0 THEN 0 ELSE 1

Received(c, n, p, iov, len) ==
    [disabled |-> n.disabled \cup IF len = 0 /\ ~iov THEN {c} ELSE {},
     room |-> IF len = 1 /\ c \in Refusers THEN [n.room EXCEPT ![c] = @ - 1] ELSE n.room,
     last |-> IF len = 1 THEN [n.last EXCEPT ![c][p.sender] = p.id] ELSE n.last,
     late |-> n.late \cup IF len = 1 /\ p.id < n.last[c][p.sender]
                          THEN {p.sender} ELSE {}]

(* One turn of the loop over the clients.  A vector of buffers is offered  *)
(* to a client whose receive_disabled is set, too, and never sets it.      *)
Offer(d, c, p, iov, drop) ==
    IF c = p.sender THEN d
    ELSE IF c \in link_down THEN [d EXCEPT !.ret = 1]
    ELSE IF ~iov /\ c \in d.net.disabled THEN [d EXCEPT !.ret = 0]
    ELSE LET len == Length(c, d.net, drop)
         IN  [ret |-> IF d.ret >= 0 THEN d.ret ELSE len,
              net |-> Received(c, d.net, p, iov, len)]

(* qemu_vlan_deliver_packet and qemu_vlan_deliver_packet_iov               *)
qemu_vlan_deliver_packet(p, iov, drop) ==
    LET turn[i \in 0 .. Len(Clients)] ==
          IF i = 0 THEN [ret |-> -1, net |-> net]
          ELSE Offer(turn[i - 1], Clients[i], p, iov, drop)
    IN  turn[Len(Clients)]

Packet(s, cb) == [sender |-> s, id |-> sent[s] + 1, cb |-> cb]

(* A packet sent while the queue is delivering p is queued, with no        *)
(* callback.                                                               *)
Replies(p) ==
    {<<>>} \cup {<<Packet(r, FALSE)>> :
                    r \in {c \in Repliers \ (link_down \cup {p.sender}) : sent[c] < MaxSent[c]}}

Counted(s, replies) ==
    [c \in All |-> sent[c] + (IF c = s THEN 1 ELSE 0)
                    + Cardinality({i \in DOMAIN replies : replies[i].sender = c})]

QueueWithoutCallback(s, replies) ==
    packets' = packets \o replies \o <<Packet(s, FALSE)>>

(* qemu_net_queue_append after a delivery that returned 0                  *)
qemu_net_queue_append(s, replies) ==
    packets' = packets \o replies \o <<Packet(s, s \in Callbacks)>>

SendsOn(s) == stopped' = stopped \ {s}

(* tap_send, virtio_net_flush_tx after a zero return: a sender with a      *)
(* callback reads no more packets.                                         *)
Stops(s) == stopped' = stopped \cup ({s} \cap Callbacks)

(* qemu_net_queue_send, qemu_net_queue_send_iov with their callers: from   *)
(* the main loop, or, for virtio-net, from the sender's callback, which    *)
(* goes on once a flush that it caused is over.                            *)
qemu_net_queue_send(s, drop) ==
    /\ flushes # <<>> => Head(flushes) = s /\ s \in Vectors
    /\ s \notin stopped /\ sent[s] < MaxSent[s]
    /\ LET p == Packet(s, s \in Callbacks)
           d == qemu_vlan_deliver_packet(p, s \in Vectors, drop)
       IN  IF s \in link_down
           THEN /\ sent' = Counted(s, <<>>)
                /\ UNCHANGED <<packets, net, stopped, flushes>>
           ELSE \E replies \in Replies(p) :
                  /\ net' = d.net
                  /\ sent' = Counted(s, replies)
                  /\ IF d.ret = 0
                     THEN /\ qemu_net_queue_append(s, replies)
                          /\ Stops(s)
                          /\ UNCHANGED flushes
                     ELSE /\ packets' = packets \o replies
                          /\ flushes' = <<None>> \o flushes
                          /\ UNCHANGED stopped
    /\ UNCHANGED link_down

(* The packet refused again goes back to the head of the queue.            *)
KeepFirst(p, replies) == packets' = <<p>> \o Tail(packets) \o replies

(* The loop of a flush ends, and the callback it was called in goes on.    *)
EndOfFlush == flushes' = Tail(flushes)

(* One turn of qemu_net_queue_flush, with the callback of the packet       *)
qemu_net_queue_flush(drop) ==
    /\ flushes # <<>>
    /\ IF packets = <<>>
       THEN EndOfFlush /\ UNCHANGED <<packets, net, stopped, sent>>
       ELSE LET p == Head(packets)
                d == qemu_vlan_deliver_packet(p, FALSE, drop)
            IN  \E replies \in Replies(p) :
                  /\ net' = d.net
                  /\ sent' = Counted(None, replies)
                  /\ IF d.ret = 0
                     THEN KeepFirst(p, replies) /\ EndOfFlush /\ UNCHANGED stopped
                     ELSE /\ packets' = Tail(packets) \o replies
                          /\ stopped' = IF p.cb THEN stopped \ {p.sender} ELSE stopped
                          /\ flushes' = <<IF p.cb THEN p.sender ELSE None>> \o Tail(flushes)
    /\ UNCHANGED link_down

FlushStillDisabled(c) ==
    /\ flushes = <<>>
    /\ net' = [net EXCEPT !.room[c] = Room]
    /\ flushes' = <<None>>
    /\ UNCHANGED <<packets, link_down, stopped, sent>>

(* The client has room again, the kernel for tap_writable, the guest for   *)
(* virtio_net_handle_rx.                                                   *)
qemu_flush_queued_packets(c) ==
    /\ flushes = <<>>
    /\ net' = [net EXCEPT !.room[c] = Room, !.disabled = @ \ {c}]
    /\ flushes' = <<None>>
    /\ UNCHANGED <<packets, link_down, stopped, sent>>

(* The monitor's set_link                                                  *)
do_set_link(c) ==
    /\ flushes = <<>>
    /\ link_down' = IF c \in link_down THEN link_down \ {c} ELSE link_down \cup {c}
    /\ UNCHANGED <<packets, net, stopped, sent, flushes>>

Next ==
    \/ \E drop \in SUBSET Droppers :
          qemu_net_queue_flush(drop) \/ \E s \in All : qemu_net_queue_send(s, drop)
    \/ \E c \in Refusers : qemu_flush_queued_packets(c)
    \/ \E c \in All : do_set_link(c)

Spec == Init /\ [][Next]_vars

(* The main thread goes on with a flush; a client that refused a packet    *)
(* has room again some time and says so.                                   *)
FairSpec ==
    /\ Spec
    /\ WF_vars(\E drop \in SUBSET Droppers : qemu_net_queue_flush(drop))
    /\ \A c \in Refusers : SF_vars(qemu_flush_queued_packets(c))

-----------------------------------------------------------------------------
(* Whoever waits is waited for.  A sender is owed a callback exactly while *)
(* a packet of it that was refused is in the queue, and by that packet     *)
(* alone: none is lost, none comes twice.  A packet left in the queue has  *)
(* a client that will ask for it: outside of a flush some client refused   *)
(* the first one.                                                          *)
CallbackOwed ==
    /\ \A s \in Callbacks :
          Cardinality({i \in DOMAIN packets : packets[i].sender = s /\ packets[i].cb})
              = IF s \in stopped THEN 1 ELSE 0
    /\ packets # <<>> /\ flushes = <<>> =>
          \E c \in Refusers \ {Head(packets).sender} :
              c \in net.disabled \/ net.room[c] = 0

(* Packets of a sender that waits for its callbacks reach a client in the  *)
(* order sent (some may be lost, or come again), through refusals, replies *)
(* from receive handlers and sends from callbacks.                         *)
InOrder == net.late \cap Callbacks = {}

(* A sender that was stopped is called back.                               *)
SenderResumes == \A s \in Callbacks : s \in stopped ~> s \notin stopped

=============================================================================

----------------------------- MODULE DoipClient -----------------------------
(***************************************************************************)
(* The DoIP client of doip/doip_client.c: an application thread that       *)
(* initialises it and sends requests, the receive thread that puts frames  *)
(* together from the TCP stream and reconnects, and a peer.                *)
(*                                                                         *)
(* The stream is the frames the peer sent, one after the other; a byte is  *)
(* known by its position in it.  recv returns a piece of any length in     *)
(* Pieces.  recv_buf is the sequence of positions whose bytes it holds up  *)
(* to offset, 0 for a byte nobody knows.  A header that is not that of a   *)
(* frame, because it was put together from two places, announces any of    *)
(* Totals.                                                                 *)
(*                                                                         *)
(* Each access to the header of the shared request, gdoip_msg->hdr, and    *)
(* each system call is a step.                                             *)
(***************************************************************************)
EXTENDS Integers, Sequences, FiniteSets, DoipPdu

CONSTANTS
    Kinds,          \* the templates the peer takes its frames from
    Userdata,       \* user bytes of the diagnostic messages it sends
    Lens,           \* user bytes of the requests the application sends
    Pieces,         \* lengths recv may return
    BufferSize,     \* BUFFER_SIZE
    Totals,         \* what a header from two places may announce
    Overread,       \* stands for more bytes than the buffer holds
    NoMsg,          \* the value of gdoip_msg before malloc
    Junk,           \* what a word of fresh heap memory may hold
    MaxFrames,      \* bound: frames the peer sends
    MaxSends,       \* bound: requests the application sends
    MaxLosses       \* bound: connections that are lost or closed

(* gdoip_msg has room for 65535 bytes, 12 of them in front of the user     *)
(* data; recv_buf has room for 4095, so much is asked of recv, and every   *)
(* frame is assumed to fit.                                                *)
ASSUME Params ==
    /\ Kinds \subseteq DOMAIN Sizeof
    /\ BufferSize \in 1 .. 4095
    /\ Userdata \in Nat /\ 12 + Userdata <= BufferSize
    /\ \A kind \in Kinds : Sizeof[kind] <= BufferSize
    /\ Pieces \subseteq 1 .. BufferSize
    /\ Totals \subseteq Int
    /\ Lens \subseteq Nat /\ \A l \in Lens : 12 + l <= 65535
    /\ Junk \subseteq Nat
    /\ NoMsg \notin [PayloadType : Nat, PayloadLength : Nat]

(* total_len is an int, and so is offset - total_len.                      *)
ASSUME TotalsFit == Totals \subseteq -2147479552 .. 2147483647

VARIABLES
    gsock,          \* "none" (-1), "zero" (0) or "open"
    sockets,        \* number of sockets created and not closed
    conn,           \* the connection of gsock: "down", "up", "fin", "reset"
    remote_unlink, doip_sa_set,
    gRecvCb,        \* a callback is registered
    hdr,            \* gdoip_msg->hdr; NoMsg while gdoip_msg is NULL
    pc,             \* where the threads "app" and "rx" are
    len, send_len,  \* argument and local of doip_client_send
    frames,         \* the frames the peer sent
    got,            \* bytes of the stream received, or lost with a connection
    recv_buf,       \* positions of the bytes in recv_buf; its length is offset
    delivered,      \* the bytes handed to each call of the callback, or Overread
    whole,          \* history: numbers of the frames whose last byte was received
    clean,          \* history: every piece lay inside a frame, see Tidy
    failed,         \* history: the latest doip_client_send returned -1
    overlapped,     \* history: doiphdr_create ran during doip_client_send
    activated,      \* history: doip_routing_active sent since connect
    sends, losses   \* counters for the bounds

socket == <<gsock, sockets, conn, remote_unlink>>
message == <<doip_sa_set, hdr>>
request == <<len, send_len, failed, overlapped, sends>>
stream == <<frames, got, recv_buf, delivered, whole, clean>>
vars == <<socket, message, request, stream, gRecvCb, pc, activated, losses>>

-----------------------------------------------------------------------------
Threads == {"app", "rx"}
DiagType == MsgType.DIAG_MSG

Creating == {"create", "set_type", "set_length", "set_sa"}
Sending == {"measure", "swap_length", "swap_type", "send"}

Goto(t, label) == pc' = [pc EXCEPT ![t] = label]

\* Where doip_routing_active and doiphdr_create return to.
Resume(t) == IF t = "app" THEN "ready" ELSE "recv"

WireFrame(kind) == Frame(kind, IF kind = "DIAG_MSG" THEN Userdata ELSE 0)

FrameSize(kind) == Sizeof[kind] + (IF kind = "DIAG_MSG" THEN Userdata ELSE 0)

\* The position of the last byte of the i-th frame.
Ends(fs) ==
    LET e[i \in 0 .. Len(fs)] == IF i = 0 THEN 0 ELSE e[i - 1] + FrameSize(fs[i])
    IN e

End == Ends(frames)

Start(i) == End[i - 1] + 1

-----------------------------------------------------------------------------
Init ==
    /\ gsock = "none" /\ sockets = 0 /\ conn = "down"
    /\ remote_unlink = FALSE /\ doip_sa_set = FALSE
    /\ gRecvCb = FALSE
    /\ hdr = NoMsg
    /\ pc = [app |-> "start", rx |-> "none"]
    /\ len = 0 /\ send_len = 0
    /\ frames = <<>> /\ got = 0 /\ recv_buf = <<>>
    /\ delivered = <<>> /\ whole = {} /\ clean = TRUE
    /\ failed = FALSE /\ overlapped = FALSE /\ activated = FALSE
    /\ sends = 0 /\ losses = 0

(* doip_register_cb, before the client is initialised.                     *)
RegisterCb ==
    /\ pc.app = "start"
    /\ gRecvCb' = TRUE
    /\ UNCHANGED <<socket, message, request, stream, pc, activated, losses>>

-----------------------------------------------------------------------------
(* doip_client_init                                                        *)

InitSocket ==
    /\ pc.app = "start"
    /\ \/ gsock' = "open" /\ sockets' = sockets + 1 /\ Goto("app", "connect")
       \/ Goto("app", "init_failed") /\ UNCHANGED <<gsock, sockets>>
    /\ UNCHANGED <<conn, remote_unlink, message, request, stream, gRecvCb, activated, losses>>

InitConnect ==
    /\ pc.app = "connect"
    /\ \/ conn' = "up" /\ Goto("app", "create") /\ UNCHANGED remote_unlink
       \/ remote_unlink' = TRUE /\ Goto("app", "spawn") /\ UNCHANGED conn
    /\ UNCHANGED <<gsock, sockets, message, request, stream, gRecvCb, activated, losses>>

Spawn ==
    /\ pc.app = "spawn"
    /\ pc' = [app |-> "ready", rx |-> "recv"]
    /\ UNCHANGED <<socket, message, request, stream, gRecvCb, activated, losses>>

(* doiphdr_create, called by doip_client_init (the receive thread is not   *)
(* running yet) and by doip_routing_active.                                *)

InCreate(t) ==
    /\ overlapped' = (overlapped \/ (t = "rx" /\ pc.app \in Sending))
    /\ UNCHANGED <<socket, stream, gRecvCb, activated, losses, len, send_len, failed, sends>>

CreateMsg(t) ==
    /\ pc[t] = "create"
    /\ IF hdr = NoMsg
       THEN \E ty, ln \in Junk : hdr' = [PayloadType |-> ty, PayloadLength |-> ln]
       ELSE UNCHANGED hdr
    /\ Goto(t, "set_type")
    /\ InCreate(t)
    /\ UNCHANGED doip_sa_set

SetType(t) ==
    /\ pc[t] = "set_type"
    /\ hdr' = [hdr EXCEPT !.PayloadType = DiagType]
    /\ Goto(t, "set_length")
    /\ InCreate(t)
    /\ UNCHANGED doip_sa_set

SetLength(t) ==
    /\ pc[t] = "set_length"
    /\ hdr' = [hdr EXCEPT !.PayloadLength = AddrSize]
    /\ Goto(t, "set_sa")
    /\ InCreate(t)
    /\ UNCHANGED doip_sa_set

SetSa(t) ==
    /\ pc[t] = "set_sa"
    /\ doip_sa_set' = TRUE
    /\ Goto(t, IF pc.rx = "none" THEN "spawn" ELSE "activate")
    /\ InCreate(t)
    /\ UNCHANGED hdr

-----------------------------------------------------------------------------
(* doip_routing_active, called by the application and, after a reconnect,  *)
(* by the receive thread (which then is at "routing" already).             *)

RoutingCall ==
    /\ pc.app = "ready"
    /\ ~activated
    /\ Goto("app", "routing")
    /\ UNCHANGED <<socket, message, request, stream, gRecvCb, activated, losses>>

RoutingCheck(t) ==
    /\ pc[t] = "routing"
    /\ Goto(t, IF remote_unlink THEN Resume(t)
               ELSE IF doip_sa_set THEN "activate" ELSE "create")
    /\ UNCHANGED <<socket, message, request, stream, gRecvCb, activated, losses>>

\* send works on a connection in use, and may still work on one the peer has
\* closed.
CanSend == gsock = "open" /\ conn \in {"up", "fin"}
CanFail == ~(gsock = "open" /\ conn = "up")

Activate(t) ==
    /\ pc[t] = "activate"
    /\ \/ CanSend /\ activated' = TRUE
       \/ CanFail /\ UNCHANGED activated
    /\ Goto(t, Resume(t))
    /\ UNCHANGED <<socket, message, request, stream, gRecvCb, losses>>

-----------------------------------------------------------------------------
(* doip_client_send                                                        *)

\* PayloadLength += len.  (Without gdoip_msg the call returns -1 at once.)
SendCall ==
    /\ pc.app = "ready"
    /\ sends < MaxSends
    /\ hdr # NoMsg
    /\ len' \in Lens
    /\ sends' = sends + 1
    /\ hdr' = [hdr EXCEPT !.PayloadLength = @ + len']
    /\ overlapped' = (pc.rx \in Creating)
    /\ Goto("app", "measure")
    /\ UNCHANGED <<socket, doip_sa_set, send_len, failed, stream, gRecvCb, activated, losses>>

SendMeasure ==
    /\ pc.app = "measure"
    /\ send_len' = hdr.PayloadLength + 8
    /\ Goto("app", "swap_length")
    /\ UNCHANGED <<socket, message, stream, gRecvCb, activated, losses,
                   len, failed, overlapped, sends>>

SwapLength ==
    /\ pc.app = "swap_length"
    /\ hdr' = [hdr EXCEPT !.PayloadLength = Swap32(@)]
    /\ Goto("app", "swap_type")
    /\ UNCHANGED <<socket, doip_sa_set, request, stream, gRecvCb, activated, losses>>

SwapType ==
    /\ pc.app = "swap_type"
    /\ hdr' = [hdr EXCEPT !.PayloadType = Swap16(@)]
    /\ Goto("app", "send")
    /\ UNCHANGED <<socket, doip_sa_set, request, stream, gRecvCb, activated, losses>>

SendReturn ==
    /\ Goto("app", "ready")
    /\ len' = 0
    /\ send_len' = 0
    /\ overlapped' = FALSE
    /\ UNCHANGED <<socket, doip_sa_set, stream, gRecvCb, activated, losses, sends>>

\* Faulty: only the length is put back.
FaultySendOk ==
    /\ pc.app = "send"
    /\ CanSend
    /\ hdr' = [hdr EXCEPT !.PayloadLength = AddrSize]
    /\ failed' = FALSE
    /\ SendReturn

SendOk ==
    /\ pc.app = "send"
    /\ CanSend
    /\ hdr' = [PayloadType |-> DiagType, PayloadLength |-> AddrSize]
    /\ failed' = FALSE
    /\ SendReturn

\* The header stays as it was sent.
SendFail ==
    /\ pc.app = "send"
    /\ CanFail
    /\ failed' = TRUE
    /\ SendReturn
    /\ UNCHANGED hdr

-----------------------------------------------------------------------------
(* recv_loop                                                               *)

\* What the header in a buffer says: the frame it is the header of, or, for
\* bytes from two places, some type and any of Totals.
HeaderOf(buf) ==
    {i \in 1 .. Len(frames) :
        \A k \in 1 .. HdrSize : buf[k] = Start(i) + k - 1}

Decode(buf) ==
    IF HeaderOf(buf) # {}
    THEN {[ type |-> Swap16(WireFrame(frames[i]).PayloadType),
            total |-> Swap32(WireFrame(frames[i]).PayloadLength) + 8 ] : i \in HeaderOf(buf)}
    ELSE [type : {DiagType, 0}, total : Totals]

\* Is the piece one the receive loop can do with?  It must lie inside one
\* frame, and one that ends a frame must be longer than 12 bytes.
Tidy(n) ==
    \A i \in 1 .. Len(frames) :
        /\ ~(got < End[i] /\ End[i] < got + n)
        /\ End[i] = got + n => n > HdrSize + AddrSize

\* recv returns n bytes.
Recv(n) ==
    /\ pc.rx = "recv"
    /\ gsock = "open" /\ conn \in {"up", "fin"}
    /\ got + n <= End[Len(frames)]
    /\ got' = got + n
    /\ clean' = (clean /\ Tidy(n))
    /\ whole' = whole \cup {i \in 1 .. Len(frames) : got < End[i] /\ End[i] <= got + n}
    /\ UNCHANGED <<socket, message, request, frames, gRecvCb, activated, losses>>

\* It has put them behind the offset bytes there are, ...
Received(n) ==
    /\ Recv(n)
    /\ Len(recv_buf) + n <= BufferSize
    /\ UNCHANGED pc

\* ... and beyond recv_buf if they do not fit: the statics there are
\* overwritten, and what the program does then is not followed.
Overrun(n) ==
    /\ Recv(n)
    /\ Len(recv_buf) + n > BufferSize
    /\ pc' = [app |-> "overrun", rx |-> "overrun"]
    /\ UNCHANGED <<recv_buf, delivered>>

Buffered(n) == recv_buf \o [k \in 1 .. n |-> got + k]

\* recvLen <= 12
ReceiveSmall(n) ==
    /\ n <= HdrSize + AddrSize
    /\ Received(n)
    /\ recv_buf' = Buffered(n)
    /\ UNCHANGED delivered

\* offset < total_len
ReceivePart(n) ==
    /\ n > HdrSize + AddrSize
    /\ Received(n)
    /\ \E h \in Decode(Buffered(n)) : Len(Buffered(n)) < h.total
    /\ recv_buf' = Buffered(n)
    /\ UNCHANGED delivered

\* offset -= total_len: what follows in the buffer stays where it is, and a
\* negative total takes in bytes nobody knows.
Consume(buf, total) ==
    recv_buf' = [k \in 1 .. Len(buf) - total |-> IF k <= Len(buf) THEN buf[k] ELSE 0]

\* What the callback gets: its length is the uint16_t of PayloadLength - 4.
UserdataIn(buf, total) ==
    LET length == (total - HdrSize - AddrSize) % 65536
    IN IF HdrSize + AddrSize + length <= Len(buf)
       THEN SubSeq(buf, HdrSize + AddrSize + 1, HdrSize + AddrSize + length)
       ELSE Overread

\* Not a diagnostic message, or nobody to give it to.
ReceiveOther(n) ==
    /\ n > HdrSize + AddrSize
    /\ Received(n)
    /\ \E h \in Decode(Buffered(n)) :
          /\ Len(Buffered(n)) >= h.total
          /\ h.type # DiagType \/ ~gRecvCb
          /\ Consume(Buffered(n), h.total)
    /\ UNCHANGED delivered

\* Faulty: only the payload is taken off.
FaultyReceiveDiag(n) ==
    /\ n > HdrSize + AddrSize
    /\ Received(n)
    /\ \E h \in Decode(Buffered(n)) :
          /\ Len(Buffered(n)) >= h.total
          /\ h.type = DiagType /\ gRecvCb
          /\ delivered' = Append(delivered, UserdataIn(Buffered(n), h.total))
          /\ Consume(Buffered(n), h.total - HdrSize)

ReceiveDiag(n) ==
    /\ n > HdrSize + AddrSize
    /\ Received(n)
    /\ \E h \in Decode(Buffered(n)) :
          /\ Len(Buffered(n)) >= h.total
          /\ h.type = DiagType /\ gRecvCb
          /\ delivered' = Append(delivered, UserdataIn(Buffered(n), h.total))
          /\ Consume(Buffered(n), h.total)

\* recv returns -1: there is no connection.  (After an orderly close it returns
\* 0, again and again, and the loop does nothing.)
ReceiveError ==
    /\ pc.rx = "recv"
    /\ gsock # "open" \/ conn \in {"down", "reset"}
    /\ Goto("rx", IF ~remote_unlink THEN "close"
                  ELSE IF gsock = "zero" THEN "socket" ELSE "connect")
    /\ UNCHANGED <<socket, message, request, stream, gRecvCb, activated, losses>>

\* close, on the socket; gsock keeps the number of it.
CloseSocket ==
    /\ pc.rx = "close"
    /\ \/ /\ gsock = "open" /\ sockets' = sockets - 1
          /\ conn' = "down"
          /\ Goto("rx", "forget")
       \/ Goto("rx", "recv") /\ UNCHANGED <<sockets, conn>>
    /\ UNCHANGED <<gsock, remote_unlink, message, request, stream, gRecvCb, activated, losses>>

ForgetSocket ==
    /\ pc.rx = "forget"
    /\ gsock' = "zero"
    /\ Goto("rx", "unlink")
    /\ UNCHANGED <<sockets, conn, remote_unlink, message, request, stream, gRecvCb, activated, losses>>

\* Faulty: closing is not remembered.
FaultyUnlink ==
    /\ pc.rx = "unlink"
    /\ Goto("rx", "recv")
    /\ UNCHANGED <<socket, message, request, stream, gRecvCb, activated, losses>>

Unlink ==
    /\ pc.rx = "unlink"
    /\ remote_unlink' = TRUE
    /\ Goto("rx", "recv")
    /\ UNCHANGED <<gsock, sockets, conn, message, request, stream, gRecvCb, activated, losses>>

CreateSocket ==
    /\ pc.rx = "socket"
    /\ \/ gsock' = "open" /\ sockets' = sockets + 1 /\ Goto("rx", "connect")
       \/ gsock' = "none" /\ Goto("rx", "returned") /\ UNCHANGED sockets
    /\ UNCHANGED <<conn, remote_unlink, message, request, stream, gRecvCb, activated, losses>>

\* connect succeeds: a new stream, behind whatever recv_buf holds.
Reconnect ==
    /\ pc.rx = "connect"
    /\ conn' = "up" /\ remote_unlink' = FALSE
    /\ activated' = FALSE
    /\ Goto("rx", "routing")
    /\ clean' = (clean /\ \E i \in 0 .. Len(frames) : End[i] = got)
    /\ got' = End[Len(frames)]
    /\ UNCHANGED <<gsock, sockets, message, request, gRecvCb, losses,
                   frames, recv_buf, delivered, whole>>

\* Faulty: a new socket for every attempt.
FaultyReconnectFail ==
    /\ pc.rx = "connect"
    /\ Goto("rx", "recv")
    /\ gsock' = "zero"
    /\ UNCHANGED <<sockets, conn, remote_unlink, message, request, stream, gRecvCb, activated, losses>>

\* connect fails; the next attempt is a second later.
ReconnectFail ==
    /\ pc.rx = "connect"
    /\ Goto("rx", "recv")
    /\ UNCHANGED <<socket, message, request, stream, gRecvCb, activated, losses>>

-----------------------------------------------------------------------------
(* The peer and the network.  They act on an established connection.       *)

PeerSend(kind) ==
    /\ conn = "up"
    /\ Len(frames) < MaxFrames
    /\ frames' = Append(frames, kind)
    /\ UNCHANGED <<socket, message, request, got, recv_buf, delivered, whole, clean,
                   gRecvCb, pc, activated, losses>>

\* The connection breaks (what was not received is lost), or the peer closes it.
PeerLeaves(how) ==
    /\ conn = "up" \/ (conn = "fin" /\ how = "reset")
    /\ losses < MaxLosses
    /\ losses' = losses + 1
    /\ conn' = how
    /\ UNCHANGED <<gsock, sockets, remote_unlink, message, request, stream, gRecvCb, pc, activated>>

-----------------------------------------------------------------------------
Routing(t) == RoutingCheck(t) \/ Activate(t)

Create(t) == CreateMsg(t) \/ SetType(t) \/ SetLength(t) \/ SetSa(t)

App ==
    \/ InitSocket \/ InitConnect \/ Spawn \/ Create("app") \/ Routing("app")
    \/ SendMeasure \/ SwapLength \/ SwapType \/ SendOk \/ SendFail

Receive ==
    \E n \in Pieces :
        ReceiveSmall(n) \/ ReceivePart(n) \/ ReceiveOther(n) \/ ReceiveDiag(n) \/ Overrun(n)

Closing == CloseSocket \/ ForgetSocket \/ Unlink

ReceiveThread ==
    \/ Receive \/ ReceiveError \/ Closing \/ CreateSocket \/ Reconnect \/ ReconnectFail
    \/ Create("rx") \/ Routing("rx")

Next ==
    \/ RegisterCb \/ RoutingCall \/ SendCall
    \/ App
    \/ ReceiveThread
    \/ \E kind \in Kinds : PeerSend(kind)
    \/ \E how \in {"reset", "fin"} : PeerLeaves(how)

Spec == Init /\ [][Next]_vars

(***************************************************************************)
(* Both threads go on with what they are doing.  close succeeds if it is   *)
(* tried again and again, and a peer that is asked again and again         *)
(* accepts.                                                                *)
(***************************************************************************)
Fairness ==
    /\ WF_vars(App)
    /\ WF_vars(ReceiveThread)
    /\ SF_vars(Reconnect)
    /\ SF_vars(CloseSocket /\ pc'.rx = "forget")

FairSpec == Spec /\ Fairness

-----------------------------------------------------------------------------
(* Properties                                                              *)

(* What the client, the kernel's side of the connection and the peer keep  *)
(* (doip_client.c: its globals, recv_buf and offset of recv_loop).         *)
TypeOK ==
    /\ gsock \in {"none", "zero", "open"}
    /\ sockets \in Nat
    /\ conn \in {"down", "up", "fin", "reset"}
    /\ remote_unlink \in BOOLEAN /\ doip_sa_set \in BOOLEAN /\ gRecvCb \in BOOLEAN
    /\ hdr = NoMsg \/ hdr \in [PayloadType : Nat, PayloadLength : Nat]
    /\ pc.app \in {"start", "connect", "spawn", "ready", "init_failed", "routing", "activate",
                   "overrun"} \cup Creating \cup Sending
    /\ pc.rx \in {"none", "recv", "close", "forget", "unlink", "socket", "connect", "routing",
                  "activate", "returned", "overrun"} \cup Creating
    /\ len \in Lens \cup {0} /\ send_len \in Nat
    /\ frames \in Seq(Kinds) /\ got \in 0 .. End[Len(frames)]
    /\ recv_buf \in Seq(0 .. got)
    /\ delivered \in Seq(Seq(0 .. got) \cup {Overread}) /\ whole \subseteq 1 .. Len(frames)
    /\ clean \in BOOLEAN /\ failed \in BOOLEAN /\ overlapped \in BOOLEAN /\ activated \in BOOLEAN

\* The user data of the i-th frame.
UserdataOf(i) ==
    [k \in 1 .. FrameSize(frames[i]) - HdrSize - AddrSize |-> Start(i) + HdrSize + AddrSize + k - 1]

\* The diagnostic messages that have arrived.
Diag == {i \in whole : frames[i] = "DIAG_MSG"}

(* As long as TCP hands over pieces that never cross the end of a frame,   *)
(* end each frame with a piece of more than 12 bytes, and a connection is  *)
(* never lost inside a frame, the callback gets the user data of every     *)
(* diagnostic message that has arrived, whole, once and in order - across  *)
(* reconnects, and whatever other frames come in between - and nothing is  *)
(* written beyond recv_buf.                                                *)
Delivered ==
    clean =>
        /\ pc.rx # "overrun"
        /\ \E due \in [1 .. Cardinality(Diag) -> Diag] :
              /\ \A j, k \in DOMAIN due : j < k => due[j] < due[k]
              /\ delivered = IF gRecvCb THEN [j \in DOMAIN due |-> UserdataOf(due[j])] ELSE <<>>

(* Each request goes out as one diagnostic message with the length of its  *)
(* own user data, though the header is built up in place in a shared       *)
(* message - unless the call before it failed, or the receive thread       *)
(* was in doiphdr_create.                                                  *)
SentWell ==
    pc.app = "send" /\ ~failed /\ ~overlapped =>
        /\ Swap16(hdr.PayloadType) = DiagType
        /\ Swap32(hdr.PayloadLength) = AddrSize + len
        /\ send_len = HdrSize + AddrSize + len

(* However often connecting fails or the connection is lost, the client    *)
(* has at most one socket, and gsock is that one - but for the moment in   *)
(* which gsock is still the number of a socket just closed.                *)
OneSocket == sockets = IF gsock = "open" /\ pc.rx # "forget" THEN 1 ELSE 0

(* A broken connection is replaced and routing is activated on the new     *)
(* one, by the receive thread alone - whatever the application does with   *)
(* gsock while it is closed; unless the thread ended because no socket     *)
(* could be created, or recv_buf was overrun.  A peer that closes in good  *)
(* order is not called back.                                               *)
Reconnects ==
    pc.rx # "none" /\ (conn = "reset" \/ remote_unlink) ~>
        \/ conn = "up" /\ activated /\ ~remote_unlink
        \/ conn = "fin"
        \/ pc.rx \in {"returned", "overrun"}
=============================================================================

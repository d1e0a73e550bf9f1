-------------------------- MODULE DoipClientProofs --------------------------
(* Proofs about DoipClient, for any peer, network and requests.            *)
EXTENDS DoipClient, Lemmas

-----------------------------------------------------------------------------
(* Byte order                                                              *)

\* The word of four bytes, the most significant one first.
Word(d, a, b, c) == d * 16777216 + a * 65536 + b * 256 + c

\* What HTONL makes of a length on the host, whose first byte is zero, ...
LEMMA SwapBytes ==
    ASSUME NEW a \in 0 .. 255, NEW b \in 0 .. 255, NEW c \in 0 .. 255
    PROVE  Swap32(Word(0, a, b, c)) = Word(c, b, a, 0)
<1> DEFINE x == Word(0, a, b, c)
<1>0. x \in Nat
  BY SMT DEF Word
<1>1. x % 256 = c /\ x \div 256 = a * 256 + b
  BY SMT DEF Word
<1>2. (a * 256 + b) % 256 = b /\ x \div 65536 = a
  BY SMT DEF Word
<1>3. a % 256 = a /\ x \div 16777216 = 0 /\ 0 % 256 = 0
  BY SMT DEF Word
<1> HIDE DEF x
<1>4. Swap32(x) = Word(c, b, a, 0)
  BY <1>0, <1>1, <1>2, <1>3, SMT DEF Swap32, Word
<1> QED BY <1>4 DEF x

\* ... and of its form on the wire.
LEMMA SwapBack ==
    ASSUME NEW a \in 0 .. 255, NEW b \in 0 .. 255, NEW c \in 0 .. 255
    PROVE  Swap32(Word(c, b, a, 0)) = Word(0, a, b, c)
<1> DEFINE x == Word(c, b, a, 0)
<1>0. x \in Nat
  BY SMT DEF Word
<1>1. x % 256 = 0 /\ x \div 256 = c * 65536 + b * 256 + a
  BY SMT DEF Word
<1>2. (c * 65536 + b * 256 + a) % 256 = a /\ x \div 65536 = c * 256 + b
  BY SMT DEF Word
<1>3. (c * 256 + b) % 256 = b /\ x \div 16777216 = c /\ c % 256 = c
  BY SMT DEF Word
<1> HIDE DEF x
<1>4. Swap32(x) = Word(0, a, b, c)
  BY <1>0, <1>1, <1>2, <1>3, SMT DEF Swap32, Word
<1> QED BY <1>4 DEF x

\* Lengths as the code has them on the host.
Length(n) == n \in Nat /\ n < 16777216

\* HTONL undoes itself on every length.
LEMMA SwapTwice ==
    ASSUME NEW n, Length(n)
    PROVE  Swap32(n) \in Nat /\ Swap32(Swap32(n)) = n
<1> DEFINE a == n \div 65536
           b == (n \div 256) % 256
           c == n % 256
<1>a. a \in 0 .. 255
  BY SMT DEF Length
<1>b. b \in 0 .. 255
  BY SMT DEF Length
<1>c. c \in 0 .. 255
  BY SMT DEF Length
<1>n. n = Word(0, a, b, c)
  <2>1. n = (n \div 256) * 256 + c
    BY SMT DEF Length
  <2>2. n \div 256 = ((n \div 256) \div 256) * 256 + b
    BY SMT DEF Length
  <2>3. (n \div 256) \div 256 = a
    BY SMT DEF Length
  <2> QED BY <2>1, <2>2, <2>3, SMT DEF Length, Word
<1> HIDE DEF a, b, c
<1>2. Swap32(n) = Word(c, b, a, 0)
  BY <1>a, <1>b, <1>c, <1>n, SwapBytes
<1>3. Swap32(Swap32(n)) = n
  <2>1. Swap32(Word(c, b, a, 0)) = Word(0, a, b, c)
    BY <1>a, <1>b, <1>c, SwapBack
  <2> QED BY <1>n, <1>2, <2>1, Zenon
<1>4. Swap32(n) \in Nat
  BY <1>a, <1>b, <1>c, <1>2, SMT DEF Word
<1> QED BY <1>3, <1>4

-----------------------------------------------------------------------------
(* The socket.  gsock and the number of open sockets agree because each    *)
(* place of the receive thread goes with one value of gsock.               *)

AppLabels == {"start", "init_failed", "connect", "spawn", "ready", "routing", "activate", "overrun"}
             \cup Creating \cup Sending

RxLabels == {"none", "recv", "close", "forget", "unlink", "socket", "connect", "routing",
             "activate", "returned", "overrun"} \cup Creating

\* Where the application is before the receive thread runs.
Alone == {"start", "init_failed", "connect", "spawn"}

Places ==
    /\ pc \in [app : AppLabels, rx : RxLabels]
    /\ pc.app \in Alone => pc.rx = "none"
    /\ pc.rx = "none" => pc.app \in Alone \cup Creating

SocketAt ==
    /\ gsock \in {"none", "zero", "open"}
    /\ pc.app \in {"start", "init_failed"} => gsock = "none"
    /\ pc.rx = "none" /\ pc.app \notin {"start", "init_failed"} => gsock = "open"
    /\ pc.rx \in {"close", "forget", "connect", "routing", "activate"} \cup Creating => gsock = "open"
    /\ pc.rx = "recv" => gsock # "none"
    /\ pc.rx = "recv" /\ ~remote_unlink => gsock = "open"
    /\ pc.rx \in {"unlink", "socket"} => gsock = "zero"

SocketInv == Places /\ SocketAt /\ OneSocket

LEMMA SocketInit == Init => SocketInv
  BY DEF Init, SocketInv, Places, SocketAt, OneSocket, AppLabels, RxLabels, Alone, Creating, Sending

\* A step that leaves the threads and the socket where they are.
LEMMA SocketStutter ==
    SocketInv /\ UNCHANGED <<pc, gsock, sockets, remote_unlink>> => SocketInv'
  BY DEF SocketInv, Places, SocketAt, OneSocket

\* A step of the application that leaves the socket alone, with both threads
\* running.
LEMMA SocketApp ==
    ASSUME SocketInv, NEW label \in AppLabels \ Alone, pc.rx # "none",
           pc.app \notin {"start", "init_failed"}, Goto("app", label),
           UNCHANGED <<gsock, sockets, remote_unlink>>
    PROVE  SocketInv'
  BY DEF SocketInv, Places, SocketAt, OneSocket, Goto, Alone

LEMMA SocketNext ==
    SocketInv /\ [Next]_vars => SocketInv'
<1> SUFFICES ASSUME SocketInv, [Next]_vars
             PROVE  SocketInv'
  OBVIOUS
<1> USE DEF socket
<1>1. CASE RegisterCb
  BY <1>1, SocketStutter DEF RegisterCb
<1>2. CASE RoutingCall \/ SendCall \/ SendMeasure \/ SwapLength \/ SwapType \/ SendOk \/ SendFail
  <2>1. pc.app \notin Alone \cup Creating /\ UNCHANGED <<gsock, sockets, remote_unlink>>
    BY <1>2 DEF RoutingCall, SendCall, SendMeasure, SwapLength, SwapType, SendOk, SendFail, SendReturn,
                Alone, Creating
  <2>2. pc.rx # "none"
    BY <2>1 DEF SocketInv, Places
  <2>3. PICK label \in {"routing", "ready"} \cup Sending : Goto("app", label)
    BY <1>2 DEF RoutingCall, SendCall, SendMeasure, SwapLength, SwapType, SendOk, SendFail, SendReturn, Sending
  <2>4. label \in AppLabels \ Alone
    BY DEF AppLabels, Alone, Sending
  <2> QED BY <2>1, <2>2, <2>3, <2>4, SocketApp DEF Alone
<1>3. CASE InitSocket
  BY <1>3, SMT DEF InitSocket, SocketInv, Places, SocketAt, OneSocket, Goto, AppLabels, RxLabels, Alone, Creating, Sending
<1>4. CASE InitConnect
  BY <1>4, SMT DEF InitConnect, SocketInv, Places, SocketAt, OneSocket, Goto, AppLabels, RxLabels, Alone, Creating, Sending
<1>5. CASE Spawn
  BY <1>5, SMT DEF Spawn, SocketInv, Places, SocketAt, OneSocket, Goto, AppLabels, RxLabels, Alone, Creating, Sending
<1>6. ASSUME NEW t \in Threads, Create(t)
      PROVE  SocketInv'
  <2>1. PICK label \in {"set_type", "set_length", "set_sa"} :
            \/ Goto(t, label)
            \/ Goto(t, IF pc.rx = "none" THEN "spawn" ELSE "activate")
    BY <1>6 DEF Create, CreateMsg, SetType, SetLength, SetSa
  <2>2. pc[t] \in Creating /\ UNCHANGED <<gsock, sockets, remote_unlink>>
    BY <1>6 DEF Create, CreateMsg, SetType, SetLength, SetSa, InCreate, Creating
  <2>3. CASE t = "app"
    BY <2>1, <2>2, <2>3, SMT DEF SocketInv, Places, SocketAt, OneSocket, Goto, AppLabels, RxLabels, Alone, Creating, Sending
  <2>4. CASE t = "rx"
    BY <2>1, <2>2, <2>4, SMT DEF SocketInv, Places, SocketAt, OneSocket, Goto, AppLabels, RxLabels, Alone, Creating, Sending
  <2> QED BY <2>3, <2>4 DEF Threads
<1>7. ASSUME NEW t \in Threads, Routing(t)
      PROVE  SocketInv'
  <2>1. PICK label \in {"activate", "create", Resume(t)} : Goto(t, label)
    BY <1>7 DEF Routing, RoutingCheck, Activate
  <2>2. pc[t] \in {"routing", "activate"} /\ UNCHANGED <<gsock, sockets, remote_unlink>>
    BY <1>7 DEF Routing, RoutingCheck, Activate
  <2>3. CASE t = "app"
    BY <2>1, <2>2, <2>3, SMT DEF SocketInv, Places, SocketAt, OneSocket, Goto, Resume, AppLabels, RxLabels, Alone, Creating, Sending
  <2>4. CASE t = "rx"
    BY <2>1, <2>2, <2>4, SMT DEF SocketInv, Places, SocketAt, OneSocket, Goto, Resume, AppLabels, RxLabels, Alone, Creating, Sending
  <2> QED BY <2>3, <2>4 DEF Threads
<1>8. ASSUME NEW n \in Pieces, ReceiveSmall(n) \/ ReceivePart(n) \/ ReceiveOther(n) \/ ReceiveDiag(n)
      PROVE  SocketInv'
  BY <1>8, SocketStutter DEF ReceiveSmall, ReceivePart, ReceiveOther, ReceiveDiag, Received, Recv
<1>17. ASSUME NEW n \in Pieces, Overrun(n)
       PROVE  SocketInv'
  <2>1. /\ pc.rx = "recv" /\ pc' = [app |-> "overrun", rx |-> "overrun"]
        /\ UNCHANGED <<gsock, sockets, remote_unlink>>
    BY <1>17 DEF Overrun, Recv
  <2> QED BY <2>1, SMT DEF SocketInv, Places, SocketAt, OneSocket, AppLabels, RxLabels, Alone, Creating, Sending
<1>9. CASE ReceiveError
  BY <1>9, SMT DEF ReceiveError, SocketInv, Places, SocketAt, OneSocket, Goto, AppLabels, RxLabels, Alone, Creating, Sending
<1>10. CASE CloseSocket
  BY <1>10, SMT DEF CloseSocket, SocketInv, Places, SocketAt, OneSocket, Goto, AppLabels, RxLabels, Alone, Creating, Sending
<1>18. CASE ForgetSocket
  BY <1>18, SMT DEF ForgetSocket, SocketInv, Places, SocketAt, OneSocket, Goto, AppLabels, RxLabels, Alone, Creating, Sending
<1>19. CASE Unlink
  BY <1>19, SMT DEF Unlink, SocketInv, Places, SocketAt, OneSocket, Goto, AppLabels, RxLabels, Alone, Creating, Sending
<1>11. CASE CreateSocket
  BY <1>11, SMT DEF CreateSocket, SocketInv, Places, SocketAt, OneSocket, Goto, AppLabels, RxLabels, Alone, Creating, Sending
<1>12. CASE Reconnect
  BY <1>12, SMT DEF Reconnect, SocketInv, Places, SocketAt, OneSocket, Goto, AppLabels, RxLabels, Alone, Creating, Sending
<1>13. CASE ReconnectFail
  BY <1>13, SMT DEF ReconnectFail, SocketInv, Places, SocketAt, OneSocket, Goto, AppLabels, RxLabels, Alone, Creating, Sending
<1>14. ASSUME NEW kind \in Kinds, PeerSend(kind)
       PROVE  SocketInv'
  BY <1>14, SocketStutter DEF PeerSend
<1>15. ASSUME NEW how \in {"reset", "fin"}, PeerLeaves(how)
       PROVE  SocketInv'
  BY <1>15, SocketStutter DEF PeerLeaves
<1>16. CASE UNCHANGED vars
  BY <1>16, SocketStutter DEF vars
<1> QED
  BY <1>1, <1>2, <1>3, <1>4, <1>5, <1>6, <1>7, <1>8, <1>9, <1>10, <1>11, <1>12, <1>13, <1>14,
     <1>15, <1>16, <1>17, <1>18, <1>19 DEF Next, App, ReceiveThread, Receive, Closing, Threads

(* The client never has more than one socket, and gsock is that one,       *)
(* whatever fails and however often the connection is lost: recv_loop      *)
(* (doip_client.c:93-183) closes before it creates.                        *)
THEOREM OneSocketAtATime == Spec => []OneSocket
<1>1. SocketInv => OneSocket
  BY DEF SocketInv
<1> QED BY SocketInit, SocketNext, <1>1, PTL DEF Spec

-----------------------------------------------------------------------------
(* The header of the request.  Between requests it is the template of an   *)
(* empty diagnostic message, except for what a thread in doiphdr_create    *)
(* is about to write; during a request it is that template with what each  *)
(* step of doip_client_send has changed.                                   *)

Records == [PayloadType : Nat, PayloadLength : Nat]

Writing == {"set_type", "set_length", "set_sa"}

Shape ==
    /\ hdr = NoMsg \/ hdr \in Records
    /\ pc.app \in Writing \/ pc.rx \in Writing => hdr \in Records
    /\ pc.app \in Sending => hdr \in Records /\ len \in Lens
    /\ failed \in BOOLEAN /\ overlapped \in BOOLEAN

TypeReady == pc.app # "set_type" /\ pc.rx # "set_type"

LengthReady == {pc.app, pc.rx} \cap {"set_type", "set_length"} = {}

Idle ==
    ~failed /\ pc.app \notin Sending \cup {"overrun"} /\ hdr # NoMsg =>
        /\ TypeReady => hdr.PayloadType = DiagType
        /\ LengthReady => hdr.PayloadLength = AddrSize

Request ==
    pc.app \in Sending /\ ~failed /\ ~overlapped =>
        /\ pc.rx \notin Writing
        /\ pc.app # "send" => hdr.PayloadType = DiagType
        /\ pc.app \in {"measure", "swap_length"} => hdr.PayloadLength = AddrSize + len
        /\ pc.app # "measure" => send_len = HdrSize + AddrSize + len
        /\ pc.app \in {"swap_type", "send"} => Swap32(hdr.PayloadLength) = AddrSize + len
        /\ pc.app = "send" => Swap16(hdr.PayloadType) = DiagType

HeaderInv == Places /\ Shape /\ Idle /\ Request

LEMMA SwapDiag == Swap16(Swap16(DiagType)) = DiagType /\ Swap16(DiagType) \in Nat /\ DiagType \in Nat
<1>1. DiagType = 32769
  BY SMT DEF DiagType, MsgType
<1>2. Swap16(32769) = 384
  BY SMT DEF Swap16
<1>3. Swap16(384) = 32769
  BY SMT DEF Swap16
<1> QED BY <1>1, <1>2, <1>3, SMT

LEMMA LengthSent ==
    ASSUME NEW l \in Lens
    PROVE  /\ l \in Nat /\ AddrSize + l \in Nat
           /\ Swap32(AddrSize + l) \in Nat
           /\ Swap32(Swap32(AddrSize + l)) = AddrSize + l
<1>1. l \in Nat /\ l <= 65535
  BY Params, SMT DEF Params
<1>2. Length(AddrSize + l)
  BY <1>1, SMT DEF Length, AddrSize
<1> QED BY <1>1, <1>2, SwapTwice, SMT DEF AddrSize

LEMMA HeaderInit == Init => HeaderInv
<1> SUFFICES ASSUME Init PROVE HeaderInv
  OBVIOUS
<1>1. Places
  BY SocketInit DEF SocketInv
<1>2. pc.app = "start" /\ pc.rx = "none" /\ hdr = NoMsg /\ failed = FALSE /\ overlapped = FALSE
  BY DEF Init
<1>3. Shape /\ Idle /\ Request
  BY <1>2 DEF Shape, Idle, Request, Sending, Writing
<1> QED BY <1>1, <1>3 DEF HeaderInv

\* A step that leaves the header, the request and the places alone.
LEMMA HeaderStutter ==
    HeaderInv /\ UNCHANGED <<pc, hdr, len, send_len, failed, overlapped>> => HeaderInv'
  BY DEF HeaderInv, Places, Shape, Idle, Request, TypeReady, LengthReady

\* A step that leaves the header and the request alone and moves the threads
\* between places that are not those of a write.
LEMMA HeaderMove ==
    ASSUME HeaderInv, Places',
           pc.app = pc'.app \/ {pc.app, pc'.app} \cap (Writing \cup Sending \cup {"overrun"}) = {},
           pc.rx = pc'.rx \/ {pc.rx, pc'.rx} \cap Writing = {},
           UNCHANGED <<hdr, len, send_len, failed, overlapped>>
    PROVE  HeaderInv'
<1>1. Shape'
  BY DEF HeaderInv, Shape
<1>2. Idle'
  BY DEF HeaderInv, Idle, TypeReady, LengthReady, Writing
<1>3. Request'
  BY DEF HeaderInv, Request, Sending
<1> QED BY <1>1, <1>2, <1>3 DEF HeaderInv

LEMMA HeaderSend ==
    ASSUME HeaderInv, Places',
           SendCall \/ SendMeasure \/ SwapLength \/ SwapType \/ SendOk \/ SendFail
    PROVE  HeaderInv'
<1> USE DEF HeaderInv
<1>1. CASE SendCall
  <2>1. /\ pc.app = "ready" /\ pc'.app = "measure" /\ pc'.rx = pc.rx
        /\ hdr \in Records /\ hdr # NoMsg /\ len' \in Lens
        /\ hdr' = [hdr EXCEPT !.PayloadLength = @ + len']
        /\ overlapped' = (pc.rx \in Creating) /\ failed' = failed
    BY <1>1 DEF SendCall, Places, Goto, request, Shape
  <2>2. len' \in Nat
    BY <2>1, LengthSent
  <2>3. hdr' \in Records
    BY <2>1, <2>2 DEF Records
  <2>4. Shape'
    BY <2>1, <2>3 DEF Shape, Writing, Sending
  <2>5. Idle'
    BY <2>1 DEF Idle, Sending
  <2>6. ASSUME ~failed', ~overlapped'
        PROVE  pc'.rx \notin Writing /\ hdr'.PayloadType = DiagType
               /\ hdr'.PayloadLength = AddrSize + len'
    <3>1. pc.rx \notin Writing /\ TypeReady /\ LengthReady
      BY <2>1, <2>6 DEF TypeReady, LengthReady, Writing, Creating
    <3>2. hdr.PayloadType = DiagType /\ hdr.PayloadLength = AddrSize
      BY <2>1, <2>6, <3>1 DEF Idle, Sending
    <3> QED BY <2>1, <3>1, <3>2 DEF Records
  <2>7. Request'
    BY <2>1, <2>6 DEF Request
  <2> QED BY <2>4, <2>5, <2>7
<1>2. CASE SendMeasure
  <2>1. /\ pc.app = "measure" /\ pc'.app = "swap_length" /\ pc'.rx = pc.rx
        /\ send_len' = hdr.PayloadLength + 8
        /\ UNCHANGED <<hdr, len, failed, overlapped>>
    BY <1>2 DEF SendMeasure, Places, Goto, message
  <2>2. Shape' /\ Idle'
    BY <2>1 DEF Shape, Idle, Writing, Sending
  <2>3. Request'
    <3> SUFFICES ASSUME ~failed, ~overlapped
                 PROVE  pc.rx \notin Writing /\ hdr.PayloadType = DiagType
                        /\ hdr.PayloadLength = AddrSize + len /\ send_len' = HdrSize + AddrSize + len
      BY <2>1 DEF Request
    <3>1. pc.rx \notin Writing /\ hdr.PayloadType = DiagType /\ hdr.PayloadLength = AddrSize + len
      BY <2>1 DEF Request, Sending
    <3>2. len \in Nat
      BY <2>1, LengthSent DEF Shape, Sending
    <3> QED BY <2>1, <3>1, <3>2, SMT DEF HdrSize, AddrSize
  <2> QED BY <2>2, <2>3
<1>3. CASE SwapLength
  <2>1. /\ pc.app = "swap_length" /\ pc'.app = "swap_type" /\ pc'.rx = pc.rx /\ hdr \in Records
        /\ hdr' = [hdr EXCEPT !.PayloadLength = Swap32(@)]
        /\ UNCHANGED <<len, send_len, failed, overlapped>>
    BY <1>3 DEF SwapLength, Places, Goto, request, Shape, Sending
  <2>2. hdr' \in Records
    <3>1. \A n \in Nat : Swap32(n) \in Nat
      BY SMT DEF Swap32
    <3> QED BY <2>1, <3>1 DEF Records
  <2>3. Shape' /\ Idle'
    BY <2>1, <2>2 DEF Shape, Idle, Writing, Sending
  <2>4. Request'
    BY <2>1, LengthSent DEF Request, Shape, Sending, Records
  <2> QED BY <2>3, <2>4
<1>4. CASE SwapType
  <2>1. /\ pc.app = "swap_type" /\ pc'.app = "send" /\ pc'.rx = pc.rx /\ hdr \in Records
        /\ hdr' = [hdr EXCEPT !.PayloadType = Swap16(@)]
        /\ UNCHANGED <<len, send_len, failed, overlapped>>
    BY <1>4 DEF SwapType, Places, Goto, request, Shape, Sending
  <2>2. hdr' \in Records
    <3>1. \A n \in Nat : Swap16(n) \in Nat
      BY SMT DEF Swap16
    <3> QED BY <2>1, <3>1 DEF Records
  <2>3. Shape' /\ Idle'
    BY <2>1, <2>2 DEF Shape, Idle, Writing, Sending
  <2>4. Request'
    BY <2>1, SwapDiag DEF Request, Sending, Records
  <2> QED BY <2>3, <2>4
<1>5. CASE SendOk
  <2>1. /\ pc.app = "send" /\ pc'.app = "ready" /\ pc'.rx = pc.rx
        /\ hdr' = [PayloadType |-> DiagType, PayloadLength |-> AddrSize]
        /\ failed' \in BOOLEAN /\ overlapped' \in BOOLEAN
    BY <1>5 DEF SendOk, SendReturn, Places, Goto
  <2>2. hdr' \in Records
    BY <2>1, SwapDiag, AddrSize \in Nat, SMT DEF Records, AddrSize
  <2> QED BY <2>1, <2>2 DEF Shape, Idle, Request, Writing, Sending
<1>6. CASE SendFail
  BY <1>6 DEF SendFail, SendReturn, Places, Goto, Shape, Idle, Request, Writing, Sending
<1> QED BY <1>1, <1>2, <1>3, <1>4, <1>5, <1>6

LEMMA HeaderCreate ==
    ASSUME HeaderInv, Places', NEW t \in Threads, Create(t)
    PROVE  HeaderInv'
<1> USE DEF HeaderInv
<1>1. /\ UNCHANGED <<len, send_len, failed>>
      /\ overlapped' = (overlapped \/ (t = "rx" /\ pc.app \in Sending))
      /\ overlapped' \in BOOLEAN
      /\ pc[t] \in Creating
  BY DEF Create, CreateMsg, SetType, SetLength, SetSa, InCreate, Creating, Shape
<1>2. PICK label \in Writing \cup {"spawn", "activate"} : Goto(t, label)
  BY DEF Create, CreateMsg, SetType, SetLength, SetSa, Writing
<1>3. /\ t = "app" => pc.app \notin Sending /\ pc'.app \notin Sending /\ pc'.rx = pc.rx
      /\ t = "rx" => pc'.app = pc.app /\ (pc'.app \in Sending => overlapped')
  BY <1>1, <1>2 DEF Threads, Places, Goto, Creating, Sending, Writing
<1>4. Request'
  BY <1>3 DEF Request, Threads
<1>5. hdr' \in Records
  <2>1. CASE CreateMsg(t)
    BY <2>1, Params DEF CreateMsg, Params, Shape, Records
  <2>2. CASE SetType(t)
    BY <2>2, <1>1, SwapDiag DEF SetType, Shape, Records, Threads, Writing
  <2>3. CASE SetLength(t)
    <3>1. AddrSize \in Nat
      BY DEF AddrSize
    <3> QED BY <2>3, <1>1, <3>1 DEF SetLength, Shape, Records, Threads, Writing
  <2>4. CASE SetSa(t)
    BY <2>4, <1>1 DEF SetSa, Shape, Threads, Writing
  <2> QED BY <2>1, <2>2, <2>3, <2>4 DEF Create
<1>6. Shape'
  BY <1>1, <1>3, <1>5 DEF Shape, Threads, Sending
<1>7. Idle'
  <2>1. CASE CreateMsg(t)
    BY <2>1 DEF CreateMsg, Idle, TypeReady, LengthReady, Places, Goto, Threads
  <2>2. CASE SetType(t)
    BY <2>2, <1>1, <1>3 DEF SetType, Idle, Shape, Records, TypeReady, LengthReady, Places, Goto, Threads, Writing
  <2>3. CASE SetLength(t)
    <3>1. /\ hdr'.PayloadLength = AddrSize /\ hdr'.PayloadType = hdr.PayloadType /\ hdr # NoMsg
      BY <2>3, <1>1, Params DEF SetLength, Shape, Records, Threads, Writing, Params
    <3>2. TypeReady' => TypeReady
      BY <2>3 DEF SetLength, TypeReady, Places, Goto, Threads
    <3>3. ~failed' /\ pc'.app \notin Sending \cup {"overrun"} => ~failed /\ pc.app \notin Sending \cup {"overrun"}
      BY <1>1, <1>3 DEF Threads, Creating
    <3> QED BY <3>1, <3>2, <3>3 DEF Idle
  <2>4. CASE SetSa(t)
    BY <2>4, <1>1, <1>3 DEF SetSa, Idle, TypeReady, LengthReady, Places, Goto, Threads, Writing
  <2> QED BY <2>1, <2>2, <2>3, <2>4 DEF Create
<1> QED BY <1>4, <1>6, <1>7

LEMMA HeaderNext ==
    SocketInv /\ HeaderInv /\ [Next]_vars => HeaderInv'
<1> SUFFICES ASSUME SocketInv, HeaderInv, [Next]_vars
             PROVE  HeaderInv'
  OBVIOUS
<1>0. Places /\ Places'
  BY SocketNext DEF SocketInv
<1> USE DEF request, message
<1>1. CASE SendCall \/ SendMeasure \/ SwapLength \/ SwapType \/ SendOk \/ SendFail
  BY <1>0, <1>1, HeaderSend
<1>2. ASSUME NEW t \in Threads, Create(t)
      PROVE  HeaderInv'
  BY <1>0, <1>2, HeaderCreate
<1>3. CASE RegisterCb \/ UNCHANGED vars
  BY <1>3, HeaderStutter DEF RegisterCb, vars
<1>8. ASSUME NEW n \in Pieces, ReceiveSmall(n) \/ ReceivePart(n) \/ ReceiveOther(n) \/ ReceiveDiag(n)
      PROVE  HeaderInv'
  BY <1>8, HeaderStutter DEF ReceiveSmall, ReceivePart, ReceiveOther, ReceiveDiag, Received, Recv
<1>9. ASSUME NEW n \in Pieces, Overrun(n)
      PROVE  HeaderInv'
  <2>1. /\ pc'.app = "overrun" /\ pc'.rx = "overrun"
        /\ UNCHANGED <<hdr, len, send_len, failed, overlapped>>
    BY <1>9 DEF Overrun, Recv
  <2>2. Shape' /\ Idle' /\ Request'
    BY <2>1 DEF HeaderInv, Shape, Idle, Request, Writing, Sending
  <2> QED BY <1>0, <2>2 DEF HeaderInv
<1>4. ASSUME (\E kind \in Kinds : PeerSend(kind)) \/ (\E how \in {"reset", "fin"} : PeerLeaves(how))
      PROVE  HeaderInv'
  BY <1>4, HeaderStutter DEF PeerSend, PeerLeaves
<1>5. CASE RoutingCall \/ InitSocket \/ InitConnect \/ Spawn
  <2>1. /\ {pc.app, pc'.app} \cap (Writing \cup Sending \cup {"overrun"}) = {}
        /\ pc.rx = pc'.rx \/ {pc.rx, pc'.rx} \cap Writing = {}
        /\ UNCHANGED <<hdr, len, send_len, failed, overlapped>>
    BY <1>0, <1>5 DEF RoutingCall, InitSocket, InitConnect, Spawn, Goto, Places, Alone, Writing, Sending
  <2> QED BY <1>0, <2>1, HeaderMove
<1>6. ASSUME NEW t \in Threads, Routing(t)
      PROVE  HeaderInv'
  <2>1. PICK label \in {"activate", "create", Resume(t)} : Goto(t, label)
    BY <1>6 DEF Routing, RoutingCheck, Activate
  <2>2. /\ pc[t] \in {"routing", "activate"}
        /\ UNCHANGED <<hdr, len, send_len, failed, overlapped>>
    BY <1>6 DEF Routing, RoutingCheck, Activate
  <2>3. CASE t = "app"
    <3>1. {pc.app, pc'.app} \cap (Writing \cup Sending \cup {"overrun"}) = {} /\ pc'.rx = pc.rx
      BY <1>0, <2>1, <2>2, <2>3 DEF Goto, Resume, Places, Writing, Sending
    <3> QED BY <1>0, <2>2, <3>1, HeaderMove
  <2>4. CASE t = "rx"
    <3>1. {pc.rx, pc'.rx} \cap Writing = {} /\ pc'.app = pc.app
      BY <1>0, <2>1, <2>2, <2>4 DEF Goto, Resume, Places, Writing
    <3> QED BY <1>0, <2>2, <3>1, HeaderMove
  <2> QED BY <2>3, <2>4 DEF Threads
<1>7. CASE ReceiveError \/ Closing \/ CreateSocket \/ Reconnect \/ ReconnectFail
  <2>1. PICK label \in {"recv", "close", "forget", "unlink", "socket", "connect", "returned", "routing"} :
            Goto("rx", label)
    BY <1>7 DEF ReceiveError, Closing, CloseSocket, ForgetSocket, Unlink, CreateSocket, Reconnect, ReconnectFail
  <2>2. /\ pc.rx \in {"recv", "close", "forget", "unlink", "socket", "connect"}
        /\ UNCHANGED <<hdr, len, send_len, failed, overlapped>>
    BY <1>7 DEF ReceiveError, Closing, CloseSocket, ForgetSocket, Unlink, CreateSocket, Reconnect, ReconnectFail
  <2>3. {pc.rx, pc'.rx} \cap Writing = {} /\ pc'.app = pc.app
    BY <1>0, <2>1, <2>2 DEF Goto, Places, Writing
  <2> QED BY <1>0, <2>2, <2>3, HeaderMove
<1> QED
  BY <1>1, <1>2, <1>3, <1>4, <1>5, <1>6, <1>7, <1>8, <1>9 DEF Next, App, ReceiveThread, Receive, Threads

(* Each request goes out with the type of a diagnostic message and the     *)
(* length of its own user data, in network byte order, and as many bytes   *)
(* as that (doip_client_send, doip_client.c:322-352) - for requests of any *)
(* length that fits and whatever the heap held; unless the call before it  *)
(* failed or the receive thread was in doiphdr_create.                     *)
THEOREM RequestsSentWell == Spec => []SentWell
<1>1. HeaderInv => SentWell
  BY DEF HeaderInv, Request, SentWell, Sending
<1>2. Init => SocketInv /\ HeaderInv
  BY SocketInit, HeaderInit
<1>3. (SocketInv /\ HeaderInv) /\ [Next]_vars => (SocketInv /\ HeaderInv)'
  BY SocketNext, HeaderNext
<1> QED BY <1>1, <1>2, <1>3, PTL DEF Spec
-----------------------------------------------------------------------------
(* The frames on the wire.  A template decodes to its own type and length. *)

Names == { "GENERIC_NACK", "VI_REQ", "VI_REQ_EID", "VI_REQ_VIN", "VI_RSP", "RA_REQ", "RA_RSP",
       "DIAG_MSG", "DIAG_NACK", "DIAG_ACK", "AC_REQ", "AC_RSP", "PM_REQ", "PM_RSP",
       "ES_REQ", "ES_RSP" }
Domains ==
  /\ DOMAIN MsgType = Names
  /\ DOMAIN DiscoverySize = {"GENERIC_NACK", "VI_REQ", "VI_REQ_EID", "VI_REQ_VIN"}
  /\ DOMAIN AnnouncementSize = {"VI_RSP"}
  /\ DOMAIN ActivationSize = {"RA_REQ"}
  /\ DOMAIN ActivatedSize = {"RA_RSP"}
  /\ DOMAIN DiagnosticSize = {"DIAG_MSG"}
  /\ DOMAIN AckSize = {"DIAG_ACK"}
  /\ DOMAIN NackSize = {"DIAG_NACK"}
  /\ DOMAIN StateSize = {"AC_REQ", "AC_RSP", "PM_REQ", "PM_RSP", "ES_REQ", "ES_RSP"}
LEMMA Sizes ==
  /\ Sizeof["DIAG_MSG"] = 12
  /\ \A k \in Names : Sizeof[k] \in 8 .. 41
<1>1. Domains
  BY SMT DEF Domains, Names, MsgType, DiscoverySize, AnnouncementSize, ActivationSize, ActivatedSize, DiagnosticSize, AckSize, NackSize, StateSize
<1>2. \A k \in {"GENERIC_NACK", "VI_REQ", "VI_REQ_EID", "VI_REQ_VIN"} : Sizeof[k] = DiscoverySize[k]
  BY <1>1, SMT DEF Domains, Sizeof, Names
<1>3. /\ Sizeof["VI_RSP"] = AnnouncementSize["VI_RSP"]
      /\ Sizeof["RA_REQ"] = ActivationSize["RA_REQ"]
      /\ Sizeof["RA_RSP"] = ActivatedSize["RA_RSP"]
      /\ Sizeof["DIAG_MSG"] = DiagnosticSize["DIAG_MSG"]
      /\ Sizeof["DIAG_ACK"] = AckSize["DIAG_ACK"]
      /\ Sizeof["DIAG_NACK"] = NackSize["DIAG_NACK"]
  BY <1>1, SMT DEF Domains, Sizeof, Names
<1>4. \A k \in {"AC_REQ", "AC_RSP", "PM_REQ", "PM_RSP", "ES_REQ", "ES_RSP"} : Sizeof[k] = StateSize[k]
  BY <1>1, SMT DEF Domains, Sizeof, Names
<1>5. Sizeof["DIAG_MSG"] = 12
  BY <1>3, SMT DEF DiagnosticSize, HdrSize, AddrSize
<1>6. \A k \in {"GENERIC_NACK", "VI_REQ", "VI_REQ_EID", "VI_REQ_VIN"} : Sizeof[k] \in 8 .. 41
  BY <1>2, SMT DEF DiscoverySize, HdrSize
<1>7. \A k \in {"VI_RSP", "RA_REQ", "RA_RSP"} : Sizeof[k] \in 8 .. 41
  BY <1>3, SMT DEF AnnouncementSize, ActivationSize, ActivatedSize, HdrSize
<1>8. \A k \in {"DIAG_MSG", "DIAG_ACK", "DIAG_NACK"} : Sizeof[k] \in 8 .. 41
  BY <1>3, SMT DEF DiagnosticSize, AckSize, NackSize, HdrSize, AddrSize
<1>9. \A k \in {"AC_REQ", "AC_RSP", "PM_REQ", "PM_RSP", "ES_REQ", "ES_RSP"} : Sizeof[k] \in 8 .. 41
  BY <1>4, SMT DEF StateSize, HdrSize
<1>10. \A k \in Names : Sizeof[k] \in 8 .. 41
  BY <1>6, <1>7, <1>8, <1>9, Zenon DEF Names
<1> QED BY <1>5, <1>10

Short(n) == n \in 0 .. 65535

LEMMA Types ==
    \A k \in Names : Short(MsgType[k]) /\ (MsgType[k] = DiagType <=> k = "DIAG_MSG")
<1>1. /\ Short(MsgType["GENERIC_NACK"]) /\ MsgType["GENERIC_NACK"] # DiagType
      /\ Short(MsgType["VI_REQ"]) /\ MsgType["VI_REQ"] # DiagType
      /\ Short(MsgType["VI_REQ_EID"]) /\ MsgType["VI_REQ_EID"] # DiagType
      /\ Short(MsgType["VI_REQ_VIN"]) /\ MsgType["VI_REQ_VIN"] # DiagType
      /\ Short(MsgType["VI_RSP"]) /\ MsgType["VI_RSP"] # DiagType
      /\ Short(MsgType["RA_REQ"]) /\ MsgType["RA_REQ"] # DiagType
      /\ Short(MsgType["RA_RSP"]) /\ MsgType["RA_RSP"] # DiagType
      /\ Short(MsgType["DIAG_MSG"])
      /\ Short(MsgType["DIAG_NACK"]) /\ MsgType["DIAG_NACK"] # DiagType
      /\ Short(MsgType["DIAG_ACK"]) /\ MsgType["DIAG_ACK"] # DiagType
      /\ Short(MsgType["AC_REQ"]) /\ MsgType["AC_REQ"] # DiagType
      /\ Short(MsgType["AC_RSP"]) /\ MsgType["AC_RSP"] # DiagType
      /\ Short(MsgType["PM_REQ"]) /\ MsgType["PM_REQ"] # DiagType
      /\ Short(MsgType["PM_RSP"]) /\ MsgType["PM_RSP"] # DiagType
      /\ Short(MsgType["ES_REQ"]) /\ MsgType["ES_REQ"] # DiagType
      /\ Short(MsgType["ES_RSP"]) /\ MsgType["ES_RSP"] # DiagType
  BY SMT DEF MsgType, DiagType, Short
<1>2. MsgType["DIAG_MSG"] = DiagType
  BY DEF DiagType
<1>3. \A k \in Names : Short(MsgType[k])
  BY <1>1, Zenon DEF Names
<1>4. \A k \in Names : MsgType[k] = DiagType <=> k = "DIAG_MSG"
  BY <1>1, <1>2, Zenon DEF Names
<1> QED BY <1>3, <1>4, Zenon

LEMMA Table ==
    \A k \in Names : DOIP_MSGS[Idx[k]] = InitHdr(k)
<1>1. /\ DOIP_MSGS[Idx["GENERIC_NACK"]] = InitHdr("GENERIC_NACK")
      /\ DOIP_MSGS[Idx["VI_REQ"]] = InitHdr("VI_REQ")
      /\ DOIP_MSGS[Idx["VI_REQ_EID"]] = InitHdr("VI_REQ_EID")
      /\ DOIP_MSGS[Idx["VI_REQ_VIN"]] = InitHdr("VI_REQ_VIN")
      /\ DOIP_MSGS[Idx["VI_RSP"]] = InitHdr("VI_RSP")
      /\ DOIP_MSGS[Idx["RA_REQ"]] = InitHdr("RA_REQ")
      /\ DOIP_MSGS[Idx["RA_RSP"]] = InitHdr("RA_RSP")
      /\ DOIP_MSGS[Idx["DIAG_MSG"]] = InitHdr("DIAG_MSG")
      /\ DOIP_MSGS[Idx["DIAG_NACK"]] = InitHdr("DIAG_NACK")
      /\ DOIP_MSGS[Idx["DIAG_ACK"]] = InitHdr("DIAG_ACK")
      /\ DOIP_MSGS[Idx["AC_REQ"]] = InitHdr("AC_REQ")
      /\ DOIP_MSGS[Idx["AC_RSP"]] = InitHdr("AC_RSP")
      /\ DOIP_MSGS[Idx["PM_REQ"]] = InitHdr("PM_REQ")
      /\ DOIP_MSGS[Idx["PM_RSP"]] = InitHdr("PM_RSP")
      /\ DOIP_MSGS[Idx["ES_REQ"]] = InitHdr("ES_REQ")
      /\ DOIP_MSGS[Idx["ES_RSP"]] = InitHdr("ES_RSP")
  BY SMT DEF DOIP_MSGS, Idx, Templates
<1> QED BY <1>1 DEF Names

LEMMA SwapShort ==
    ASSUME NEW n, Short(n)
    PROVE  Swap16(Swap16(n)) = n
<1> DEFINE a == n \div 256
           b == n % 256
           x == b * 256 + a
<1>1. a \in 0 .. 255 /\ b \in 0 .. 255 /\ n = a * 256 + b
  BY SMT DEF Short
<1>2. Swap16(n) = x
  BY DEF Swap16
<1> HIDE DEF a, b
<1>3. x % 256 = a /\ x \div 256 = b
  BY <1>1, SMT
<1> HIDE DEF x
<1>4. Swap16(x) = a * 256 + b
  BY <1>3 DEF Swap16
<1> QED BY <1>1, <1>2, <1>4

LEMMA KindNames == Kinds \subseteq Names
<1>1. DOMAIN MsgType = Names
  BY SMT DEF MsgType, Names
<1> QED BY <1>1, Params DEF Params, Sizeof

\* How much a frame takes, and what its header says of it.
Frames ==
    \A kind \in Kinds :
        FrameSize(kind) \in Nat /\ FrameSize(kind) >= HdrSize /\ FrameSize(kind) <= BufferSize

LEMMA FrameSizes == Frames /\ FrameSize("DIAG_MSG") = HdrSize + AddrSize + Userdata
<1>1. Userdata \in Nat /\ HdrSize = 8 /\ AddrSize = 4
  BY Params, SMT DEF Params, HdrSize, AddrSize
<1>2. ASSUME NEW kind \in Kinds
      PROVE  FrameSize(kind) \in Nat /\ FrameSize(kind) >= HdrSize /\ FrameSize(kind) <= BufferSize
  <2>1. Sizeof[kind] \in 8 .. 41 /\ Sizeof[kind] <= BufferSize /\ BufferSize \in Nat
    BY KindNames, Sizes, Params, SMT DEF Params
  <2>4. Sizeof["DIAG_MSG"] = 12 /\ 12 + Userdata <= BufferSize
    BY Sizes, Params DEF Params
  <2>2. CASE kind = "DIAG_MSG"
    <3>1. FrameSize(kind) = Sizeof[kind] + Userdata
      BY <2>2 DEF FrameSize
    <3> QED BY <1>1, <2>1, <2>2, <2>4, <3>1, SMT
  <2>3. CASE kind # "DIAG_MSG"
    <3>1. FrameSize(kind) = Sizeof[kind] + 0
      BY <2>3 DEF FrameSize
    <3> QED BY <1>1, <2>1, <3>1, SMT
  <2> QED BY <2>2, <2>3
<1>3. FrameSize("DIAG_MSG") = 12 + Userdata
  BY Sizes DEF FrameSize
<1> QED BY <1>1, <1>2, <1>3, SMT DEF Frames

LEMMA HeaderDecodes ==
    ASSUME NEW kind \in Kinds
    PROVE  /\ Swap16(WireFrame(kind).PayloadType) = MsgType[kind]
           /\ Swap32(WireFrame(kind).PayloadLength) + 8 = FrameSize(kind)
<1> DEFINE u == IF kind = "DIAG_MSG" THEN Userdata ELSE 0
           z == Sizeof[kind]
           y == Swap32(z - HdrSize)
<1>1. kind \in Names /\ z \in 8 .. 41 /\ u \in 0 .. 4095 /\ HdrSize = 8
  <2>1. u \in 0 .. 4095
    <3>1. Userdata \in Nat /\ 12 + Userdata <= BufferSize /\ BufferSize \in 1 .. 4095
      BY Params DEF Params
    <3>2. Userdata \in 0 .. 4095 /\ 0 \in 0 .. 4095
      BY <3>1, SMT
    <3> QED BY <3>2
  <2>2. HdrSize = 8
    BY SMT DEF HdrSize
  <2> QED BY <2>1, <2>2, KindNames, Sizes
<1>2. FrameSize(kind) = z + u
  BY DEF FrameSize
<1>3. WireFrame(kind) = [InitHdr(kind) EXCEPT !.PayloadLength = Swap32(Swap32(@) + u)]
  BY <1>1, Table DEF WireFrame, Frame
<1>4. InitHdr(kind) = [PayloadType |-> Swap16(MsgType[kind]), PayloadLength |-> y]
  BY DEF InitHdr
<1> HIDE DEF u, z, y
<1>5. WireFrame(kind) = [PayloadType |-> Swap16(MsgType[kind]), PayloadLength |-> Swap32(Swap32(y) + u)]
  BY <1>3, <1>4
<1>6. Swap16(Swap16(MsgType[kind])) = MsgType[kind]
  BY <1>1, Types, SwapShort
<1>7. Swap32(y) = z - 8
  <2>1. Length(z - HdrSize)
    BY <1>1, SMT DEF Length
  <2> QED BY <1>1, <2>1, SwapTwice DEF y
<1>8. Swap32(Swap32(z - 8 + u)) = z - 8 + u
  <2>1. Length(z - 8 + u)
    BY <1>1, SMT DEF Length
  <2> QED BY <2>1, SwapTwice
<1>9. Swap32(WireFrame(kind).PayloadLength) + 8 = z + u
  BY <1>1, <1>5, <1>7, <1>8, SMT
<1> QED BY <1>2, <1>5, <1>6, <1>9

-----------------------------------------------------------------------------
(* The ends of the frames in the stream                                    *)

Marks(fs, n, e) == e = [i \in 0 .. n |-> IF i = 0 THEN 0 ELSE e[i - 1] + FrameSize(fs[i])]

\* The equation of the recursive function Ends has a solution.
LEMMA MarksExist ==
    ASSUME NEW fs, NEW n \in Nat
    PROVE  \E e : Marks(fs, n, e)
<1> DEFINE S == {m \in 0 .. n : \E e : Marks(fs, m, e)}
<1>1. 0 \in S
  <2> DEFINE e == [i \in 0 .. 0 |-> 0]
  <2>1. \A i \in 0 .. 0 : i = 0
    BY SMT
  <2>2. Marks(fs, 0, e)
    BY <2>1 DEF Marks
  <2>3. 0 \in 0 .. n
    BY SMT
  <2> HIDE DEF e
  <2> QED BY <2>2, <2>3
<1>2. ASSUME NEW m \in 0 .. n - 1, m \in S PROVE m + 1 \in S
  <2>1. PICK e : Marks(fs, m, e)
    BY <1>2
  <2> DEFINE d == [i \in 0 .. m + 1 |-> IF i = m + 1 THEN e[m] + FrameSize(fs[m + 1]) ELSE e[i]]
  <2>2. m + 1 \in 0 .. n /\ m + 1 # 0 /\ m + 1 - 1 = m /\ m \in 0 .. m + 1 /\ m # m + 1
    BY <1>2, SMT
  <2>3. \A i \in 0 .. m + 1 : i # m + 1 =>
           /\ i \in 0 .. m
           /\ i # 0 => i - 1 \in 0 .. m + 1 /\ i - 1 # m + 1
    BY <1>2, SMT
  <2>4. ASSUME NEW i \in 0 .. m + 1
        PROVE  d[i] = IF i = 0 THEN 0 ELSE d[i - 1] + FrameSize(fs[i])
    <3>1. CASE i = m + 1
      BY <2>2, <3>1
    <3>2. CASE i # m + 1
      <4>1. d[i] = e[i] /\ i \in 0 .. m
        BY <2>3, <3>2
      <4>2. e[i] = IF i = 0 THEN 0 ELSE e[i - 1] + FrameSize(fs[i])
        BY <2>1, <4>1, Zenon DEF Marks
      <4>3. i # 0 => d[i - 1] = e[i - 1]
        BY <2>3, <3>2
      <4> QED BY <4>1, <4>2, <4>3
    <3> QED BY <3>1, <3>2
  <2>5. d = [i \in 0 .. m + 1 |-> d[i]]
    OBVIOUS
  <2> HIDE DEF d
  <2>6. Marks(fs, m + 1, d)
    BY <2>4, <2>5 DEF Marks
  <2> QED BY <2>2, <2>6
<1> HIDE DEF S
<1>3. 0 .. n \subseteq S
  BY <1>1, <1>2, UpTo
<1>4. n \in 0 .. n
  BY SMT
<1> QED BY <1>3, <1>4 DEF S

LEMMA EndsStep ==
    ASSUME NEW fs \in Seq(Kinds)
    PROVE  /\ Ends(fs)[0] = 0
           /\ \A i \in 1 .. Len(fs) : Ends(fs)[i] = Ends(fs)[i - 1] + FrameSize(fs[i])
<1> DEFINE n == Len(fs)
           E == CHOOSE e : e = [i \in 0 .. n |-> IF i = 0 THEN 0 ELSE e[i - 1] + FrameSize(fs[i])]
<1>0. n \in Nat
  BY LenProperties
<1>1. Ends(fs) = E
  BY DEF Ends
<1>2. Marks(fs, n, E)
  <2>1. \E e : Marks(fs, n, e)
    BY <1>0, MarksExist
  <2>2. E = CHOOSE e : Marks(fs, n, e)
    BY DEF Marks
  <2> HIDE DEF E
  <2> QED BY <2>1, <2>2
<1> HIDE DEF E
<1>3. \A i \in 0 .. n : E[i] = IF i = 0 THEN 0 ELSE E[i - 1] + FrameSize(fs[i])
  BY <1>2, Zenon DEF Marks
<1>4. 0 \in 0 .. n /\ \A i \in 1 .. n : i \in 0 .. n /\ i # 0
  BY <1>0, SMT
<1> QED BY <1>1, <1>3, <1>4

\* The ends are in the order of the frames, ...
Increasing(fs) ==
    /\ \A i \in 0 .. Len(fs) : Ends(fs)[i] \in Nat
    /\ \A i, j \in 0 .. Len(fs) : i < j => Ends(fs)[i] < Ends(fs)[j]

LEMMA EndsIncrease ==
    ASSUME NEW fs \in Seq(Kinds)
    PROVE  Increasing(fs)
<1> DEFINE n == Len(fs)
           E == Ends(fs)
           S == {j \in 0 .. n : E[j] \in Nat /\ \A i \in 0 .. n : i < j => E[i] \in Nat /\ E[i] < E[j]}
<1>1. n \in Nat /\ \A i \in 1 .. n : fs[i] \in Kinds
  BY LenProperties
<1>2. \A i \in 1 .. n : FrameSize(fs[i]) \in Nat /\ FrameSize(fs[i]) >= 8
  BY <1>1, FrameSizes, SMT DEF Frames, HdrSize
<1>3. E[0] = 0 /\ \A i \in 1 .. n : E[i] = E[i - 1] + FrameSize(fs[i])
  BY EndsStep
<1> HIDE DEF E, n
<1>4. 0 \in S
  <2>1. 0 \in 0 .. n /\ \A i \in 0 .. n : ~(i < 0)
    BY <1>1, SMT
  <2> QED BY <1>3, <2>1
<1>5. ASSUME NEW j \in 0 .. n - 1, j \in S PROVE j + 1 \in S
  <2>1. j + 1 \in 1 .. n /\ j + 1 - 1 = j /\ j + 1 \in 0 .. n
    BY <1>1, <1>5, SMT
  <2>2. E[j + 1] = E[j] + FrameSize(fs[j + 1]) /\ FrameSize(fs[j + 1]) \in Nat /\ FrameSize(fs[j + 1]) >= 8
    BY <1>2, <1>3, <2>1
  <2>3. E[j] \in Nat /\ \A i \in 0 .. n : i < j => E[i] \in Nat /\ E[i] < E[j]
    BY <1>5
  <2>4. E[j + 1] \in Nat /\ E[j] < E[j + 1]
    BY <2>2, <2>3, SMT
  <2>5. ASSUME NEW i \in 0 .. n, i < j + 1 PROVE E[i] \in Nat /\ E[i] < E[j + 1]
    <3>1. i < j \/ i = j
      BY <1>1, <2>5, SMT
    <3>2. CASE i = j
      BY <2>3, <2>4, <3>2
    <3>3. CASE i < j
      <4>1. E[i] \in Nat /\ E[i] < E[j]
        BY <2>3, <3>3
      <4> QED BY <2>3, <2>4, <4>1, SMT
    <3> QED BY <3>1, <3>2, <3>3
  <2> QED BY <2>1, <2>4, <2>5
<1> HIDE DEF S
<1>6. 0 .. n \subseteq S
  BY <1>1, <1>4, <1>5, UpTo
<1> QED BY <1>6 DEF Increasing, S, E, n

\* ... and do not move when the peer sends another one.
LEMMA EndsStay ==
    ASSUME NEW fs \in Seq(Kinds), NEW kind \in Kinds
    PROVE  \A i \in 0 .. Len(fs) : Ends(Append(fs, kind))[i] = Ends(fs)[i]
<1> DEFINE n == Len(fs)
           gs == Append(fs, kind)
           S == {i \in 0 .. n : Ends(gs)[i] = Ends(fs)[i]}
<1>1. n \in Nat /\ gs \in Seq(Kinds) /\ Len(gs) = n + 1 /\ \A i \in 1 .. n : gs[i] = fs[i]
  BY AppendProperties, LenProperties
<1>2. /\ Ends(fs)[0] = 0
      /\ \A i \in 1 .. n : Ends(fs)[i] = Ends(fs)[i - 1] + FrameSize(fs[i])
  BY EndsStep
<1>3. /\ Ends(gs)[0] = 0
      /\ \A i \in 1 .. n + 1 : Ends(gs)[i] = Ends(gs)[i - 1] + FrameSize(gs[i])
  BY <1>1, EndsStep
<1> HIDE DEF n, gs
<1>4. 0 \in S
  BY <1>1, <1>2, <1>3, SMT
<1>5. ASSUME NEW i \in 0 .. n - 1, i \in S PROVE i + 1 \in S
  <2>1. i + 1 \in 1 .. n /\ i + 1 \in 1 .. n + 1 /\ i + 1 \in 0 .. n /\ i + 1 - 1 = i
    BY <1>1, SMT
  <2>2. Ends(gs)[i + 1] = Ends(gs)[i] + FrameSize(gs[i + 1])
    BY <1>3, <2>1
  <2>3. Ends(fs)[i + 1] = Ends(fs)[i] + FrameSize(fs[i + 1])
    BY <1>2, <2>1
  <2>4. Ends(gs)[i] = Ends(fs)[i] /\ gs[i + 1] = fs[i + 1]
    BY <1>1, <1>5, <2>1
  <2> QED BY <2>1, <2>2, <2>3, <2>4
<1> HIDE DEF S
<1>6. 0 .. n \subseteq S
  BY <1>1, <1>4, <1>5, UpTo
<1> QED BY <1>6 DEF S, n, gs

-----------------------------------------------------------------------------
(* What the client has received.  While the pieces are tidy, recv_buf      *)
(* holds the beginning of one frame and nothing else.                      *)

Arrivals ==
    /\ frames \in Seq(Kinds)
    /\ got \in 0 .. End[Len(frames)]
    /\ recv_buf \in Seq(0 .. got)
    /\ clean \in BOOLEAN /\ gRecvCb \in BOOLEAN
    /\ \A i \in whole : i \in 1 .. Len(frames) /\ End[i] <= got
    /\ pc.rx = "none" => whole = {} /\ delivered = <<>>

\* All of the first m frames has gone, and some of the next is in recv_buf.
Inside(m) ==
    /\ m \in 0 .. Len(frames)
    /\ End[m] <= got
    /\ m < Len(frames) => got < End[m + 1]
    /\ recv_buf = [k \in 1 .. got - End[m] |-> End[m] + k]

Assembled == clean => \E m \in Nat : Inside(m)

\* The last part of Delivered: the messages that are due are delivered.
Dues ==
    clean =>
        \E due \in [1 .. Cardinality(Diag) -> Diag] :
            /\ \A j, k \in DOMAIN due : j < k => due[j] < due[k]
            /\ delivered = IF gRecvCb THEN [j \in DOMAIN due |-> UserdataOf(due[j])] ELSE <<>>

Fits == clean => pc.rx # "overrun"

ReceiveInv == Arrivals /\ Assembled /\ Dues

LEMMA ReceiveInit == Init => ReceiveInv
<1> SUFFICES ASSUME Init PROVE ReceiveInv
  OBVIOUS
<1>1. /\ frames = <<>> /\ got = 0 /\ recv_buf = <<>> /\ delivered = <<>> /\ whole = {} /\ clean = TRUE
      /\ gRecvCb = FALSE
  BY DEF Init
<1>2. frames \in Seq(Kinds) /\ Len(frames) = 0 /\ End[0] = 0
  <2>1. frames \in Seq(Kinds) /\ Len(frames) = 0
    BY <1>1, SMT
  <2> QED BY <2>1, EndsStep DEF End
<1>3. Arrivals
  <2>1. recv_buf \in Seq(0 .. got)
    BY <1>1, EmptySeq
  <2>2. got \in 0 .. End[Len(frames)]
    BY <1>1, <1>2, SMT
  <2> QED BY <1>1, <1>2, <2>1, <2>2 DEF Arrivals
<1>4. Inside(0)
  <2>1. recv_buf = [k \in 1 .. got - End[0] |-> End[0] + k]
    BY <1>1, <1>2, SMT
  <2> QED BY <1>1, <1>2, <2>1, SMT DEF Inside
<1>5. Diag = {} /\ Cardinality(Diag) = 0
  BY <1>1, FS_EmptySet DEF Diag
<1>6. Dues
  <2> DEFINE due == [i \in 1 .. 0 |-> i]
  <2>1. 1 .. 0 = {} /\ DOMAIN due = {}
    BY SMT
  <2>2. due \in [1 .. Cardinality(Diag) -> Diag]
    BY <1>5, <2>1
  <2> HIDE DEF due
  <2> QED BY <1>1, <2>1, <2>2 DEF Dues
<1> QED BY <1>3, <1>4, <1>6 DEF ReceiveInv, Assembled

\* A function on 1 .. n is a sequence, and a sequence such a function.
LEMMA FunctionSeq ==
    ASSUME NEW S, NEW n \in Nat, NEW f \in [1 .. n -> S]
    PROVE  f \in Seq(S) /\ Len(f) = n
<1>1. f \in Seq(S)
  BY SeqDef
<1>2. Len(f) \in Nat /\ DOMAIN f = 1 .. Len(f)
  BY <1>1, LenProperties
<1> QED BY <1>1, <1>2, SMT

\* Behind what is in the buffer, the piece continues the stream.
LEMMA Continued ==
    ASSUME NEW a \in Nat, NEW b \in Nat, a <= b, NEW n \in Nat
    PROVE  [k \in 1 .. b - a |-> a + k] \o [k \in 1 .. n |-> b + k] = [k \in 1 .. b + n - a |-> a + k]
<1> DEFINE f == [k \in 1 .. b - a |-> a + k]
           g == [k \in 1 .. n |-> b + k]
           h == [k \in 1 .. b + n - a |-> a + k]
<1>0. b - a \in Nat /\ b + n - a \in Nat /\ (b - a) + n = b + n - a
  BY SMT
<1>1. f \in Seq(Nat) /\ Len(f) = b - a
  <2>1. f \in [1 .. b - a -> Nat]
    BY SMT
  <2> HIDE DEF f
  <2> QED BY <1>0, <2>1, FunctionSeq
<1>2. g \in Seq(Nat) /\ Len(g) = n
  <2>1. g \in [1 .. n -> Nat]
    BY SMT
  <2> HIDE DEF g
  <2> QED BY <2>1, FunctionSeq
<1>3. h \in Seq(Nat) /\ Len(h) = b + n - a
  <2>1. h \in [1 .. b + n - a -> Nat]
    BY SMT
  <2> HIDE DEF h
  <2> QED BY <1>0, <2>1, FunctionSeq
<1>4. /\ f \o g \in Seq(Nat) /\ Len(f \o g) = b + n - a
      /\ \A k \in 1 .. b + n - a : (f \o g)[k] = IF k <= b - a THEN f[k] ELSE g[k - (b - a)]
  <2> HIDE DEF f, g, h
  <2>1. /\ f \o g \in Seq(Nat) /\ Len(f \o g) = Len(f) + Len(g)
        /\ \A k \in 1 .. Len(f) + Len(g) : (f \o g)[k] = IF k <= Len(f) THEN f[k] ELSE g[k - Len(f)]
    BY <1>1, <1>2, ConcatProperties
  <2>2. Len(f) + Len(g) = b + n - a /\ Len(f) = b - a
    BY <1>0, <1>1, <1>2
  <2> QED BY <2>1, <2>2, Zenon
<1>5. ASSUME NEW k \in 1 .. b + n - a PROVE (f \o g)[k] = h[k]
  <2>1. h[k] = a + k
    OBVIOUS
  <2>2. CASE k <= b - a
    <3>1. k \in 1 .. b - a
      BY <2>2, SMT
    <3> QED BY <1>4, <2>1, <2>2, <3>1
  <2>3. CASE ~(k <= b - a)
    <3>1. k - (b - a) \in 1 .. n /\ b + (k - (b - a)) = a + k
      BY <2>3, SMT
    <3> QED BY <1>4, <2>1, <2>3, <3>1
  <2> QED BY <2>2, <2>3
<1> HIDE DEF f, g, h
<1>6. f \o g = h
  BY <1>3, <1>4, <1>5, SeqEqual
<1> QED BY <1>6 DEF f, g, h

\* What a tidy piece of n bytes is: some of frame m + 1.
Piece(m, n) ==
    /\ m + 1 \in 1 .. Len(frames)
    /\ got + n <= End[m + 1]
    /\ got + n = End[m + 1] => n > HdrSize + AddrSize
    /\ Buffered(n) = [k \in 1 .. got + n - End[m] |-> End[m] + k]
    /\ whole' = IF got + n = End[m + 1] THEN whole \cup {m + 1} ELSE whole

LEMMA ReceivedPiece ==
    ASSUME Arrivals, NEW m \in Nat, Inside(m), NEW n \in Pieces, Recv(n), Tidy(n)
    PROVE  Piece(m, n)
<1> DEFINE L == Len(frames)
<1>1. n \in Nat /\ n > 0 /\ L \in Nat /\ m \in 0 .. L
  BY Params, LenProperties, SMT DEF Params, Arrivals, Inside
<1>2. /\ \A i \in 0 .. L : End[i] \in Nat
      /\ \A i, j \in 0 .. L : i < j => End[i] < End[j]
  BY EndsIncrease DEF Increasing, Arrivals, End
<1>3. got \in Nat /\ got + n <= End[L] /\ End[m] <= got
  <2>1. L \in 0 .. L
    BY <1>1, SMT
  <2> QED BY <1>2, <2>1, SMT DEF Arrivals, Received, Recv, Inside
<1>4. m < L
  <2>1. m = L \/ m < L
    BY <1>1, SMT
  <2>2. ASSUME m = L PROVE FALSE
    BY <1>1, <1>2, <1>3, <2>2, SMT
  <2> QED BY <2>1, <2>2
<1>5. m + 1 \in 1 .. L /\ m + 1 \in 0 .. L
  BY <1>1, <1>4, SMT
<1>6. got < End[m + 1] /\ End[m + 1] \in Nat
  BY <1>2, <1>4, <1>5 DEF Inside
<1>7. got + n <= End[m + 1]
  <2>1. ~(got < End[m + 1] /\ End[m + 1] < got + n)
    BY <1>5 DEF Tidy
  <2> QED BY <1>1, <1>3, <1>6, <2>1, SMT
<1>8. End[m + 1] = got + n => n > HdrSize + AddrSize
  BY <1>5 DEF Tidy
<1>9. Buffered(n) = [k \in 1 .. got + n - End[m] |-> End[m] + k]
  <2>1. End[m] \in Nat
    BY <1>1, <1>2
  <2>2. [k \in 1 .. got - End[m] |-> End[m] + k] \o [k \in 1 .. n |-> got + k]
            = [k \in 1 .. got + n - End[m] |-> End[m] + k]
    BY <1>1, <1>3, <2>1, Continued
  <2> QED BY <2>2 DEF Buffered, Inside
<1>10. \A i \in 1 .. L : got < End[i] /\ End[i] <= got + n <=> i = m + 1 /\ End[m + 1] = got + n
  <2> SUFFICES ASSUME NEW i \in 1 .. L
               PROVE  got < End[i] /\ End[i] <= got + n <=> i = m + 1 /\ End[m + 1] = got + n
    OBVIOUS
  <2>1. i \in 0 .. L /\ m \in 0 .. L /\ End[i] \in Nat /\ End[m] \in Nat
    BY <1>1, <1>2, SMT
  <2>2. i < m \/ i = m \/ i = m + 1 \/ m + 1 < i
    BY <1>1, SMT
  <2>3. CASE i < m \/ i = m
    <3>1. End[i] <= End[m]
      BY <1>2, <2>1, <2>3, SMT
    <3>2. i # m + 1
      BY <1>1, <2>3, SMT
    <3> QED BY <1>3, <2>1, <3>1, <3>2, SMT
  <2>4. CASE i = m + 1
    BY <1>1, <1>3, <1>6, <1>7, <2>4, SMT
  <2>5. CASE m + 1 < i
    <3>1. End[m + 1] < End[i]
      BY <1>2, <1>5, <2>1, <2>5
    <3>2. i # m + 1
      BY <1>1, <2>5, SMT
    <3> QED BY <1>1, <1>3, <1>6, <1>7, <2>1, <3>1, <3>2, SMT
  <2> QED BY <2>2, <2>3, <2>4, <2>5
<1>11. whole' = whole \cup {i \in 1 .. L : got < End[i] /\ End[i] <= got + n}
  BY DEF Received, Recv
<1>12. whole' = IF got + n = End[m + 1] THEN whole \cup {m + 1} ELSE whole
  <2>1. CASE got + n = End[m + 1]
    <3>1. {i \in 1 .. L : got < End[i] /\ End[i] <= got + n} = {m + 1}
      BY <1>5, <1>10, <2>1
    <3> QED BY <1>11, <2>1, <3>1
  <2>2. CASE got + n # End[m + 1]
    <3>1. {i \in 1 .. L : got < End[i] /\ End[i] <= got + n} = {}
      BY <1>10, <2>2
    <3> QED BY <1>11, <2>2, <3>1
  <2> QED BY <2>1, <2>2
<1> QED BY <1>5, <1>7, <1>8, <1>9, <1>12 DEF Piece

\* The header of the first m + 1 frames' last is read for what it is.
LEMMA HeaderRead ==
    ASSUME Arrivals, NEW m \in Nat, Inside(m), NEW n \in Pieces, Piece(m, n),
           n > HdrSize + AddrSize, NEW h \in Decode(Buffered(n))
    PROVE  /\ h.type = MsgType[frames[m + 1]]
           /\ h.total = End[m + 1] - End[m]
           /\ Len(Buffered(n)) = got + n - End[m]
<1> DEFINE buf == Buffered(n)
           L == Len(frames)
<1>1. n \in Nat /\ n > 12 /\ L \in Nat /\ m \in 0 .. L /\ m + 1 \in 1 .. L /\ HdrSize = 8
  BY Params, LenProperties, SMT DEF Params, Arrivals, Inside, Piece, HdrSize, AddrSize
<1>2. /\ \A i \in 0 .. L : End[i] \in Nat
      /\ \A i, j \in 0 .. L : i < j => End[i] < End[j]
  BY EndsIncrease DEF Increasing, Arrivals, End
<1>3. got \in Nat /\ End[m] \in Nat /\ End[m] <= got
  <2>1. L \in 0 .. L
    BY <1>1, SMT
  <2>2. End[L] \in Nat
    BY <1>2, <2>1
  <2>3. got \in Nat
    BY <2>2, SMT DEF Arrivals
  <2> QED BY <1>1, <1>2, <2>3 DEF Inside
<1> DEFINE z == got + n - End[m]
<1>4. z \in Nat /\ z > 12
  BY <1>1, <1>3, SMT
<1>5. buf = [k \in 1 .. z |-> End[m] + k]
  BY DEF Piece
<1>6. Len(buf) = z
  <2>1. buf \in [1 .. z -> Nat]
    BY <1>3, <1>5, SMT
  <2> HIDE DEF buf, z
  <2> QED BY <1>4, <2>1, FunctionSeq
<1> HIDE DEF z, buf
<1>7. \A k \in 1 .. HdrSize : buf[k] = End[m] + k
  <2>1. \A k \in 1 .. HdrSize : k \in 1 .. z
    BY <1>1, <1>4, SMT
  <2> QED BY <1>5, <2>1
<1>8. m + 1 \in HeaderOf(buf)
  <2>1. Start(m + 1) = End[m] + 1
    <3>1. m + 1 - 1 = m
      BY <1>1, SMT
    <3> QED BY <3>1 DEF Start
  <2>2. \A k \in 1 .. HdrSize : Start(m + 1) + k - 1 = End[m] + k
    BY <1>1, <1>3, <2>1, SMT
  <2> QED BY <1>1, <1>7, <2>2 DEF HeaderOf
<1>9. ASSUME NEW i \in HeaderOf(buf) PROVE i = m + 1
  <2>1. i \in 1 .. L /\ buf[1] = Start(i) + 1 - 1
    <3>1. 1 \in 1 .. HdrSize
      BY <1>1, SMT
    <3> QED BY <1>9, <3>1 DEF HeaderOf
  <2>2. i - 1 \in 0 .. L /\ 1 \in 1 .. HdrSize
    BY <1>1, <2>1, SMT
  <2>3. End[i - 1] = End[m]
    <3>1. End[i - 1] \in Nat
      BY <1>2, <2>2
    <3>2. End[i - 1] + 1 + 1 - 1 = End[m] + 1
      BY <1>7, <2>1, <2>2 DEF Start
    <3> QED BY <1>3, <3>1, <3>2, SMT
  <2>4. ~(End[m] < End[m])
    BY <1>3, SMT
  <2>5. ~(i - 1 < m) /\ ~(m < i - 1)
    BY <1>1, <1>2, <2>2, <2>3, <2>4
  <2> QED BY <1>1, <2>1, <2>5, SMT
<1>10. PICK i \in HeaderOf(buf) : h = [type |-> Swap16(WireFrame(frames[i]).PayloadType),
                                       total |-> Swap32(WireFrame(frames[i]).PayloadLength) + 8]
  BY <1>8 DEF Decode, buf
<1>11. i = m + 1
  BY <1>9
<1>12. frames[m + 1] \in Kinds
  BY <1>1, ElementOfSeq DEF Arrivals
<1>13. h.type = MsgType[frames[m + 1]] /\ h.total = FrameSize(frames[m + 1])
  BY <1>10, <1>11, <1>12, HeaderDecodes
<1>14. End[m + 1] = End[m] + FrameSize(frames[m + 1])
  <2>1. End[m + 1] = End[m + 1 - 1] + FrameSize(frames[m + 1])
    BY <1>1, EndsStep DEF Arrivals, End
  <2>2. m + 1 - 1 = m
    BY <1>1, SMT
  <2> QED BY <2>1, <2>2
<1>15. FrameSize(frames[m + 1]) = End[m + 1] - End[m]
  BY <1>3, <1>12, <1>14, FrameSizes, SMT DEF Frames
<1> QED BY <1>6, <1>13, <1>15 DEF buf, z

-----------------------------------------------------------------------------
(* What the client has delivered                                           *)

\* due numbers the frames of D in ascending order.
Ascends(due, D) ==
    /\ due \in [1 .. Cardinality(D) -> D]
    /\ \A j, k \in DOMAIN due : j < k => due[j] < due[k]

\* A frame that comes after those of D is the last one due.
LEMMA NextDue ==
    ASSUME NEW D \in SUBSET Nat, IsFiniteSet(D), NEW i \in Nat, \A j \in D : j < i,
           NEW due, Ascends(due, D)
    PROVE  /\ Cardinality(D) \in Nat /\ Cardinality(D \cup {i}) = Cardinality(D) + 1
           /\ Ascends([k \in 1 .. Cardinality(D) + 1 |-> IF k = Cardinality(D) + 1 THEN i ELSE due[k]],
                       D \cup {i})
<1> DEFINE c == Cardinality(D)
           new == [k \in 1 .. c + 1 |-> IF k = c + 1 THEN i ELSE due[k]]
<1>1. i \notin D
  <2>1. ~(i < i)
    BY SMT
  <2> QED BY <2>1
<1>2. c \in Nat /\ Cardinality(D \cup {i}) = c + 1
  BY <1>1, FS_CardinalityType, FS_AddElement
<1>3. due \in [1 .. c -> D] /\ \A j, k \in 1 .. c : j < k => due[j] < due[k]
  BY DEF Ascends
<1> HIDE DEF c
<1>4. \A k \in 1 .. c + 1 : k # c + 1 => k \in 1 .. c
  BY <1>2, SMT
<1>5. new \in [1 .. c + 1 -> D \cup {i}]
  BY <1>3, <1>4
<1>6. ASSUME NEW j \in 1 .. c + 1, NEW k \in 1 .. c + 1, j < k PROVE new[j] < new[k]
  <2>1. j # c + 1 /\ j \in 1 .. c
    BY <1>2, <1>6, SMT
  <2>2. new[j] = due[j] /\ due[j] \in D
    BY <1>3, <2>1
  <2>3. CASE k = c + 1
    BY <2>2, <2>3
  <2>4. CASE k # c + 1
    <3>1. k \in 1 .. c /\ new[k] = due[k]
      BY <1>4, <2>4
    <3> QED BY <1>3, <1>6, <2>1, <2>2, <3>1
  <2> QED BY <2>3, <2>4
<1>7. DOMAIN new = 1 .. c + 1
  OBVIOUS
<1> HIDE DEF new
<1>8. Ascends(new, D \cup {i})
  BY <1>2, <1>5, <1>6, <1>7 DEF Ascends
<1> QED BY <1>2, <1>8 DEF new, c

LEMMA DeliveredDue ==
    Dues <=> (clean => \E due : Ascends(due, Diag) /\ delivered =
                       IF gRecvCb THEN [j \in DOMAIN due |-> UserdataOf(due[j])] ELSE <<>>)
  BY DEF Dues, Ascends

LEMMA DiagFinite ==
    ASSUME Arrivals
    PROVE  IsFiniteSet(Diag) /\ Diag \in SUBSET Nat
<1>1. Len(frames) \in Nat
  BY LenProperties DEF Arrivals
<1>2. Diag \subseteq 1 .. Len(frames)
  BY DEF Arrivals, Diag
<1>3. IsFiniteSet(1 .. Len(frames))
  BY <1>1, FS_Interval
<1>4. 1 .. Len(frames) \subseteq Nat
  BY SMT
<1> QED BY <1>2, <1>3, <1>4, FS_Subset

\* Steps in which nothing is due.
LEMMA NothingDue ==
    ASSUME Dues, clean' => clean, Diag' = Diag,
           \A i \in Diag : UserdataOf(i)' = UserdataOf(i),
           delivered' = delivered, gRecvCb' = gRecvCb
    PROVE  Dues'
<1> SUFFICES ASSUME clean' PROVE Dues'
  BY DEF Dues
<1>1. PICK due \in [1 .. Cardinality(Diag) -> Diag] :
         /\ \A j, k \in DOMAIN due : j < k => due[j] < due[k]
         /\ delivered = IF gRecvCb THEN [j \in DOMAIN due |-> UserdataOf(due[j])] ELSE <<>>
  BY DEF Dues
<1>2. [j \in DOMAIN due |-> UserdataOf(due[j])'] = [j \in DOMAIN due |-> UserdataOf(due[j])]
  OBVIOUS
<1>3. delivered' = IF gRecvCb' THEN [j \in DOMAIN due |-> UserdataOf(due[j])'] ELSE <<>>
  BY <1>1, <1>2
<1>4. due \in [1 .. Cardinality(Diag') -> Diag']
  BY <1>1
<1> QED BY <1>1, <1>3, <1>4 DEF Dues

\* The end of frame m + 1 adds that frame to the messages due, if it is one.
LEMMA FrameDue ==
    ASSUME Arrivals, NEW m \in Nat, Inside(m), NEW n \in Pieces, Piece(m, n),
           got + n = End[m + 1], frames' = frames
    PROVE  /\ \A j \in Diag : j < m + 1
           /\ Diag' = IF frames[m + 1] = "DIAG_MSG" THEN Diag \cup {m + 1} ELSE Diag
<1> DEFINE L == Len(frames)
<1>1. n \in Nat /\ n > 0 /\ L \in Nat /\ m + 1 \in 0 .. L
  BY Params, LenProperties, SMT DEF Params, Arrivals, Inside, Piece
<1>2. /\ \A i \in 0 .. L : End[i] \in Nat
      /\ \A i, j \in 0 .. L : i < j => End[i] < End[j]
  BY EndsIncrease DEF Increasing, Arrivals, End
<1>3. ASSUME NEW j \in Diag PROVE j < m + 1
  <2>1. j \in 0 .. L /\ End[j] <= got /\ End[j] \in Nat
    <3>1. j \in 1 .. L /\ End[j] <= got
      BY DEF Diag, Arrivals
    <3>2. j \in 0 .. L
      BY <3>1, SMT
    <3> QED BY <1>2, <3>1, <3>2
  <2>2. got \in Nat
    <3>1. L \in 0 .. L
      BY <1>1, SMT
    <3>2. End[L] \in Nat
      BY <1>2, <3>1
    <3> QED BY <3>2, SMT DEF Arrivals
  <2>3. End[j] < End[m + 1] /\ End[m + 1] \in Nat
    BY <1>1, <2>1, <2>2, SMT
  <2>4. m + 1 < j => End[m + 1] < End[j]
    BY <1>1, <1>2, <2>1
  <2>5. ~(m + 1 < j) /\ j # m + 1
    BY <2>1, <2>3, <2>4, SMT
  <2> QED BY <1>1, <2>1, <2>5, SMT
<1>4. whole' = whole \cup {m + 1}
  BY DEF Piece
<1>5. Diag' = IF frames[m + 1] = "DIAG_MSG" THEN Diag \cup {m + 1} ELSE Diag
  BY <1>4 DEF Diag
<1> QED BY <1>3, <1>5

LEMMA UserdataStays ==
    frames' = frames => \A i : UserdataOf(i)' = UserdataOf(i)
  BY DEF UserdataOf, Start, End

\* A frame that is not for the callback.
LEMMA OtherDue ==
    ASSUME Arrivals, Dues, clean' => clean, NEW m \in Nat, Inside(m), NEW n \in Pieces, Piece(m, n),
           got + n = End[m + 1], frames' = frames, gRecvCb' = gRecvCb, delivered' = delivered,
           frames[m + 1] # "DIAG_MSG" \/ ~gRecvCb
    PROVE  Dues'
<1>1. /\ \A j \in Diag : j < m + 1
      /\ Diag' = IF frames[m + 1] = "DIAG_MSG" THEN Diag \cup {m + 1} ELSE Diag
  BY FrameDue
<1>2. CASE frames[m + 1] # "DIAG_MSG"
  <2>1. Diag' = Diag
    BY <1>1, <1>2
  <2> QED BY <2>1, UserdataStays, NothingDue
<1>3. CASE frames[m + 1] = "DIAG_MSG" /\ ~gRecvCb
  <2> SUFFICES ASSUME clean' PROVE Dues'
    BY DEF Dues
  <2>1. PICK due : Ascends(due, Diag) /\ delivered =
                       IF gRecvCb THEN [j \in DOMAIN due |-> UserdataOf(due[j])] ELSE <<>>
    BY DeliveredDue
  <2>2. PICK new : Ascends(new, Diag \cup {m + 1})
    <3>1. Diag \in SUBSET Nat /\ IsFiniteSet(Diag) /\ m + 1 \in Nat
      BY DiagFinite, SMT
    <3> QED BY <1>1, <2>1, <3>1, NextDue
  <2>3. Ascends(new, Diag') /\ delivered' = <<>> /\ ~gRecvCb'
    BY <1>1, <1>3, <2>1, <2>2
  <2> QED BY <2>3 DEF Ascends, Dues
<1> QED BY <1>2, <1>3

\* The user data is what the buffer holds behind header and addresses.
LEMMA UserdataInBuffer ==
    ASSUME Arrivals, NEW m \in Nat, Inside(m), NEW n \in Pieces, Piece(m, n),
           n > HdrSize + AddrSize, got + n = End[m + 1]
    PROVE  SubSeq(Buffered(n), HdrSize + AddrSize + 1, End[m + 1] - End[m]) = UserdataOf(m + 1)
<1> DEFINE z == End[m + 1] - End[m]
           buf == Buffered(n)
           sub == SubSeq(buf, 13, z)
           e == End[m]
<1>1. HdrSize = 8 /\ AddrSize = 4
  BY SMT DEF HdrSize, AddrSize
<1>2. /\ n \in Nat /\ n > 12 /\ m + 1 \in 1 .. Len(frames) /\ m \in 0 .. Len(frames)
      /\ Len(frames) \in Nat /\ m + 1 - 1 = m /\ m + 1 \in 0 .. Len(frames)
  BY <1>1, Params, LenProperties, SMT DEF Params, Arrivals, Inside, Piece
<1>3. e \in Nat /\ End[m + 1] \in Nat /\ e <= got
  BY <1>2, EndsIncrease DEF Increasing, Arrivals, End, Inside
<1>4. got \in Nat
  <2>1. End[Len(frames)] \in Nat
    <3>1. Len(frames) \in 0 .. Len(frames)
      BY <1>2, SMT
    <3> QED BY <3>1, EndsIncrease DEF Increasing, Arrivals, End
  <2> QED BY <2>1, SMT DEF Arrivals
<1>5. buf = [k \in 1 .. z |-> e + k]
  <2>1. buf = [k \in 1 .. got + n - End[m] |-> End[m] + k]
    BY DEF Piece
  <2>2. got + n - End[m] = z
    BY <1>2, <1>3, <1>4, SMT
  <2> HIDE DEF buf, z
  <2> QED BY <2>1, <2>2, Zenon DEF e
<1>6. FrameSize(frames[m + 1]) = z
  <2>1. End[m + 1] = End[m + 1 - 1] + FrameSize(frames[m + 1])
    BY <1>2, EndsStep DEF Arrivals, End
  <2>2. frames[m + 1] \in Kinds
    BY <1>2, ElementOfSeq DEF Arrivals
  <2> QED BY <1>2, <1>3, <2>1, <2>2, FrameSizes, SMT DEF Frames
<1>7. Start(m + 1) = e + 1
  BY <1>2 DEF Start
<1>8. z \in Nat /\ z > 12
  BY <1>2, <1>3, <1>4, SMT
<1> HIDE DEF z, e, buf
<1>9. UserdataOf(m + 1) = [k \in 1 .. z - 8 - 4 |-> e + 1 + 8 + 4 + k - 1]
  BY <1>1, <1>6, <1>7 DEF UserdataOf
<1>10. /\ sub \in Seq(Nat) /\ Len(sub) = z - 12
       /\ \A k \in 1 .. z - 12 : sub[k] = buf[13 + k - 1]
  <2>1. \A k \in 13 .. z : k \in 1 .. z /\ e + k \in Nat
    BY <1>3, SMT
  <2>2. \A k \in 13 .. z : buf[k] \in Nat
    BY <1>5, <2>1
  <2>3. 13 \in Int /\ z \in Int
    BY <1>8, SMT
  <2>4. /\ sub \in Seq(Nat) /\ Len(sub) = IF 13 <= z THEN z - 13 + 1 ELSE 0
        /\ \A k \in 1 .. z - 13 + 1 : sub[k] = buf[13 + k - 1]
    BY <2>2, <2>3, SubSeqProperties
  <2>5. 13 <= z /\ z - 13 + 1 = z - 12
    BY <1>8, SMT
  <2> HIDE DEF sub
  <2> QED BY <2>4, <2>5, Zenon
<1> HIDE DEF sub
<1>11. sub = [k \in 1 .. z - 12 |-> sub[k]]
  <2>1. sub \in [1 .. z - 12 -> Nat]
    BY <1>10, LenProperties
  <2> QED BY <2>1
<1>12. \A k \in 1 .. z - 12 : sub[k] = e + 1 + 8 + 4 + k - 1
  <2>1. \A k \in 1 .. z - 12 : 13 + k - 1 \in 1 .. z /\ e + (13 + k - 1) = e + 1 + 8 + 4 + k - 1
    BY <1>3, <1>8, SMT
  <2>2. \A k \in 1 .. z - 12 : sub[k] = e + (13 + k - 1)
    BY <1>5, <1>10, <2>1, Zenon
  <2> QED BY <2>1, <2>2, Zenon
<1>13. z - 8 - 4 = z - 12 /\ 8 + 4 + 1 = 13
  BY <1>8, SMT
<1>14. sub = UserdataOf(m + 1)
  BY <1>9, <1>11, <1>12, <1>13
<1> QED BY <1>1, <1>13, <1>14 DEF sub, buf, z

\* A sequence that grows by one is a function that does.
LEMMA AppendIs ==
    ASSUME NEW S, NEW n \in Nat, NEW s \in [1 .. n -> S], NEW x \in S
    PROVE  Append(s, x) = [k \in 1 .. n + 1 |-> IF k = n + 1 THEN x ELSE s[k]]
<1> DEFINE p == Append(s, x)
<1>1. s \in Seq(S) /\ Len(s) = n
  BY FunctionSeq
<1>2. /\ p \in Seq(S) /\ Len(p) = Len(s) + 1
      /\ \A k \in 1 .. Len(s) : p[k] = s[k]
      /\ p[Len(s) + 1] = x
  BY <1>1, AppendProperties
<1> HIDE DEF p
<1>3. p \in [1 .. n + 1 -> S]
  BY <1>1, <1>2, LenProperties
<1>4. \A k \in 1 .. n + 1 : k # n + 1 => k \in 1 .. n
  BY SMT
<1>5. \A k \in 1 .. n + 1 : p[k] = IF k = n + 1 THEN x ELSE s[k]
  BY <1>1, <1>2, <1>4
<1> QED BY <1>3, <1>5 DEF p

\* A message for the callback.
LEMMA MessageDue ==
    ASSUME Arrivals, Dues, clean' => clean, NEW m \in Nat, Inside(m), NEW n \in Pieces, Piece(m, n),
           got + n = End[m + 1], frames' = frames, gRecvCb' = gRecvCb,
           frames[m + 1] = "DIAG_MSG", gRecvCb,
           delivered' = Append(delivered, UserdataOf(m + 1))
    PROVE  Dues'
<1> SUFFICES ASSUME clean' PROVE Dues'
  BY DEF Dues
<1> DEFINE c == Cardinality(Diag)
<1>1. (\A j \in Diag : j < m + 1) /\ Diag' = Diag \cup {m + 1}
  BY FrameDue
<1>2. PICK due : Ascends(due, Diag) /\ delivered = [j \in DOMAIN due |-> UserdataOf(due[j])]
  BY DeliveredDue
<1> DEFINE S == {UserdataOf(i) : i \in Nat}
<1>3. /\ c \in Nat
      /\ Ascends([k \in 1 .. c + 1 |-> IF k = c + 1 THEN m + 1 ELSE due[k]], Diag')
  <2>1. Diag \in SUBSET Nat /\ IsFiniteSet(Diag) /\ m + 1 \in Nat
    BY DiagFinite, SMT
  <2> QED BY <1>1, <1>2, <2>1, NextDue
<1>4. PICK new : /\ new = [k \in 1 .. c + 1 |-> IF k = c + 1 THEN m + 1 ELSE due[k]]
                 /\ Ascends(new, Diag')
  BY <1>3
<1>5. DOMAIN due = 1 .. c /\ \A k \in 1 .. c : due[k] \in Diag
  BY <1>2 DEF Ascends
<1>6. DOMAIN new = 1 .. c + 1 /\ \A k \in 1 .. c + 1 : new[k] = IF k = c + 1 THEN m + 1 ELSE due[k]
  BY <1>4
<1> HIDE DEF c
<1>7. delivered \in [1 .. c -> S]
  BY <1>2, <1>5, DiagFinite
<1>8. delivered' = [k \in 1 .. c + 1 |-> IF k = c + 1 THEN UserdataOf(m + 1) ELSE delivered[k]]
  BY <1>3, <1>7, AppendIs
<1>9. \A k \in 1 .. c + 1 : UserdataOf(new[k]) = IF k = c + 1 THEN UserdataOf(m + 1) ELSE delivered[k]
  <2>1. \A k \in 1 .. c + 1 : k # c + 1 => k \in 1 .. c
    BY <1>3, SMT
  <2>2. \A k \in 1 .. c : delivered[k] = UserdataOf(due[k])
    BY <1>2, <1>5
  <2> QED BY <1>6, <2>1, <2>2
<1>10. \A i : UserdataOf(i)' = UserdataOf(i)
  BY UserdataStays
<1>11. delivered' = [k \in DOMAIN new |-> UserdataOf(new[k])']
  BY <1>6, <1>8, <1>9, <1>10
<1>12. new \in [1 .. Cardinality(Diag') -> Diag'] /\ \A j, k \in DOMAIN new : j < k => new[j] < new[k]
  BY <1>4 DEF Ascends
<1> QED BY <1>11, <1>12 DEF Dues

-----------------------------------------------------------------------------
(* The steps of the receive loop                                           *)

LEMMA BufferedType ==
    ASSUME Arrivals, NEW n \in Pieces
    PROVE  /\ n \in Nat /\ got \in Nat
           /\ Buffered(n) \in Seq(0 .. got + n)
<1>1. n \in Nat
  BY Params, SMT DEF Params
<1>2. got \in Nat
  <2>1. Len(frames) \in Nat /\ Len(frames) \in 0 .. Len(frames)
    BY LenProperties, SMT DEF Arrivals
  <2>2. End[Len(frames)] \in Nat
    BY <2>1, EndsIncrease DEF Increasing, Arrivals, End
  <2> QED BY <2>2, SMT DEF Arrivals
<1>3. recv_buf \in Seq(0 .. got + n)
  <2>1. 0 .. got \subseteq 0 .. got + n
    BY <1>1, <1>2, SMT
  <2> QED BY <2>1, SeqMonotonic DEF Arrivals
<1>4. [k \in 1 .. n |-> got + k] \in Seq(0 .. got + n)
  <2>1. [k \in 1 .. n |-> got + k] \in [1 .. n -> 0 .. got + n]
    BY <1>1, <1>2, SMT
  <2> QED BY <1>1, <2>1, FunctionSeq
<1> QED BY <1>1, <1>2, <1>3, <1>4, ConcatProperties DEF Buffered

LEMMA DecodedType ==
    ASSUME Arrivals, NEW n \in Pieces, NEW h \in Decode(Buffered(n))
    PROVE  h.total \in Int
<1> DEFINE buf == Buffered(n)
<1> HIDE DEF buf
<1>2. CASE HeaderOf(buf) # {}
  <2>1. PICK i \in HeaderOf(buf) : h = [type |-> Swap16(WireFrame(frames[i]).PayloadType),
                                       total |-> Swap32(WireFrame(frames[i]).PayloadLength) + 8]
    BY <1>2 DEF Decode, buf
  <2>2. frames[i] \in Kinds
    <3>1. i \in 1 .. Len(frames)
      BY DEF HeaderOf
    <3> QED BY <3>1, ElementOfSeq DEF Arrivals
  <2>3. h.total \in Nat
    BY <2>1, <2>2, HeaderDecodes, FrameSizes DEF Frames
  <2> QED BY <2>3, SMT
<1>3. CASE HeaderOf(buf) = {}
  <2>1. h.total \in Totals
    BY <1>3 DEF Decode, buf
  <2>2. Totals \subseteq Int
    BY Params DEF Params
  <2> QED BY <2>1, <2>2
<1> QED BY <1>2, <1>3

\* What is left of a buffer, and what is handed over, are bytes of the stream.
LEMMA CutBuffer ==
    ASSUME Arrivals, NEW n \in Pieces, NEW a \in Nat, a > 0, NEW b \in Int, b <= Len(Buffered(n))
    PROVE  SubSeq(Buffered(n), a, b) \in Seq(0 .. got + n)
<1> DEFINE buf == Buffered(n)
<1>1. buf \in Seq(0 .. got + n) /\ Len(buf) \in Nat
  BY BufferedType, LenProperties
<1>2. b <= Len(buf)
  OBVIOUS
<1> HIDE DEF buf
<1>3. \A k \in a .. b : k \in 1 .. Len(buf)
  BY <1>1, <1>2, SMT
<1>4. \A k \in a .. b : buf[k] \in 0 .. got + n
  BY <1>1, <1>3, ElementOfSeq
<1>5. a \in Int /\ b \in Int
  BY SMT
<1>6. SubSeq(buf, a, b) \in Seq(0 .. got + n)
  BY <1>4, <1>5, SubSeqProperties
<1> QED BY <1>6 DEF buf

LEMMA ReceivedArrivals ==
    ASSUME Arrivals, NEW n \in Pieces, Recv(n), pc'.rx # "none", recv_buf' \in Seq(0 .. got + n)
    PROVE  Arrivals'
<1>1. /\ frames' = frames /\ End' = End /\ got' = got + n /\ gRecvCb' = gRecvCb
      /\ got + n <= End[Len(frames)] /\ pc.rx = "recv" /\ clean' \in BOOLEAN
  BY DEF Received, Recv, End
<1>2. n \in Nat /\ got \in Nat
  BY BufferedType
<1>3. Len(frames) \in Nat /\ \A i \in 0 .. Len(frames) : End[i] \in Nat
  BY LenProperties, EndsIncrease DEF Increasing, Arrivals, End
<1>4. got' \in 0 .. End[Len(frames)]
  <2>1. Len(frames) \in 0 .. Len(frames)
    BY <1>3, SMT
  <2> QED BY <1>1, <1>2, <1>3, <2>1, SMT
<1>5. ASSUME NEW i \in whole' PROVE i \in 1 .. Len(frames) /\ End[i] <= got + n
  <2>1. CASE i \in whole
    <3>1. i \in 1 .. Len(frames) /\ End[i] <= got
      BY <2>1 DEF Arrivals
    <3>2. i \in 0 .. Len(frames)
      BY <3>1, SMT
    <3> QED BY <1>2, <1>3, <3>1, <3>2, SMT
  <2>2. CASE i \notin whole
    BY <2>2 DEF Received, Recv
  <2> QED BY <2>1, <2>2
<1> QED BY <1>1, <1>4, <1>5 DEF Arrivals

\* The next place in the stream, from the middle of a frame ...
LEMMA StillInside ==
    ASSUME Arrivals, NEW m \in Nat, Inside(m), NEW n \in Pieces, Received(n), Piece(m, n),
           got + n < End[m + 1], recv_buf' = Buffered(n)
    PROVE  Inside(m)'
<1>1. frames' = frames /\ End' = End /\ got' = got + n
  BY DEF Received, Recv, End
<1>2. n \in Nat /\ got \in Nat
  BY BufferedType
<1>3. m \in 0 .. Len(frames) /\ Len(frames) \in Nat /\ End[m] \in Nat
  BY LenProperties, EndsIncrease DEF Increasing, Arrivals, End, Inside
<1>4. End[m] <= got + n
  BY <1>2, <1>3, SMT DEF Inside
<1>5. recv_buf' = [k \in 1 .. got' - End[m] |-> End[m] + k]
  <2>1. got' - End[m] = got + n - End[m]
    BY <1>1, <1>2, <1>3, SMT
  <2> QED BY <2>1 DEF Piece
<1> QED BY <1>1, <1>3, <1>4, <1>5 DEF Inside

\* ... and at its end.
LEMMA NextInside ==
    ASSUME Arrivals, NEW m \in Nat, Inside(m), NEW n \in Pieces, Received(n), Piece(m, n),
           got + n = End[m + 1], recv_buf' = <<>>
    PROVE  Inside(m + 1)'
<1>1. frames' = frames /\ End' = End /\ got' = End[m + 1]
  BY DEF Received, Recv, End
<1>2. Len(frames) \in Nat /\ m + 1 \in 0 .. Len(frames)
  BY LenProperties, SMT DEF Arrivals, Piece
<1>3. /\ End[m + 1] \in Nat
      /\ m + 1 < Len(frames) => End[m + 1] < End[m + 1 + 1]
  <2>1. /\ \A i \in 0 .. Len(frames) : End[i] \in Nat
        /\ \A i, j \in 0 .. Len(frames) : i < j => End[i] < End[j]
    BY EndsIncrease DEF Increasing, Arrivals, End
  <2>2. m + 1 < Len(frames) => m + 1 + 1 \in 0 .. Len(frames) /\ m + 1 < m + 1 + 1
    BY <1>2, SMT
  <2> QED BY <1>2, <2>1, <2>2
<1>4. recv_buf' = [k \in 1 .. got' - End[m + 1] |-> End[m + 1] + k]
  <2>1. 1 .. End[m + 1] - End[m + 1] = {}
    BY <1>3, SMT
  <2>2. [k \in {} |-> End[m + 1] + k] = <<>>
    BY SMT
  <2> QED BY <1>1, <2>1, <2>2
<1>5. End[m + 1] <= got'
  BY <1>1, <1>3, SMT
<1> QED BY <1>1, <1>2, <1>3, <1>4, <1>5 DEF Inside

LEMMA ReceiveSmallStep ==
    ASSUME ReceiveInv, NEW n \in Pieces, ReceiveSmall(n)
    PROVE  ReceiveInv'
<1>1. Arrivals /\ Received(n) /\ Recv(n) /\ pc'.rx # "none" /\ recv_buf' = Buffered(n) /\ delivered' = delivered /\ n <= HdrSize + AddrSize
  BY DEF ReceiveSmall, ReceiveInv, Received, Recv
<1>2. Arrivals'
  BY <1>1, BufferedType, ReceivedArrivals
<1>3. ASSUME clean' PROVE Assembled' /\ Dues'
  <2>1. clean /\ Tidy(n) /\ frames' = frames /\ gRecvCb' = gRecvCb
    BY <1>1, <1>3 DEF Received, Recv
  <2>2. PICK m \in Nat : Inside(m)
    BY <2>1 DEF ReceiveInv, Assembled
  <2>3. Piece(m, n)
    BY <1>1, <2>1, <2>2, ReceivedPiece
  <2>4. got + n < End[m + 1] /\ got + n # End[m + 1]
    <3>1. n \in Nat /\ got \in Nat
      BY <1>1, BufferedType
    <3>2. m + 1 \in 0 .. Len(frames)
      BY LenProperties, <1>1, <2>3, SMT DEF Piece, Arrivals
    <3>3. End[m + 1] \in Nat
      BY <1>1, <3>2, EndsIncrease DEF Increasing, Arrivals, End
    <3>4. ~(n > HdrSize + AddrSize)
      BY <1>1, <3>1, SMT DEF HdrSize, AddrSize
    <3> QED BY <2>3, <3>1, <3>3, <3>4, SMT DEF Piece
  <2>5. Inside(m)'
    BY <1>1, <2>2, <2>3, <2>4, StillInside
  <2>6. Diag' = Diag
    BY <2>1, <2>3, <2>4 DEF Piece, Diag
  <2>7. Dues'
    BY <1>1, <2>1, <2>6, UserdataStays, NothingDue DEF ReceiveInv
  <2> QED BY <2>5, <2>7 DEF Assembled
<1> QED BY <1>2, <1>3 DEF ReceiveInv, Assembled, Dues

LEMMA ReceivePartStep ==
    ASSUME ReceiveInv, NEW n \in Pieces, ReceivePart(n)
    PROVE  ReceiveInv'
<1>1. Arrivals /\ Received(n) /\ Recv(n) /\ pc'.rx # "none" /\ recv_buf' = Buffered(n) /\ delivered' = delivered /\ n > HdrSize + AddrSize
  BY DEF ReceivePart, ReceiveInv, Received, Recv
<1>2. Arrivals'
  BY <1>1, BufferedType, ReceivedArrivals
<1>3. ASSUME clean' PROVE Assembled' /\ Dues'
  <2>1. clean /\ Tidy(n) /\ frames' = frames /\ gRecvCb' = gRecvCb
    BY <1>1, <1>3 DEF Received, Recv
  <2>2. PICK m \in Nat : Inside(m)
    BY <2>1 DEF ReceiveInv, Assembled
  <2>3. Piece(m, n)
    BY <1>1, <2>1, <2>2, ReceivedPiece
  <2>4. PICK h \in Decode(Buffered(n)) : Len(Buffered(n)) < h.total
    BY DEF ReceivePart
  <2>5. h.total = End[m + 1] - End[m] /\ Len(Buffered(n)) = got + n - End[m]
    BY <1>1, <2>2, <2>3, HeaderRead
  <2>6. got + n < End[m + 1] /\ got + n # End[m + 1]
    <3>1. n \in Nat /\ got \in Nat
      BY <1>1, BufferedType
    <3>2. m + 1 \in 0 .. Len(frames) /\ m \in 0 .. Len(frames)
      BY LenProperties, <1>1, <2>2, <2>3, SMT DEF Piece, Arrivals, Inside
    <3>3. End[m + 1] \in Nat /\ End[m] \in Nat
      BY <1>1, <3>2, EndsIncrease DEF Increasing, Arrivals, End
    <3> QED BY <2>4, <2>5, <3>1, <3>3, SMT
  <2>7. Inside(m)'
    BY <1>1, <2>2, <2>3, <2>6, StillInside
  <2>8. Diag' = Diag
    BY <2>1, <2>3, <2>6 DEF Piece, Diag
  <2>9. Dues'
    BY <1>1, <2>1, <2>8, UserdataStays, NothingDue DEF ReceiveInv
  <2> QED BY <2>7, <2>9 DEF Assembled
<1> QED BY <1>2, <1>3 DEF ReceiveInv, Assembled, Dues

\* The buffer holds the whole of frame m + 1 and nothing else.
Complete(m, n, h) ==
    /\ Inside(m) /\ Piece(m, n) /\ got + n = End[m + 1]
    /\ h.type = DiagType <=> frames[m + 1] = "DIAG_MSG"
    /\ h.total = End[m + 1] - End[m] /\ h.total = Len(Buffered(n))

LEMMA FrameComplete ==
    ASSUME Arrivals, Assembled, NEW n \in Pieces, Received(n), n > HdrSize + AddrSize, clean',
           NEW h \in Decode(Buffered(n)), Len(Buffered(n)) >= h.total
    PROVE  \E m \in Nat : Complete(m, n, h)
<1>1. clean /\ Tidy(n) /\ Recv(n)
  BY DEF Received, Recv
<1>2. PICK m \in Nat : Inside(m)
  BY <1>1 DEF Assembled
<1>3. Piece(m, n)
  BY <1>1, <1>2, ReceivedPiece
<1>4. /\ h.type = MsgType[frames[m + 1]]
      /\ h.total = End[m + 1] - End[m]
      /\ Len(Buffered(n)) = got + n - End[m]
  BY <1>2, <1>3, HeaderRead
<1>5. n \in Nat /\ got \in Nat
  BY BufferedType
<1>6. m + 1 \in 0 .. Len(frames) /\ m \in 0 .. Len(frames) /\ frames[m + 1] \in Kinds
  BY LenProperties, <1>2, <1>3, ElementOfSeq, SMT DEF Piece, Arrivals, Inside
<1>7. End[m + 1] \in Nat /\ End[m] \in Nat
  BY <1>6, EndsIncrease DEF Increasing, Arrivals, End
<1>8. got + n = End[m + 1]
  <2>1. got + n <= End[m + 1]
    BY <1>3 DEF Piece
  <2> QED BY <1>4, <1>5, <1>7, <2>1, SMT
<1>9. h.total = Len(Buffered(n))
  BY <1>4, <1>5, <1>7, <1>8, SMT
<1>10. h.type = DiagType <=> frames[m + 1] = "DIAG_MSG"
  BY <1>4, <1>6, KindNames, Types
<1> QED BY <1>2, <1>3, <1>4, <1>8, <1>9, <1>10 DEF Complete

\* offset -= total_len
LEMMA Consumed ==
    ASSUME Arrivals, NEW n \in Pieces, NEW h \in Decode(Buffered(n)),
           Consume(Buffered(n), h.total)
    PROVE  /\ recv_buf' \in Seq(0 .. got + n)
           /\ h.total = Len(Buffered(n)) => recv_buf' = <<>>
<1> DEFINE buf == Buffered(n)
           rest == Len(buf) - h.total
<1>1. h.total \in Int /\ buf \in Seq(0 .. got + n) /\ Len(buf) \in Nat /\ got + n \in Nat
  <2>1. h.total \in Int
    BY DecodedType
  <2>2. got \in Nat /\ n \in Nat /\ buf \in Seq(0 .. got + n)
    BY BufferedType
  <2>3. Len(buf) \in Nat /\ got + n \in Nat
    BY <2>2, LenProperties, SMT
  <2> QED BY <2>1, <2>2, <2>3
<1>2. recv_buf' = [k \in 1 .. rest |-> IF k <= Len(buf) THEN buf[k] ELSE 0]
  BY DEF Consume
<1> HIDE DEF buf
<1>3. rest \in Int
  BY <1>1, SMT
<1> HIDE DEF rest
<1>4. \A k \in 1 .. rest : (IF k <= Len(buf) THEN buf[k] ELSE 0) \in 0 .. got + n
  <2>1. \A k \in 1 .. rest : k <= Len(buf) => k \in 1 .. Len(buf)
    BY <1>1, <1>3, SMT
  <2>2. 0 \in 0 .. got + n
    BY <1>1, SMT
  <2> QED BY <1>1, <2>1, <2>2, ElementOfSeq
<1>5. rest < 1 => recv_buf' = <<>>
  <2> SUFFICES ASSUME rest < 1 PROVE recv_buf' = <<>>
    OBVIOUS
  <2>1. 1 .. rest = {}
    BY <1>3, SMT
  <2>2. [k \in {} |-> IF k <= Len(buf) THEN buf[k] ELSE 0] = <<>>
    BY SMT
  <2> QED BY <1>2, <2>1, <2>2
<1>6. recv_buf' \in Seq(0 .. got + n)
  <2>1. CASE rest \in Nat
    <3>1. recv_buf' \in [1 .. rest -> 0 .. got + n]
      BY <1>2, <1>4
    <3> QED BY <2>1, <3>1, FunctionSeq
  <2>2. CASE rest \notin Nat
    <3>1. rest < 1
      BY <1>3, <2>2, SMT
    <3> QED BY <1>5, <3>1, EmptySeq
  <2> QED BY <2>1, <2>2
<1>7. h.total = Len(buf) => rest < 1
  BY <1>1, SMT DEF rest
<1> QED BY <1>5, <1>6, <1>7 DEF buf

\* What the callback gets, if the buffer holds so much, is bytes of it.
LEMMA UserdataType ==
    ASSUME Arrivals, NEW n \in Pieces, NEW total \in Int
    PROVE  UserdataIn(Buffered(n), total) \in Seq(0 .. got + n) \cup {Overread}
<1> DEFINE length == (total - HdrSize - AddrSize) % 65536
           last == HdrSize + AddrSize + length
<1>1. HdrSize + AddrSize + 1 \in Nat /\ HdrSize + AddrSize + 1 > 0 /\ last \in Int
  <2>1. HdrSize = 8 /\ AddrSize = 4
    BY SMT DEF HdrSize, AddrSize
  <2>2. length \in Int
    BY <2>1, SMT
  <2> HIDE DEF length
  <2> QED BY <2>1, <2>2, SMT
<1>2. UserdataIn(Buffered(n), total) =
        IF last <= Len(Buffered(n)) THEN SubSeq(Buffered(n), HdrSize + AddrSize + 1, last) ELSE Overread
  BY DEF UserdataIn
<1> HIDE DEF last
<1>3. last <= Len(Buffered(n)) => SubSeq(Buffered(n), HdrSize + AddrSize + 1, last) \in Seq(0 .. got + n)
  BY <1>1, CutBuffer
<1> QED BY <1>2, <1>3

\* What it gets of a frame it gets as long as it is.
LEMMA UserdataGiven ==
    ASSUME Arrivals, NEW n \in Pieces, n > HdrSize + AddrSize, NEW m \in Nat, NEW h, Complete(m, n, h)
    PROVE  UserdataIn(Buffered(n), h.total) = UserdataOf(m + 1)
<1> DEFINE z == h.total
           size == FrameSize(frames[m + 1])
           length == (z - HdrSize - AddrSize) % 65536
<1>1. /\ Inside(m) /\ Piece(m, n) /\ got + n = End[m + 1]
      /\ z = End[m + 1] - End[m] /\ z = Len(Buffered(n))
  BY DEF Complete
<1>2. HdrSize = 8 /\ AddrSize = 4 /\ n \in Nat /\ n > 12
  BY BufferedType, SMT DEF HdrSize, AddrSize
<1>3. m \in 0 .. Len(frames) /\ m + 1 \in 1 .. Len(frames) /\ m + 1 \in 0 .. Len(frames) /\ m + 1 - 1 = m
  BY <1>1, LenProperties, SMT DEF Inside, Piece, Arrivals
<1>4. End[m] \in Nat /\ End[m + 1] \in Nat /\ End[m] <= got /\ got \in Nat
  BY <1>1, <1>3, EndsIncrease, BufferedType DEF Increasing, Arrivals, End, Inside
<1>5. size \in Nat /\ size <= 4095
  <2>1. size \in Nat /\ size <= BufferSize
    BY <1>3, ElementOfSeq, FrameSizes DEF Arrivals, Frames
  <2>2. BufferSize \in 1 .. 4095
    BY Params DEF Params
  <2> HIDE DEF size
  <2> QED BY <2>1, <2>2, SMT
<1>6. End[m + 1] = End[m] + size
  <2>1. End[m + 1] = End[m + 1 - 1] + size
    BY <1>3, EndsStep DEF Arrivals, End
  <2> QED BY <1>3, <2>1
<1>7. z \in Nat /\ z > 12 /\ z <= 4095
  BY <1>1, <1>2, <1>4, <1>5, <1>6, SMT
<1>13. UserdataIn(Buffered(n), z) =
         IF HdrSize + AddrSize + length <= Len(Buffered(n))
         THEN SubSeq(Buffered(n), HdrSize + AddrSize + 1, HdrSize + AddrSize + length)
         ELSE Overread
  BY DEF UserdataIn
<1> HIDE DEF z, size
<1>8. length = z - 12
  BY <1>2, <1>7, SMT
<1>9. HdrSize + AddrSize + length = z
  BY <1>2, <1>7, <1>8, SMT
<1> HIDE DEF length
<1>10. z <= Len(Buffered(n))
  BY <1>1, <1>7, SMT
<1>11. UserdataIn(Buffered(n), z) = SubSeq(Buffered(n), HdrSize + AddrSize + 1, z)
  BY <1>9, <1>10, <1>13
<1>12. SubSeq(Buffered(n), HdrSize + AddrSize + 1, z) = UserdataOf(m + 1)
  BY <1>1, UserdataInBuffer
<1> QED BY <1>11, <1>12 DEF z

LEMMA ReceiveOtherStep ==
    ASSUME ReceiveInv, NEW n \in Pieces, ReceiveOther(n)
    PROVE  ReceiveInv'
<1>1. Arrivals /\ Received(n) /\ Recv(n) /\ pc'.rx # "none" /\ delivered' = delivered /\ n > HdrSize + AddrSize
  BY DEF ReceiveOther, ReceiveInv, Received, Recv
<1>2. PICK h \in Decode(Buffered(n)) :
         /\ Len(Buffered(n)) >= h.total
         /\ h.type # DiagType \/ ~gRecvCb
         /\ Consume(Buffered(n), h.total)
  BY DEF ReceiveOther
<1>3. Arrivals'
  BY <1>1, <1>2, Consumed, ReceivedArrivals
<1>4. ASSUME clean' PROVE Assembled' /\ Dues'
  <2>1. clean /\ frames' = frames /\ gRecvCb' = gRecvCb
    BY <1>1, <1>4 DEF Received, Recv
  <2>2. PICK m \in Nat : Complete(m, n, h)
    BY <1>1, <1>2, <1>4, FrameComplete DEF ReceiveInv
  <2>3. /\ Inside(m) /\ Piece(m, n) /\ got + n = End[m + 1]
        /\ h.type = DiagType <=> frames[m + 1] = "DIAG_MSG"
    BY <2>2 DEF Complete
  <2>4. recv_buf' = <<>>
    BY <1>1, <1>2, <2>2, Consumed DEF Complete
  <2>5. Inside(m + 1)'
    BY <1>1, <2>3, <2>4, NextInside
  <2>6. m + 1 \in Nat
    BY SMT
  <2>7. frames[m + 1] # "DIAG_MSG" \/ ~gRecvCb
    BY <1>2, <2>3
  <2>8. Dues'
    BY <1>1, <2>1, <2>3, <2>7, OtherDue DEF ReceiveInv
  <2> QED BY <2>5, <2>6, <2>8 DEF Assembled
<1> QED BY <1>3, <1>4 DEF ReceiveInv, Assembled, Dues

LEMMA ReceiveDiagStep ==
    ASSUME ReceiveInv, NEW n \in Pieces, ReceiveDiag(n)
    PROVE  ReceiveInv'
<1>1. Arrivals /\ Received(n) /\ Recv(n) /\ pc'.rx # "none" /\ n > HdrSize + AddrSize
  BY DEF ReceiveDiag, ReceiveInv, Received, Recv
<1>2. PICK h \in Decode(Buffered(n)) :
         /\ Len(Buffered(n)) >= h.total
         /\ h.type = DiagType /\ gRecvCb
         /\ delivered' = Append(delivered, UserdataIn(Buffered(n), h.total))
         /\ Consume(Buffered(n), h.total)
  BY DEF ReceiveDiag
<1>3. Arrivals'
  BY <1>1, <1>2, Consumed, ReceivedArrivals
<1>4. ASSUME clean' PROVE Assembled' /\ Dues'
  <2>1. clean /\ frames' = frames /\ gRecvCb' = gRecvCb
    BY <1>1, <1>4 DEF Received, Recv
  <2>2. PICK m \in Nat : Complete(m, n, h)
    BY <1>1, <1>2, <1>4, FrameComplete DEF ReceiveInv
  <2>3. /\ Inside(m) /\ Piece(m, n) /\ got + n = End[m + 1]
        /\ frames[m + 1] = "DIAG_MSG"
    BY <1>2, <2>2 DEF Complete
  <2>4. recv_buf' = <<>>
    BY <1>1, <1>2, <2>2, Consumed DEF Complete
  <2>5. Inside(m + 1)'
    BY <1>1, <2>3, <2>4, NextInside
  <2>6. m + 1 \in Nat
    BY SMT
  <2>7. UserdataIn(Buffered(n), h.total) = UserdataOf(m + 1)
    BY <1>1, <2>2, UserdataGiven
  <2>8. delivered' = Append(delivered, UserdataOf(m + 1))
    BY <1>2, <2>7
  <2>9. Dues'
    BY <1>1, <1>2, <2>1, <2>3, <2>8, MessageDue DEF ReceiveInv
  <2> QED BY <2>5, <2>6, <2>9 DEF Assembled
<1> QED BY <1>3, <1>4 DEF ReceiveInv, Assembled, Dues

\* A tidy piece fits into recv_buf, because its frame does.
LEMMA OverrunStep ==
    ASSUME ReceiveInv, NEW n \in Pieces, Overrun(n)
    PROVE  ReceiveInv' /\ ~clean'
<1>1. /\ Arrivals /\ Recv(n) /\ recv_buf' = recv_buf /\ delivered' = delivered
      /\ Len(recv_buf) + n > BufferSize /\ pc'.rx # "none"
  BY DEF Overrun, ReceiveInv
<1>2. ASSUME clean' PROVE FALSE
  <2>1. clean /\ Tidy(n)
    BY <1>1, <1>2 DEF Recv
  <2>2. PICK m \in Nat : Inside(m)
    BY <2>1 DEF ReceiveInv, Assembled
  <2>3. Piece(m, n)
    BY <1>1, <2>1, <2>2, ReceivedPiece
  <2>4. n \in Nat /\ got \in Nat /\ BufferSize \in Nat
    BY <1>1, BufferedType, Params, SMT DEF Params
  <2>5. /\ m \in 0 .. Len(frames) /\ m + 1 \in 1 .. Len(frames) /\ m + 1 \in 0 .. Len(frames)
        /\ m + 1 - 1 = m
    BY <1>1, <2>2, <2>3, LenProperties, SMT DEF Inside, Piece, Arrivals
  <2>6. End[m] \in Nat /\ End[m + 1] \in Nat /\ End[m] <= got
    BY <1>1, <2>2, <2>5, EndsIncrease DEF Increasing, Arrivals, End, Inside
  <2>7. End[m + 1] = End[m] + FrameSize(frames[m + 1])
    <3>1. End[m + 1] = End[m + 1 - 1] + FrameSize(frames[m + 1])
      BY <1>1, <2>5, EndsStep DEF Arrivals, End
    <3> QED BY <2>5, <3>1
  <2>8. FrameSize(frames[m + 1]) \in Nat /\ FrameSize(frames[m + 1]) <= BufferSize
    BY <1>1, <2>5, ElementOfSeq, FrameSizes DEF Arrivals, Frames
  <2>9. Len(recv_buf) = got - End[m]
    <3>1. got - End[m] \in Nat
      BY <2>4, <2>6, SMT
    <3>2. recv_buf \in [1 .. got - End[m] -> Nat]
      BY <2>2, <2>4, <2>6, SMT DEF Inside
    <3> QED BY <3>1, <3>2, FunctionSeq
  <2>10. got + n <= End[m + 1]
    BY <2>3 DEF Piece
  <2> QED BY <1>1, <2>4, <2>6, <2>7, <2>8, <2>9, <2>10, SMT
<1>3. Arrivals'
  <2>1. recv_buf' \in Seq(0 .. got + n)
    <3>1. n \in Nat /\ got \in Nat
      BY <1>1, BufferedType
    <3>2. 0 .. got \subseteq 0 .. got + n
      BY <3>1, SMT
    <3> QED BY <1>1, <3>2, SeqMonotonic DEF Arrivals
  <2> QED BY <1>1, <2>1, ReceivedArrivals
<1> QED BY <1>2, <1>3 DEF ReceiveInv, Assembled, Dues

-----------------------------------------------------------------------------
(* The other steps                                                         *)

\* Steps that leave the stream and the callback alone.
LEMMA ReceiveStutter ==
    ASSUME ReceiveInv, UNCHANGED <<stream, gRecvCb>>, pc'.rx = "none" => pc.rx = "none"
    PROVE  ReceiveInv'
<1>1. frames' = frames /\ got' = got /\ recv_buf' = recv_buf /\ delivered' = delivered /\ whole' = whole
      /\ clean' = clean /\ gRecvCb' = gRecvCb /\ End' = End
  BY DEF stream, End
<1>2. Arrivals'
  BY <1>1 DEF ReceiveInv, Arrivals
<1>3. Assembled'
  BY <1>1 DEF ReceiveInv, Assembled, Inside
<1>4. Dues'
  <2>1. Diag' = Diag
    BY <1>1 DEF Diag
  <2> QED BY <1>1, <2>1, UserdataStays, NothingDue DEF ReceiveInv
<1> QED BY <1>2, <1>3, <1>4 DEF ReceiveInv

LEMMA RegisterCbStep ==
    ASSUME ReceiveInv, SocketInv, RegisterCb
    PROVE  ReceiveInv'
<1>1. /\ UNCHANGED stream /\ frames' = frames /\ got' = got /\ recv_buf' = recv_buf
      /\ delivered' = delivered /\ whole' = whole /\ clean' = clean /\ gRecvCb' = TRUE /\ pc' = pc
      /\ End' = End
  BY DEF RegisterCb, stream, End
<1>2. whole = {} /\ delivered = <<>>
  BY DEF RegisterCb, SocketInv, Places, Alone, ReceiveInv, Arrivals
<1>3. Arrivals'
  BY <1>1 DEF ReceiveInv, Arrivals
<1>4. Assembled'
  BY <1>1 DEF ReceiveInv, Assembled, Inside
<1>5. Dues'
  <2> DEFINE due == [i \in 1 .. 0 |-> i]
  <2>1. 1 .. 0 = {} /\ DOMAIN due = {}
    BY SMT
  <2>2. Diag' = {} /\ Cardinality({}) = 0
    BY <1>1, <1>2, FS_EmptySet DEF Diag
  <2>3. due \in [1 .. Cardinality(Diag') -> Diag']
    BY <2>1, <2>2
  <2>4. <<>> = [j \in DOMAIN due |-> UserdataOf(due[j])']
    <3> HIDE DEF due
    <3> QED BY <2>1, SMT
  <2>5. \A j, k \in DOMAIN due : j < k => due[j] < due[k]
    BY <2>1
  <2> HIDE DEF due
  <2>6. PICK d : d = due
    OBVIOUS
  <2>7. delivered' = IF gRecvCb' THEN [j \in DOMAIN d |-> UserdataOf(d[j])'] ELSE <<>>
    BY <1>1, <1>2, <2>4, <2>6
  <2>8. d \in [1 .. Cardinality(Diag') -> Diag'] /\ \A j, k \in DOMAIN d : j < k => d[j] < d[k]
    BY <2>3, <2>5, <2>6
  <2> QED BY <2>7, <2>8 DEF Dues
<1> QED BY <1>3, <1>4, <1>5 DEF ReceiveInv

LEMMA PeerSendStep ==
    ASSUME ReceiveInv, NEW kind \in Kinds, PeerSend(kind)
    PROVE  ReceiveInv'
<1> DEFINE L == Len(frames)
<1>1. /\ frames' = Append(frames, kind) /\ got' = got /\ recv_buf' = recv_buf
      /\ delivered' = delivered /\ whole' = whole /\ clean' = clean /\ gRecvCb' = gRecvCb /\ pc' = pc
  BY DEF PeerSend
<1>2. frames \in Seq(Kinds) /\ L \in Nat
  BY LenProperties DEF ReceiveInv, Arrivals
<1>3. frames' \in Seq(Kinds) /\ Len(frames') = L + 1 /\ \A i \in 1 .. L : frames'[i] = frames[i]
  BY <1>1, <1>2, AppendProperties
<1>4. \A i \in 0 .. L : End'[i] = End[i]
  BY <1>1, <1>2, EndsStay DEF End
<1>5. /\ \A i \in 0 .. L + 1 : End'[i] \in Nat
      /\ \A i, j \in 0 .. L + 1 : i < j => End'[i] < End'[j]
  BY <1>3, EndsIncrease DEF Increasing, End
<1>6. /\ L \in 0 .. L /\ L \in 0 .. L + 1 /\ L + 1 \in 0 .. L + 1 /\ L < L + 1
      /\ \A i \in 1 .. L : i \in 0 .. L /\ i \in 1 .. L + 1
  BY <1>2, SMT
<1>7. End[L] \in Nat /\ End'[L + 1] \in Nat /\ End[L] < End'[L + 1]
  BY <1>4, <1>5, <1>6
<1>8. Arrivals'
  <2>1. got \in 0 .. End'[L + 1]
    BY <1>7, SMT DEF ReceiveInv, Arrivals
  <2>2. \A i \in whole : i \in 1 .. L + 1 /\ End'[i] <= got
    BY <1>4, <1>6 DEF ReceiveInv, Arrivals
  <2> QED BY <1>1, <1>3, <2>1, <2>2 DEF ReceiveInv, Arrivals
<1>9. Assembled'
  <2> SUFFICES ASSUME clean PROVE \E m \in Nat : Inside(m)'
    BY <1>1 DEF Assembled
  <2>1. PICK m \in Nat : Inside(m)
    BY DEF ReceiveInv, Assembled
  <2>2. m \in 0 .. L /\ m \in 0 .. L + 1 /\ (m < L \/ m = L) /\ (m < L => m + 1 \in 0 .. L)
    BY <1>2, <2>1, SMT DEF Inside
  <2>3. End'[m] = End[m]
    BY <1>4, <2>2
  <2>4. got < End'[m + 1]
    <3>1. CASE m < L
      BY <1>4, <2>1, <2>2, <3>1 DEF Inside
    <3>2. CASE m = L
      BY <1>7, <3>2, SMT DEF ReceiveInv, Arrivals
    <3> QED BY <2>2, <3>1, <3>2
  <2>5. Inside(m)'
    BY <1>1, <1>3, <2>1, <2>2, <2>3, <2>4 DEF Inside
  <2> QED BY <2>5
<1>10. Dues'
  <2>1. whole \subseteq 1 .. L
    BY DEF ReceiveInv, Arrivals
  <2>2. Diag' = Diag
    BY <1>1, <1>3, <2>1 DEF Diag
  <2>3. ASSUME NEW i \in Diag PROVE UserdataOf(i)' = UserdataOf(i)
    <3>1. i \in 1 .. L /\ i - 1 \in 0 .. L
      <4>1. i \in 1 .. L
        BY <2>1 DEF Diag
      <4> QED BY <1>2, <4>1, SMT
    <3>2. frames'[i] = frames[i] /\ End'[i - 1] = End[i - 1]
      BY <1>3, <1>4, <3>1
    <3> QED BY <3>2 DEF UserdataOf, Start
  <2> QED BY <1>1, <2>2, <2>3, NothingDue DEF ReceiveInv
<1> QED BY <1>8, <1>9, <1>10 DEF ReceiveInv

LEMMA ReconnectStep ==
    ASSUME ReceiveInv, Reconnect, pc'.rx # "none"
    PROVE  ReceiveInv'
<1> DEFINE L == Len(frames)
<1>1. /\ frames' = frames /\ got' = End[L] /\ recv_buf' = recv_buf /\ delivered' = delivered
      /\ whole' = whole /\ gRecvCb' = gRecvCb /\ End' = End
      /\ clean' = (clean /\ \E i \in 0 .. L : End[i] = got)
  BY DEF Reconnect, End
<1>2. frames \in Seq(Kinds) /\ L \in Nat /\ L \in 0 .. L
  BY LenProperties, SMT DEF ReceiveInv, Arrivals
<1>3. /\ \A i \in 0 .. L : End[i] \in Nat
      /\ \A i, j \in 0 .. L : i < j => End[i] < End[j]
  BY <1>2, EndsIncrease DEF Increasing, End
<1>4. End[L] \in Nat /\ got \in 0 .. End[L]
  BY <1>2, <1>3 DEF ReceiveInv, Arrivals
<1>5. Arrivals'
  <2>1. got' \in 0 .. End[L]
    BY <1>1, <1>4, SMT
  <2>2. recv_buf \in Seq(0 .. got')
    <3>1. 0 .. got \subseteq 0 .. End[L]
      BY <1>4, SMT
    <3> QED BY <1>1, <3>1, SeqMonotonic DEF ReceiveInv, Arrivals
  <2>3. ASSUME NEW i \in whole PROVE i \in 1 .. L /\ End[i] <= End[L]
    <3>1. i \in 1 .. L /\ i \in 0 .. L /\ (i < L \/ i = L)
      <4>1. i \in 1 .. L
        BY DEF ReceiveInv, Arrivals
      <4> QED BY <1>2, <4>1, SMT
    <3>2. i < L => End[i] < End[L]
      BY <1>2, <1>3, <3>1
    <3>3. End[i] \in Nat
      BY <1>3, <3>1
    <3> QED BY <1>4, <3>1, <3>2, <3>3, SMT
  <2> QED BY <1>1, <2>1, <2>2, <2>3 DEF ReceiveInv, Arrivals
<1>6. Assembled'
  <2> SUFFICES ASSUME clean' PROVE \E m \in Nat : Inside(m)'
    BY DEF Assembled
  <2>1. PICK m \in Nat : Inside(m)
    BY <1>1 DEF ReceiveInv, Assembled
  <2>2. PICK i \in 0 .. L : End[i] = got
    BY <1>1
  <2>3. m \in 0 .. L /\ End[m] <= got /\ (m < L => got < End[m + 1]) /\ (m < L => m + 1 \in 0 .. L)
    BY <1>2, <2>1, SMT DEF Inside
  <2>4. i < m \/ i = m \/ i = m + 1 \/ m + 1 < i
    BY <1>2, <2>2, <2>3, SMT
  <2>5. CASE i < m
    <3>1. End[i] < End[m]
      BY <1>3, <2>2, <2>3, <2>5
    <3> QED BY <1>3, <2>2, <2>3, <3>1, SMT
  <2>6. CASE i = m + 1
    <3>1. m < L
      BY <1>2, <2>2, <2>3, <2>6, SMT
    <3> QED BY <1>3, <2>2, <2>3, <2>6, <3>1, SMT
  <2>7. CASE m + 1 < i
    <3>1. m < L
      BY <1>2, <2>2, <2>3, <2>7, SMT
    <3>2. End[m + 1] < End[i] /\ End[m + 1] \in Nat
      BY <1>3, <2>2, <2>3, <2>7, <3>1
    <3> QED BY <1>3, <2>2, <2>3, <3>1, <3>2, SMT
  <2>8. CASE i = m
    <3>1. 1 .. got - End[m] = {} /\ 1 .. End[L] - End[L] = {}
      BY <1>3, <1>4, <2>2, <2>3, <2>8, SMT
    <3>2. recv_buf = [k \in {} |-> End[m] + k]
      BY <2>1, <3>1 DEF Inside
    <3>3. [k \in {} |-> End[m] + k] = [k \in {} |-> End[L] + k]
      OBVIOUS
    <3>4. recv_buf' = [k \in 1 .. got' - End[L] |-> End[L] + k]
      BY <1>1, <3>1, <3>2, <3>3
    <3>5. ~(L < L) /\ End[L] <= got'
      BY <1>1, <1>2, <1>4, SMT
    <3>6. Inside(L)'
      BY <1>1, <1>2, <3>4, <3>5 DEF Inside
    <3> QED BY <1>2, <3>6
  <2> QED BY <2>4, <2>5, <2>6, <2>7, <2>8
<1>7. Dues'
  <2>1. Diag' = Diag
    BY <1>1 DEF Diag
  <2> QED BY <1>1, <2>1, UserdataStays, NothingDue DEF ReceiveInv
<1> QED BY <1>5, <1>6, <1>7 DEF ReceiveInv

\* The receive thread, once spawned, does not become unspawned.
LEMMA Running ==
    ASSUME SocketInv, [Next]_vars
    PROVE  pc'.rx = "none" => pc.rx = "none"
<1> SUFFICES ASSUME pc.rx # "none" PROVE pc'.rx # "none"
  OBVIOUS
<1> USE DEF Goto
<1>0. pc \in [app : AppLabels, rx : RxLabels]
  BY DEF SocketInv, Places
<1>1. CASE \/ RegisterCb \/ RoutingCall \/ SendCall
           \/ InitSocket \/ InitConnect \/ Spawn
           \/ SendMeasure \/ SwapLength \/ SwapType \/ SendOk \/ SendFail
  BY <1>0, <1>1, SMT DEF RegisterCb, RoutingCall, SendCall, InitSocket, InitConnect, Spawn, SendMeasure, SwapLength, SwapType,
     SendOk, SendFail, SendReturn
<1>2. ASSUME NEW t \in Threads, Create(t) \/ Routing(t)
      PROVE  pc'.rx # "none"
  <2>1. PICK label \in {"set_type", "set_length", "set_sa", "spawn", "activate", "create", "ready", "recv"} : Goto(t, label)
    BY <1>2 DEF Create, CreateMsg, SetType, SetLength, SetSa, Routing, RoutingCheck, Activate, Resume
  <2> QED BY <1>0, <2>1, SMT DEF Threads
<1>3. CASE ReceiveError \/ Closing \/ CreateSocket \/ Reconnect \/ ReconnectFail
  BY <1>0, <1>3, SMT DEF ReceiveError, Closing, CloseSocket, ForgetSocket, Unlink, CreateSocket, Reconnect, ReconnectFail
<1>4. CASE Receive
  BY <1>4 DEF Receive, ReceiveSmall, ReceivePart, ReceiveOther, ReceiveDiag, Received, Recv, Overrun
<1>5. ASSUME NEW kind \in Kinds, PeerSend(kind)
      PROVE  pc'.rx # "none"
  BY <1>5 DEF PeerSend
<1>6. ASSUME NEW how \in {"reset", "fin"}, PeerLeaves(how)
      PROVE  pc'.rx # "none"
  BY <1>6 DEF PeerLeaves
<1>7. CASE UNCHANGED vars
  BY <1>7 DEF vars
<1> QED
  BY <1>1, <1>2, <1>3, <1>4, <1>5, <1>6, <1>7 DEF Next, App, ReceiveThread, Threads

LEMMA ReceiveNext ==
    SocketInv /\ ReceiveInv /\ [Next]_vars => ReceiveInv'
<1> SUFFICES ASSUME SocketInv, ReceiveInv, [Next]_vars
             PROVE  ReceiveInv'
  OBVIOUS
<1>0. pc'.rx = "none" => pc.rx = "none"
  BY Running
<1>1. CASE RegisterCb
  BY <1>1, RegisterCbStep
<1>2. CASE RoutingCall \/ SendCall \/ App
  <2>1. UNCHANGED <<stream, gRecvCb>>
    BY <1>2 DEF RoutingCall, SendCall, App, InitSocket, InitConnect, Spawn, Create, CreateMsg, SetType, SetLength,
       SetSa, InCreate, Routing, RoutingCheck, Activate, SendMeasure, SwapLength, SwapType, SendOk, SendFail,
       SendReturn
  <2> QED BY <1>0, <2>1, ReceiveStutter
<1>3. CASE Receive
  BY <1>3, ReceiveSmallStep, ReceivePartStep, ReceiveOtherStep, ReceiveDiagStep, OverrunStep DEF Receive
<1>4. CASE ReceiveError \/ Closing \/ CreateSocket \/ ReconnectFail \/ Create("rx") \/ Routing("rx")
  <2>1. UNCHANGED <<stream, gRecvCb>>
    BY <1>4 DEF ReceiveError, Closing, CloseSocket, ForgetSocket, Unlink, CreateSocket, ReconnectFail, Create, CreateMsg, SetType, SetLength,
       SetSa, InCreate, Routing, RoutingCheck, Activate
  <2> QED BY <1>0, <2>1, ReceiveStutter
<1>5. CASE Reconnect
  <2>1. pc'.rx # "none"
    BY <1>0, <1>5 DEF Reconnect
  <2> QED BY <1>5, <2>1, ReconnectStep
<1>6. ASSUME NEW kind \in Kinds, PeerSend(kind)
      PROVE  ReceiveInv'
  BY <1>6, PeerSendStep
<1>7. ASSUME NEW how \in {"reset", "fin"}, PeerLeaves(how)
      PROVE  ReceiveInv'
  BY <1>0, <1>7, ReceiveStutter DEF PeerLeaves
<1>8. CASE UNCHANGED vars
  BY <1>0, <1>8, ReceiveStutter DEF vars
<1> QED
  BY <1>1, <1>2, <1>3, <1>4, <1>5, <1>6, <1>7, <1>8 DEF Next, ReceiveThread

\* How the threads can come to stand behind recv_buf.
Beyond == \E n \in Pieces : Overrun(n)

LEMMA NotBeyond ==
    ASSUME SocketInv, [Next]_vars, ~Beyond
    PROVE  (clean' => clean) /\ (pc'.rx = "overrun" => pc.rx = "overrun")
<1> USE DEF Goto
<1>0. pc \in [app : AppLabels, rx : RxLabels]
  BY DEF SocketInv, Places
<1>1. CASE \/ RegisterCb \/ RoutingCall \/ SendCall
           \/ InitSocket \/ InitConnect \/ Spawn
           \/ SendMeasure \/ SwapLength \/ SwapType \/ SendOk \/ SendFail
  BY <1>0, <1>1, SMT DEF RegisterCb, RoutingCall, SendCall, InitSocket, InitConnect, Spawn, SendMeasure, SwapLength, SwapType,
     SendOk, SendFail, SendReturn, stream
<1>2. ASSUME NEW t \in Threads, Create(t) \/ Routing(t)
      PROVE  (clean' => clean) /\ (pc'.rx = "overrun" => pc.rx = "overrun")
  <2>1. PICK label \in {"set_type", "set_length", "set_sa", "spawn", "activate", "create", "ready", "recv"} : Goto(t, label)
    BY <1>2 DEF Create, CreateMsg, SetType, SetLength, SetSa, Routing, RoutingCheck, Activate, Resume
  <2>2. clean' = clean
    BY <1>2 DEF Create, CreateMsg, SetType, SetLength, SetSa, InCreate, Routing, RoutingCheck, Activate, stream
  <2> QED BY <1>0, <2>1, <2>2, SMT DEF Threads
<1>3. CASE ReceiveError \/ Closing \/ CreateSocket \/ Reconnect \/ ReconnectFail
  <2>1. PICK label \in {"recv", "close", "forget", "unlink", "socket", "connect", "returned", "routing"} :
            Goto("rx", label)
    BY <1>3 DEF ReceiveError, Closing, CloseSocket, ForgetSocket, Unlink, CreateSocket, Reconnect, ReconnectFail
  <2>2. clean' => clean
    BY <1>3 DEF ReceiveError, Closing, CloseSocket, ForgetSocket, Unlink, CreateSocket, Reconnect, ReconnectFail,
       stream
  <2> QED BY <1>0, <2>1, <2>2, SMT
<1>4. CASE Receive
  BY <1>4 DEF Receive, ReceiveSmall, ReceivePart, ReceiveOther, ReceiveDiag, Received, Recv, Beyond
<1>5. ASSUME NEW kind \in Kinds, PeerSend(kind)
      PROVE  (clean' => clean) /\ (pc'.rx = "overrun" => pc.rx = "overrun")
  BY <1>5 DEF PeerSend
<1>6. ASSUME NEW how \in {"reset", "fin"}, PeerLeaves(how)
      PROVE  (clean' => clean) /\ (pc'.rx = "overrun" => pc.rx = "overrun")
  BY <1>6 DEF PeerLeaves, stream
<1>7. CASE UNCHANGED vars
  BY <1>7 DEF vars, stream
<1> QED
  BY <1>1, <1>2, <1>3, <1>4, <1>5, <1>6, <1>7 DEF Next, App, ReceiveThread, Threads

LEMMA FitsNext ==
    SocketInv /\ ReceiveInv /\ Fits /\ [Next]_vars => Fits'
<1> SUFFICES ASSUME SocketInv, ReceiveInv, Fits, [Next]_vars
             PROVE  Fits'
  OBVIOUS
<1>1. CASE Beyond
  BY <1>1, OverrunStep DEF Beyond, Fits
<1>2. CASE ~Beyond
  BY <1>2, NotBeyond DEF Fits
<1> QED BY <1>1, <1>2

(* While TCP hands over pieces the loop can do with (Tidy) and no           *)
(* connection is lost inside a frame, the callback of doip_register_cb gets *)
(* the user data of every diagnostic message that has arrived, whole, once  *)
(* and in order, across reconnects, and nothing is written beyond recv_buf  *)
(* (recv_loop, doip_client.c:93-183) - for frames of any of the kinds of    *)
(* doip_pdu.h that fit into it, user data of any length that does and       *)
(* pieces of any lengths.                                                   *)
THEOREM MessagesDelivered == Spec => []Delivered
<1>1. ReceiveInv /\ Fits => Delivered
  BY DEF ReceiveInv, Fits, Dues, Delivered
<1>2. Init => SocketInv /\ ReceiveInv /\ Fits
  <2>1. Init => Fits
    BY DEF Init, Fits
  <2> QED BY <2>1, SocketInit, ReceiveInit
<1>3. (SocketInv /\ ReceiveInv /\ Fits) /\ [Next]_vars => (SocketInv /\ ReceiveInv /\ Fits)'
  BY SocketNext, ReceiveNext, FitsNext
<1> QED BY <1>1, <1>2, <1>3, PTL DEF Spec

-----------------------------------------------------------------------------
(* Types                                                                   *)

\* What the other invariants do not say of the types.
Plain ==
    /\ conn \in {"down", "up", "fin", "reset"}
    /\ remote_unlink \in BOOLEAN /\ doip_sa_set \in BOOLEAN /\ activated \in BOOLEAN
    /\ len \in Lens \cup {0} /\ send_len \in Nat

Calls(k) == Seq(0 .. k) \cup {Overread}

Handed == delivered \in Seq(Calls(got))

TypeInv == Plain /\ Handed

\* What was handed over stays part of the stream, which only grows.
LEMMA HandedStays ==
    ASSUME Handed, NEW g \in Nat, NEW h \in Nat, got = g, g <= h
    PROVE  delivered \in Seq(Calls(h))
<1>1. 0 .. g \subseteq 0 .. h
  BY SMT
<1>2. Calls(g) \subseteq Calls(h)
  BY <1>1, SeqMonotonic DEF Calls
<1> QED BY <1>2, SeqMonotonic DEF Handed

LEMMA HandedNext ==
    ASSUME Arrivals, Handed, [Next]_vars
    PROVE  Handed'
<1>1. frames \in Seq(Kinds) /\ got \in Nat /\ End[Len(frames)] \in Nat /\ got <= End[Len(frames)]
  <2>1. frames \in Seq(Kinds) /\ Len(frames) \in 0 .. Len(frames) /\ got \in 0 .. End[Len(frames)]
    BY LenProperties, SMT DEF Arrivals
  <2>2. End[Len(frames)] \in Nat
    BY <2>1, EndsIncrease DEF Increasing, End
  <2> QED BY <2>1, <2>2, SMT
<1>2. ASSUME NEW n \in Pieces, Received(n), delivered' = delivered
      PROVE  Handed'
  <2>1. n \in Nat /\ got + n \in Nat /\ got <= got + n /\ got' = got + n
    BY <1>1, <1>2, BufferedType, SMT DEF Received, Recv
  <2> QED BY <1>1, <1>2, <2>1, HandedStays DEF Handed
<1>3. ASSUME NEW n \in Pieces, ReceiveDiag(n)
      PROVE  Handed'
  <2>1. Received(n) /\ got' = got + n
    BY <1>3 DEF ReceiveDiag, Received, Recv
  <2>2. n \in Nat /\ got + n \in Nat /\ got <= got + n
    BY <1>1, BufferedType, SMT
  <2>3. PICK h \in Decode(Buffered(n)) : delivered' = Append(delivered, UserdataIn(Buffered(n), h.total))
    BY <1>3 DEF ReceiveDiag
  <2>4. UserdataIn(Buffered(n), h.total) \in Calls(got + n)
    BY DecodedType, UserdataType DEF Calls
  <2>5. delivered \in Seq(Calls(got + n))
    BY <1>1, <2>2, HandedStays
  <2> QED BY <2>1, <2>3, <2>4, <2>5, AppendProperties DEF Handed
<1>11. ASSUME NEW n \in Pieces, Overrun(n)
       PROVE  Handed'
  <2>1. n \in Nat /\ got + n \in Nat /\ got <= got + n /\ got' = got + n /\ delivered' = delivered
    BY <1>1, <1>11, BufferedType, SMT DEF Overrun, Recv
  <2> QED BY <1>1, <2>1, HandedStays DEF Handed
<1>4. CASE Receive
  BY <1>2, <1>3, <1>4, <1>11 DEF Receive, ReceiveSmall, ReceivePart, ReceiveOther
<1>5. CASE Reconnect
  BY <1>1, <1>5, HandedStays DEF Reconnect, Handed
<1>6. ASSUME delivered' = delivered /\ got' = got
      PROVE  Handed'
  BY <1>6 DEF Handed
<1>7. CASE RegisterCb \/ RoutingCall \/ SendCall \/ App
  BY <1>6, <1>7 DEF RegisterCb, RoutingCall, SendCall, App, InitSocket, InitConnect, Spawn, Create, CreateMsg, SetType,
     SetLength, SetSa, InCreate, Routing, RoutingCheck, Activate, SendMeasure, SwapLength, SwapType, SendOk, SendFail,
     SendReturn, stream
<1>8. CASE ReceiveError \/ Closing \/ CreateSocket \/ ReconnectFail \/ Create("rx") \/ Routing("rx")
  BY <1>6, <1>8 DEF ReceiveError, Closing, CloseSocket, ForgetSocket, Unlink, CreateSocket, ReconnectFail, Create, CreateMsg, SetType,
     SetLength, SetSa, InCreate, Routing, RoutingCheck, Activate, stream
<1>9. ASSUME (\E kind \in Kinds : PeerSend(kind)) \/ (\E how \in {"reset", "fin"} : PeerLeaves(how))
      PROVE  Handed'
  BY <1>6, <1>9 DEF PeerSend, PeerLeaves, stream
<1>10. CASE UNCHANGED vars
  BY <1>6, <1>10 DEF vars, stream
<1> QED
  BY <1>4, <1>5, <1>7, <1>8, <1>9, <1>10 DEF Next, ReceiveThread

LEMMA PlainNext ==
    ASSUME HeaderInv, Plain, [Next]_vars
    PROVE  Plain'
<1> USE DEF Plain, socket, message, request
<1>1. CASE RegisterCb \/ RoutingCall
  BY <1>1 DEF RegisterCb, RoutingCall
<1>2. CASE SendCall \/ SwapLength \/ SwapType
  BY <1>2 DEF SendCall, SwapLength, SwapType
<1>3. CASE SendMeasure
  <2>1. hdr \in Records
    BY <1>3 DEF SendMeasure, HeaderInv, Shape, Sending
  <2>2. hdr.PayloadLength \in Nat
    BY <2>1 DEF Records
  <2>3. send_len' \in Nat
    BY <1>3, <2>2, SMT DEF SendMeasure
  <2> QED BY <1>3, <2>3 DEF SendMeasure
<1>4. CASE SendOk \/ SendFail
  BY <1>4, SMT DEF SendOk, SendFail, SendReturn
<1>5. CASE InitSocket \/ InitConnect \/ Spawn
  BY <1>5 DEF InitSocket, InitConnect, Spawn
<1>6. ASSUME NEW t \in Threads, Create(t) \/ Routing(t)
      PROVE  Plain'
  BY <1>6 DEF Create, CreateMsg, SetType, SetLength, SetSa, InCreate, Routing, RoutingCheck, Activate
<1>7. CASE Receive
  BY <1>7 DEF Receive, ReceiveSmall, ReceivePart, ReceiveOther, ReceiveDiag, Received, Recv, Overrun
<1>8. CASE ReceiveError \/ Closing \/ CreateSocket \/ Reconnect \/ ReconnectFail
  BY <1>8 DEF ReceiveError, Closing, CloseSocket, ForgetSocket, Unlink, CreateSocket, Reconnect, ReconnectFail
<1>9. ASSUME (\E kind \in Kinds : PeerSend(kind)) \/ (\E how \in {"reset", "fin"} : PeerLeaves(how))
      PROVE  Plain'
  BY <1>9 DEF PeerSend, PeerLeaves
<1>10. CASE UNCHANGED vars
  BY <1>10 DEF vars
<1> QED
  BY <1>1, <1>2, <1>3, <1>4, <1>5, <1>6, <1>7, <1>8, <1>9, <1>10 DEF Next, App, ReceiveThread, Threads

(* What the client, the receive thread and the connection keep has the     *)
(* types TypeOK says (doip_client.c, its globals and recv_loop's locals):  *)
(* recv_buf holds bytes that were received, or ones offset was moved over  *)
(* by a negative length, and the callback gets some of these, or more than *)
(* recv_buf holds.                                                         *)
THEOREM TypeCorrect == Spec => []TypeOK
<1> DEFINE Inv == SocketInv /\ HeaderInv /\ ReceiveInv /\ TypeInv
<1>1. ASSUME Inv PROVE TypeOK
  <2>1. sockets \in Nat
    BY <1>1, SMT DEF SocketInv, OneSocket
  <2>2. /\ pc.app \in {"start", "connect", "spawn", "ready", "init_failed", "routing", "activate",
                       "overrun"} \cup Creating \cup Sending
        /\ pc.rx \in {"none", "recv", "close", "forget", "unlink", "socket", "connect", "routing",
                      "activate", "returned", "overrun"} \cup Creating
    BY <1>1 DEF SocketInv, Places, AppLabels, RxLabels
  <2>3. /\ gsock \in {"none", "zero", "open"} /\ failed \in BOOLEAN /\ overlapped \in BOOLEAN
        /\ hdr = NoMsg \/ hdr \in [PayloadType : Nat, PayloadLength : Nat]
    BY <1>1 DEF SocketInv, SocketAt, HeaderInv, Shape, Records
  <2>4. /\ frames \in Seq(Kinds) /\ got \in 0 .. End[Len(frames)] /\ recv_buf \in Seq(0 .. got)
        /\ clean \in BOOLEAN /\ gRecvCb \in BOOLEAN /\ whole \subseteq 1 .. Len(frames)
    BY <1>1 DEF ReceiveInv, Arrivals
  <2>5. Plain /\ Handed
    BY <1>1 DEF TypeInv
  <2> QED BY <2>1, <2>2, <2>3, <2>4, <2>5 DEF TypeOK, Plain, Handed, Calls
<1>2. Init => Inv
  <2>1. ASSUME Init PROVE TypeInv
    <3>1. delivered \in Seq(Calls(got))
      BY <2>1, EmptySeq DEF Init
    <3>2. 0 \in Nat
      BY SMT
    <3>3. Plain
      BY <2>1, <3>2 DEF Init, Plain
    <3> QED BY <3>1, <3>3 DEF TypeInv, Handed
  <2> QED BY <2>1, SocketInit, HeaderInit, ReceiveInit
<1>3. Inv /\ [Next]_vars => Inv'
  <2>1. ASSUME Inv, [Next]_vars PROVE TypeInv'
    BY <2>1, HandedNext, PlainNext DEF TypeInv, ReceiveInv
  <2> QED BY <2>1, SocketNext, HeaderNext, ReceiveNext
<1>4. Inv => TypeOK
  BY <1>1
<1> QED BY <1>2, <1>3, <1>4, PTL DEF Spec
=============================================================================

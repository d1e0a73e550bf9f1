------------------------------- MODULE DoipPdu -------------------------------
(***************************************************************************)
(* The DoIP messages of doip/doip_pdu.h and doip/doip_pdu.c: what they are *)
(* called on the wire, how long they are, and the templates of the table   *)
(* DOIP_MSGS.  A number that goes on the wire is stored with its bytes     *)
(* swapped, on the little-endian machines the code is built for.           *)
(***************************************************************************)
EXTENDS Integers, Sequences

(* HTONS and HTONL, and ntohs and ntohl, which are the same exchange.      *)
(* (TLC counts to 2^31: lengths here have a last byte below 128.)          *)
Swap16(a) == (a % 256) * 256 + (a \div 256)

Swap32(a) ==
    (a % 256) * 16777216 + ((a \div 256) % 256) * 65536
    + ((a \div 65536) % 256) * 256 + ((a \div 16777216) % 256)

MsgType ==
    [ GENERIC_NACK |-> 0,
      VI_REQ |-> 1, VI_REQ_EID |-> 2, VI_REQ_VIN |-> 3, VI_RSP |-> 4,
      RA_REQ |-> 5, RA_RSP |-> 6,
      AC_REQ |-> 7, AC_RSP |-> 8,
      ES_REQ |-> 16385, ES_RSP |-> 16386,
      PM_REQ |-> 16387, PM_RSP |-> 16388,
      DIAG_MSG |-> 32769, DIAG_ACK |-> 32770, DIAG_NACK |-> 32771 ]

-----------------------------------------------------------------------------
(* sizeof the packed structures.  The user data at the end of the          *)
(* diagnostic messages has no size of its own.                             *)

HdrSize == 1 + 1 + 2 + 4

AddrSize == 2 + 2       \* sa, ta

DiscoverySize ==
    [ GENERIC_NACK |-> HdrSize + 1,
      VI_REQ |-> HdrSize, VI_REQ_EID |-> HdrSize + 6, VI_REQ_VIN |-> HdrSize + 17 ]

AnnouncementSize == [ VI_RSP |-> HdrSize + 17 + 2 + 6 + 6 + 1 + 1 ]

ActivationSize == [ RA_REQ |-> HdrSize + 2 + 1 + 4 + 4 ]

ActivatedSize == [ RA_RSP |-> HdrSize + 2 + 2 + 1 + 4 + 4 ]

DiagnosticSize == [ DIAG_MSG |-> HdrSize + AddrSize ]

AckSize == [ DIAG_ACK |-> HdrSize + AddrSize + 1 ]

NackSize == [ DIAG_NACK |-> HdrSize + AddrSize + 1 ]

StateSize ==
    [ AC_REQ |-> HdrSize, AC_RSP |-> HdrSize + 2,
      PM_REQ |-> HdrSize, PM_RSP |-> HdrSize + 1,
      ES_REQ |-> HdrSize, ES_RSP |-> HdrSize + 1 + 1 + 1 + 4 ]

Sizeof ==
    [ name \in DOMAIN MsgType |->
        CASE name \in DOMAIN DiscoverySize    -> DiscoverySize[name]
          [] name \in DOMAIN AnnouncementSize -> AnnouncementSize[name]
          [] name \in DOMAIN ActivationSize   -> ActivationSize[name]
          [] name \in DOMAIN ActivatedSize    -> ActivatedSize[name]
          [] name \in DOMAIN DiagnosticSize   -> DiagnosticSize[name]
          [] name \in DOMAIN AckSize          -> AckSize[name]
          [] name \in DOMAIN NackSize         -> NackSize[name]
          [] name \in DOMAIN StateSize        -> StateSize[name] ]

-----------------------------------------------------------------------------
\* (Definitions named Faulty... are what a plausible mistake would make of the
\* definition that follows them; no specification uses them.)

\* Faulty: the header counts as payload.
FaultyInitHdr(name) ==
    [ PayloadType |-> Swap16(MsgType[name]), PayloadLength |-> Swap32(Sizeof[name]) ]

(* INIT_HDR: the two version bytes say nothing and are left out.           *)
InitHdr(name) ==
    [ PayloadType |-> Swap16(MsgType[name]),
      PayloadLength |-> Swap32(Sizeof[name] - HdrSize) ]

(* The table of templates, and the indices it is meant to be used with.    *)
Templates ==
    << "GENERIC_NACK", "VI_REQ", "VI_REQ_EID", "VI_REQ_VIN", "VI_RSP", "RA_REQ", "RA_RSP",
       "DIAG_MSG", "DIAG_NACK", "DIAG_ACK", "AC_REQ", "AC_RSP", "PM_REQ", "PM_RSP",
       "ES_REQ", "ES_RSP" >>

DOIP_MSGS == [i \in 0 .. Len(Templates) - 1 |-> InitHdr(Templates[i + 1])]

Idx ==
    [ GENERIC_NACK |-> 0, VI_REQ |-> 1, VI_REQ_EID |-> 2, VI_REQ_VIN |-> 3, VI_RSP |-> 4,
      RA_REQ |-> 5, RA_RSP |-> 6, DIAG_MSG |-> 7, DIAG_NACK |-> 8, DIAG_ACK |-> 9,
      AC_REQ |-> 10, AC_RSP |-> 11, PM_REQ |-> 12, PM_RSP |-> 13, ES_REQ |-> 14,
      ES_RSP |-> 15 ]

(* A frame on the wire: a template, followed by user data.                 *)
Frame(name, userdata) ==
    [DOIP_MSGS[Idx[name]] EXCEPT !.PayloadLength = Swap32(Swap32(@) + userdata)]
=============================================================================

------------------------------ MODULE HvSocket ------------------------------
(***************************************************************************)
(* The Hyper-V socket between the host and the guest: one stream           *)
(* connection per call of the engine's API.  AF_HYPERV and AF_VSOCK are    *)
(* code of the two kernels; this module models what the calls that src/    *)
(* makes on them (connect, accept, send, recv, shutdown, close) may do.    *)
(*                                                                         *)
(*   hostEnd[c]    "none" before connect, "open", "closed"                 *)
(*   guestEnd[c]   "none", "queued" in the listen backlog, "open" once     *)
(*                 accepted, "deaf" after shutdown(SHUT_RD), "closed"      *)
(*   toGuest[c]    what the host sent and the guest has not received       *)
(*   toHost[c]     what the guest sent and the host has not received       *)
(*   backlog       connections waiting for accept, in order                *)
(***************************************************************************)
EXTENDS HvcpProtocol

CONSTANTS
  Calls,        \* calls of the engine's API, one connection each
  Window,       \* how many tokens a stream buffers before the sender blocks
  Backlog,      \* the second argument of listen
  Faults        \* which faults of the environment may occur

FaultKinds ==
  {"winsock",   \* WSAStartup, socket or connect fails
   "vmlookup",  \* the Host Compute Service query of GetVMID fails
   "hostio",    \* a CreateFile or WriteFile of the engine fails
   "hostread",  \* TransmitFile fails to read the source
   "kill",      \* the process that called the engine is killed
   "passwd",    \* getpwnam_r reports an error
   "open",      \* an open of the daemon fails
   "diskfull",  \* a write of the daemon fails
   "readerror", \* a sendfile of the daemon fails on the file
   "chown",     \* an fchown of the daemon fails
   "truncate",  \* another process of the guest truncates a file
   "accept",    \* accept fails
   "reset",     \* recv and send report an error once the peer is gone
   "sigpipe"}   \* a send to a peer that is gone raises SIGPIPE

ASSUME WindowAssumption  == Window \in Nat \ {0}
ASSUME BacklogAssumption == Backlog \in Nat
ASSUME FaultsAssumption  == Faults \subseteq FaultKinds

VARIABLES hostEnd, guestEnd, toGuest, toHost, backlog

socketVars == <<hostEnd, guestEnd, toGuest, toHost, backlog>>

SocketInit ==
  /\ hostEnd  = [c \in Calls |-> "none"]
  /\ guestEnd = [c \in Calls |-> "none"]
  /\ toGuest  = [c \in Calls |-> <<>>]
  /\ toHost   = [c \in Calls |-> <<>>]
  /\ backlog  = <<>>

\* n units have arrived at the guest: a recv of n with MSG_WAITALL returns n.
\* A length of -1 is read back as a size_t, more than can ever arrive.
Arrived(c, n) == n >= 0 /\ Len(toGuest[c]) >= n

\* A recv of n units by the guest may come back short: the host closed its
\* end before sending them, or the connection is gone.
Cut(c, n) ==
  /\ hostEnd[c] = "closed"
  /\ ~Arrived(c, n) \/ "reset" \in Faults

\* The guest takes n units off the stream.
Receive(c, n) ==
  toGuest' = [toGuest EXCEPT ![c] = SubSeq(@, n + 1, Len(@))]

\* Bytes the host sends arrive unless the guest's end is closed.
Sent(c, tokens) ==
  IF guestEnd[c] = "closed" THEN toGuest
                            ELSE [toGuest EXCEPT ![c] = @ \o tokens]

\* A send of the host can fail only once the guest closed its end.
SendMayFail(c) == guestEnd[c] = "closed"

\* A recv of the host reports end of stream or an error.
HostEndOfStream(c, n) == guestEnd[c] = "closed" /\ Len(toHost[c]) < n
HostRecvFails(c)      == guestEnd[c] = "closed" /\ "reset" \in Faults

SocketTypeOK ==
  /\ hostEnd  \in [Calls -> {"none", "open", "closed"}]
  /\ guestEnd \in [Calls -> {"none", "queued", "open", "deaf", "closed"}]
  /\ backlog \in Seq(Calls)
=============================================================================

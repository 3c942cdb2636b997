---------------------------- MODULE RwsRequest ----------------------------
(***************************************************************************)
(* What one RWS request of the CLI can come to (rws/client.py).  A request *)
(* is answered, refused, cut short before the controller acts, or cut      *)
(* short after it acted: RwsClient._request turns every bad status and     *)
(* every transport failure into an OmnicoreError, and Ctrl-C leaves the    *)
(* blocking call as a KeyboardInterrupt.                                   *)
(***************************************************************************)

\* done       the controller acted and the answer was accepted
\* lost       the controller acted, but the answer is lost or unusable
\* failed     the controller did not act: refused, or never reached
\* brokenLate KeyboardInterrupt after the controller acted
\* broken     KeyboardInterrupt before the controller acted
Outcomes == {"done", "lost", "failed", "brokenLate", "broken"}

\* A GET changes nothing, so that only its answer matters.
ReadOutcomes == {"done", "failed", "broken"}

\* Whether the controller acted on the request.
Applied(o) == o \in {"done", "lost", "brokenLate"}

\* A faulty variant of Raised: a transport failure is not translated.
RaisedUntranslated(o) == CASE o = "done" -> "none"
                           [] o = "failed" -> "error"
                           [] o = "lost" -> "transport"
                           [] OTHER -> "interrupt"

\* What the command is left with: a value, an OmnicoreError (_request and
\* _raise_for_status), or an interrupt, which is no OmnicoreError.
Raised(o) == CASE o = "done" -> "none"
               [] o \in {"lost", "failed"} -> "error"
               [] OTHER -> "interrupt"

\* A request that was answered is still an error unless what the service
\* makes of the answer is `wanted`.
Required(o, wanted) == IF o = "done" /\ ~wanted THEN "error" ELSE Raised(o)

Exceptions == {"none", "error", "interrupt"}
=============================================================================

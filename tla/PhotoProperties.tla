-------------------------- MODULE PhotoProperties --------------------------
(***************************************************************************)
(* What the tiers of validate_output and the fallbacks of the pipeline     *)
(* promise about the reading that is stored.                               *)
(***************************************************************************)
EXTENDS PhotoPipeline

\* A reading is accepted only if the model itself said so much for it: it saw the
\* display, stated a number of a likely length twice over, not that of the meter's
\* serial number, was confident enough and did not ask for another photo.  What it
\* said is compared with what is stored, across parsing, normalising and judging.
AcceptedIsSound ==
    reading # None /\ reading.of = photos /\ reading.status = "accepted" =>
      /\ answer \in Output
      /\ answer.meter /\ answer.display /\ ~answer.retake /\ answer.quality # "poor"
      /\ answer.digits \in MinDigits..MaxDigits /\ ~answer.asSerial
      /\ answer.reading = "same" /\ reading.value = answer.reading
      /\ answer.confidence >= Threshold

\* A value that is stored is the model's.  Where the model gave no answer of its schema
\* there is none, and an answer that makes no sense leaves a rejected reading: nothing
\* is made up ("rather than ... fabricating a reading", parse_model_response).
NothingIsMadeUp ==
    reading # None /\ reading.of = photos =>
      /\ answer \in Output => reading.value = answer.reading
      /\ answer \in NoAnswer => reading.value = None
      /\ answer \in [none: {"unreadable", "unfit"}] => reading.status = "rejected"

-----------------------------------------------------------------------------
(* Said of the program, and not so.                                        *)

\* A photo that the model was never asked about, the call having failed in transport
\* or authentication, stores no reading ("it can raise ProviderError on a transport/
\* auth failure, left uncaught here so the router maps it to 502", submit_meter_reading).
FailedCallsStoreNothing ==
    reading # None /\ reading.of = photos => answer # [none |-> "unreached"]
=============================================================================

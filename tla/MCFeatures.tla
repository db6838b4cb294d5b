----------------------------- MODULE MCFeatures -----------------------------
(***************************************************************************)
(* Model checking of three components that share no state: the indexers of *)
(* the event stream, the response actions and the single flight of the     *)
(* analytics cache.  A behaviour belongs to one of them, the others rest.  *)
(***************************************************************************)
EXTENDS StreamIndexer, ResponseActions, SingleFlight, TLC

CONSTANTS f1, f2, f3

\* Two entries of one document, and one that is refused beside one without an id.
MCContents == {<<"x", "x">>, <<"bad", "none">>}

\* Two callers share a process.
MCHome == f1 :> "p" @@ f2 :> "p" @@ f3 :> "q"

VARIABLE part

allVars == <<part, streamVars, responseVars, flightVars>>

\* A component that rests has one initial state.
MCInit ==
  /\ part \in {"stream", "response", "flight"}
  /\ StreamInit /\ (part # "stream" => docOf = <<"x", "x">>)
  /\ ResponseInit
  /\ FlightInit

InStream(A) == part = "stream" /\ A /\ UNCHANGED <<part, responseVars, flightVars>>
InResponse(A) == part = "response" /\ A /\ UNCHANGED <<part, streamVars, flightVars>>
InFlightPart(A) == part = "flight" /\ A /\ UNCHANGED <<part, streamVars, responseVars>>

MCNext ==
  \/ InStream(StreamNext)
  \/ InResponse(ResponseNext)
  \/ InFlightPart(FlightNext)

\* Every process that runs takes its next step in the end, a process that went
\* down is started again, and a waiter runs out of patience.  Nothing is
\* assumed of Elasticsearch, of the lock's expiry or of the arrival of work.
MCFairness ==
  /\ \A w \in Indexer : WF_allVars(InStream(Work(w)))
  /\ \A c \in Caller : WF_allVars(InFlightPart(Fly(c)))
  /\ \A c \in Caller : WF_allVars(InFlightPart(TimeUp(c)))

MCSpec == MCInit /\ [][MCNext]_allVars /\ MCFairness

\* Every component's variables keep their types.
FeaturesTypeOK == StreamTypeOK /\ ResponseTypeOK /\ FlightTypeOK
=============================================================================

-------------------------------- MODULE MCParts --------------------------------
(***************************************************************************)
(* The parts that share no state with the routing book, side by side: a       *)
(* behaviour is about one of them and the others keep an idle value.          *)
(***************************************************************************)
EXTENDS IdLoop, Pacing, ProtoBody, ClassicBody, Exchange

VARIABLE part

\* Order IDs the gateway mentions: unset, known, unknown and out of range.
MCObservable == {0, 1, 3, MaxWireOrderID + 1}

partsVars == <<part, vars, paceVars, protoVars, classicVars, exchangeVars>>

IdlePace == [r \in Requests |-> Fresh(CHOOSE k \in Keys : TRUE, "none")]
IdleKinds == [q \in ClockCalls |-> "seconds"]
IdleReading == CHOOSE r \in EchoReadings : TRUE
IdleFrame == CHOOSE f \in Frames("CurrentTime", 0) : TRUE
IdleExchange == Begun("CurrentTime", SupportedMinServerVersion)

PartsInit ==
    /\ part \in {"ids", "pacing", "protobuf", "classic", "exchange"}
    /\ Init
    /\ PaceInit
    /\ pace = IdlePace \/ clock.kind = IdleKinds
    /\ part # "pacing" => pace = IdlePace /\ clock.kind = IdleKinds
    /\ IF part = "protobuf" THEN ProtoInit ELSE reading = IdleReading
    /\ IF part = "classic" THEN ClassicInit ELSE frame = IdleFrame
    /\ IF part = "exchange" THEN ExchangeInit ELSE exchange = IdleExchange

PartsNext ==
    /\ part' = part
    /\ \/ part = "ids" /\ Next /\ UNCHANGED <<paceVars, protoVars, classicVars, exchangeVars>>
       \/ part = "pacing" /\ PaceNext /\ UNCHANGED <<vars, protoVars, classicVars, exchangeVars>>
       \/ part = "protobuf" /\ ProtoNext /\ UNCHANGED <<vars, paceVars, classicVars, exchangeVars>>
       \/ part = "classic" /\ ClassicNext /\ UNCHANGED <<vars, paceVars, protoVars, exchangeVars>>
       \/ part = "exchange" /\ ExchangeNext /\ UNCHANGED <<vars, paceVars, protoVars, classicVars>>

PartsSpec == PartsInit /\ [][PartsNext]_partsVars
==============================================================================

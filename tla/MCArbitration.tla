---------------------------- MODULE MCArbitration ----------------------------
(***************************************************************************)
(* What is concluded of a take, checked in one run: the arbiter's result   *)
(* and, in the variables w1, w2, ..., the Runtime's own verdict and what   *)
(* the trace of the facts says.  They share no state here (TakeExecution   *)
(* and CheckSupervisor use the arbiter as the code does), so a behaviour   *)
(* exercises one of them: `part' says which.                               *)
(***************************************************************************)
EXTENDS TakeArbitration

VARIABLES part, w1, w2, w3, w4, w5, w6, w7, w8, w9, w10

other == <<w1, w2, w3, w4, w5, w6, w7, w8, w9, w10>>

Terminal == INSTANCE ReplayTerminal WITH
    ctl <- w1, window <- w2, report <- w3, health <- w4, consumed <- w5, keys <- w6,
    missed <- w7, seen <- w8, result <- w9, channel <- w10,
    Frames <- 2, LateBudget <- 1, MaxKeys <- 2

(***************************************************************************)
(* Two families of small graphs for the trace: few facts of which one may  *)
(* be lost or excluded, and more facts, none lost, with two requests and   *)
(* two decisions whose causes may cross.                                   *)
(***************************************************************************)
IdsOf(lanes) == UNION {{<<p, n>> : n \in 1..Len(lanes[p])} : p \in DOMAIN lanes}
Detector == <<"ingress", "candidate", "selection">>
I == <<1, 1>>
C == <<1, 2>>
S == <<1, 3>>

(* Few facts: one may lack its cause, skip a stage, name a later stage too, *)
(* or another occurrence.                                                   *)
FewLanes == <<Detector, <<"request", "decision", "effect">>, <<"mix", "output_span">>>>
Pcm == <<7, 1>>
FewGraph(c, r, e, m, om) ==
    LET R == <<2, 1>>
        causes == [id \in IdsOf(FewLanes) |->
            CASE id = I -> << >> [] id = C -> c [] id = S -> <<C>> [] id = R -> r
              [] id = <<2, 2>> -> <<R>> [] id = <<2, 3>> -> e [] id = <<3, 1>> -> m
              [] OTHER -> <<<<3, 1>>, Pcm>>]
    IN  [causes |-> causes,
         occurrence |-> [id \in IdsOf(FewLanes) |->
            CASE id[1] = 2 -> 1 [] id = <<3, 1>> -> om [] OTHER -> 0]]
FewGraphs ==
    LET R == <<2, 1>> D == <<2, 2>> E == <<2, 3>> M == <<3, 1>>
    IN  {FewGraph(<<I>>, <<S>>, <<D>>, <<R, E>>, 1), FewGraph(<< >>, <<S>>, <<D>>, <<R, E>>, 1),
         FewGraph(<<I>>, <<C>>, <<D>>, <<R, E>>, 1), FewGraph(<<I>>, <<S>>, <<R>>, <<R, E>>, 1),
         FewGraph(<<I>>, <<S>>, <<D, M>>, <<R>>, 1), FewGraph(<<I>>, <<S>>, <<D>>, <<R>>, 1),
         FewGraph(<<I>>, <<S>>, <<D>>, <<R, E>>, 2)}

(* Two requests and two decisions: the second decision is of either request *)
(* or of the first decision, the second request may follow from the first,  *)
(* the effect is of either decision, of both or of the mix, the mix of      *)
(* either request or of both.                                               *)
CrossedLanes == <<Detector, <<"request", "decision", "decision", "effect">>, <<"request", "mix">>>>
R1 == <<2, 1>>
D1 == <<2, 2>>
D2 == <<2, 3>>
E == <<2, 4>>
R2 == <<3, 1>>
M == <<3, 2>>
CrossedGraph(d2, e, r2, m, second) ==
    [causes |-> [id \in IdsOf(CrossedLanes) |->
        CASE id = I -> << >> [] id = C -> <<I>> [] id = S -> <<C>> [] id = R1 -> <<S>>
          [] id = D1 -> <<R1>> [] id = D2 -> d2 [] id = E -> e [] id = R2 -> r2 [] id = M -> m],
     occurrence |-> [id \in IdsOf(CrossedLanes) |->
        IF id[1] = 1 THEN 0 ELSE IF id \in second THEN 2 ELSE 1]]
CrossedGraphs ==
    {CrossedGraph(d2, e, <<S>>, m, second) :
        d2 \in {<<R1>>, <<R2>>}, e \in {<<D1>>, <<D2>>, <<D1, D2>>},
        m \in {<<R1>>, <<R2, R1>>}, second \in {{}, {R2}}} \cup
    {CrossedGraph(<<D1>>, <<D2>>, <<S>>, <<R1, E>>, {R2}),
     CrossedGraph(<<R2>>, <<D2>>, <<D1>>, <<R2>>, {D2, E, R2, M}),
     CrossedGraph(<<R2>>, <<D2>>, <<S>>, <<R2, E>>, {D2, E, R2, M}),
     CrossedGraph(<<R1>>, <<M>>, <<D1>>, <<R2>>, {E, R2, M})}

Few == INSTANCE FactTrace WITH
    graph <- w1, next <- w2, arrived <- w3, lost <- w4, exclusions <- w5, acc <- w6,
    Lanes <- FewLanes, Graphs <- FewGraphs, MaxLost <- 1, MaxExclusions <- 1
Crossed == INSTANCE FactTrace WITH
    graph <- w1, next <- w2, arrived <- w3, lost <- w4, exclusions <- w5, acc <- w6,
    Lanes <- CrossedLanes, Graphs <- CrossedGraphs, MaxLost <- 0, MaxExclusions <- 0

MCInit ==
    /\ Init
    /\ \/ part = "arbiter" /\ w1 = 0 /\ w2 = 0 /\ w3 = 0 /\ w4 = 0 /\ w5 = 0 /\ w6 = 0
          /\ w7 = 0 /\ w8 = 0 /\ w9 = 0 /\ w10 = 0
       \/ part = "terminal" /\ Terminal!Init
       \/ part = "few facts" /\ Few!Init /\ w7 = 0 /\ w8 = 0 /\ w9 = 0 /\ w10 = 0
       \/ part = "crossed facts" /\ Crossed!Init /\ w7 = 0 /\ w8 = 0 /\ w9 = 0 /\ w10 = 0

MCNext ==
    /\ \/ part = "arbiter" /\ Next /\ UNCHANGED other
       \/ part = "terminal" /\ Terminal!Next /\ UNCHANGED vars
       \/ part = "few facts" /\ Few!Next /\ UNCHANGED <<vars, w7, w8, w9, w10>>
       \/ part = "crossed facts" /\ Crossed!Next /\ UNCHANGED <<vars, w7, w8, w9, w10>>
    /\ UNCHANGED part

MCSpec == MCInit /\ [][MCNext]_<<part, vars, other>>

-----------------------------------------------------------------------------
(***************************************************************************)
(* Every end of a take has a terminal that its encoder accepts and the     *)
(* supervisor reads, and it says succeeded only of a take that was seen    *)
(* whole (replay_presentation.h, replay_execution_result.cpp).             *)
(***************************************************************************)
TerminalsAreTrue ==
    part = "terminal" => Terminal!EveryEndIsReported /\ Terminal!SucceededWasSeen

(***************************************************************************)
(* A trace built while facts arrive is loss-free exactly when the facts    *)
(* that arrived lead back to known causes; unless the causes of a fact     *)
(* disagree, it finds what the offline collector finds and only what that  *)
(* one could find by a decision of the request; and it invents a           *)
(* connection only where an effect leads back to a mix                     *)
(* (fact_trace_summary.cpp, replay_trace.cpp).                             *)
(***************************************************************************)
TraceIsExact ==
    /\ part = "few facts" => Few!LossFreeIsExact /\ Few!TraceAgreesWithCollector
    /\ part = "crossed facts" => Crossed!LossFreeIsExact /\ Crossed!TraceAgreesWithCollector
=============================================================================

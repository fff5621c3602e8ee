-------------------------- MODULE NodeSelectionProofs --------------------------
(***************************************************************************)
(* Proofs about NodeSelection, for every placement, profile, limit and     *)
(* number of extenders.                                                    *)
(***************************************************************************)
EXTENDS NodeSelection, FiniteSetTheorems, TLAPS

\* What the input looks like, and that it does not change.
InputFacts ==
  /\ input.placement \in SUBSET Nodes
  /\ input.findAll \in BOOLEAN /\ input.hasFilterPlugins \in BOOLEAN
  /\ input.limit \in Nat \ {0}
  /\ \A n \in input.placement : ~input.hasFilterPlugins => input.verdict[n] = "Success"

Before == {"schedulePod", "preFilter", "nominated"}
After == {"extenders", "select"}
Labels == Before \cup After \cup {"candidates", "search", "done"}

\* Control: what is known at each control point.  Before a search nothing has been
\* found or recorded, the shortcut looks at the nominated node alone and never for
\* findAll, and any other search at the candidates.
ControlInv ==
  /\ pc \in Labels
  /\ pc # "done" => result.kind = "none" /\ result.nodes = {}
  /\ pc \in Before =>
       /\ found = {} /\ feasibleNodes = {} /\ extender = 1 /\ ~shortcut
       /\ absentStatus = "none" /\ blamed = {} /\ ~interrupted
       /\ \A n \in Nodes : nodeToStatus[n] = "none"
  /\ pc = "nominated" => ~input.findAll
  /\ pc \notin {"schedulePod", "done"} => input.placement # {}
  /\ pc = "search" => found = {} /\ feasibleNodes = {} /\ extender = 1 /\ ~interrupted
  /\ shortcut => ~input.findAll /\ nodes = {input.nominated}
  /\ pc \in {"search"} \cup After /\ ~shortcut =>
       /\ nodes = Candidates
       /\ preRes # AllNodes => absentStatus # "none"
  /\ pc = "select" =>
       /\ extender > NumExtenders \/ feasibleNodes = {}
       /\ feasibleNodes = {} => ~shortcut
       /\ (extenderName <=> ~shortcut /\ feasibleNodes # found)

\* Diagnosis: a rejection comes from a filter plugin's verdict or from the answer of an
\* extender, and what has been found passes the filters.
DiagnosisInv ==
  /\ \A n \in Nodes : Rejected(n) =>
       \/ n \in input.placement /\ input.verdict[n] = "Unschedulable"
       \/ n \in blamed
  /\ \A n \in found : input.verdict[n] = "Success"

\* Completeness: a search for all nodes that nobody interrupted has a rejection for
\* each node it did not find, and a search that found nothing one for each node.
AccountInv ==
  pc \in After /\ ~interrupted =>
    /\ input.findAll => \A n \in nodes \ found : Rejected(n)
    /\ ~input.findAll /\ found = {} =>
         \A n \in nodes : input.verdict[n] = "Unschedulable" /\ Rejected(n)

\* Result: where each kind of result comes from.
ResultInv ==
  pc = "done" =>
    /\ result.nodes \subseteq feasibleNodes
    /\ result.nodes # {} /\ ~shortcut => nodes = Candidates
    /\ FindAllAccounts
    /\ FitErrorJustified
    /\ FilteringNeverPanics

SelectionInv == InputFacts /\ TypeOK /\ ControlInv /\ DiagnosisInv /\ AccountInv /\ ResultInv

\* The invariant holds when an attempt begins.
LEMMA SelectionInit == Init => SelectionInv
<1> SUFFICES ASSUME Init PROVE SelectionInv
  OBVIOUS
<1>2. InputFacts
  BY NodeSelectionAssumption DEF Init, Inputs, InputFacts
<1>3. TypeOK
  <2>1. input \in Inputs /\ preRes \subseteq AllNodes /\ result.nodes \subseteq input.placement
    BY DEF Init
  <2>2. feasibleNodes \subseteq found /\ found \subseteq nodes /\ nodes \subseteq input.placement
    BY DEF Init
  <2>3. extender \in 1..(NumExtenders + 1)
    BY NodeSelectionAssumption DEF Init
  <2>4. nodeToStatus \in [Nodes -> Status] /\ absentStatus \in Status
    BY DEF Init, Status
  <2>5. /\ shortcut \in BOOLEAN /\ extenderName \in BOOLEAN
        /\ interrupted \in BOOLEAN /\ blamed \subseteq Nodes
    BY DEF Init
  <2> QED BY <2>1, <2>2, <2>3, <2>4, <2>5 DEF TypeOK
<1>4. ControlInv
  BY DEF Init, ControlInv, Labels, Before, After
<1>5. DiagnosisInv /\ AccountInv /\ ResultInv
  BY DEF Init, DiagnosisInv, AccountInv, ResultInv, After, Rejected
<1> QED BY <1>2, <1>3, <1>4, <1>5 DEF SelectionInv

\* An attempt on an empty placement ends at once, any other goes on to PreFilter.
LEMMA Step_schedulePod == SelectionInv /\ schedulePod => SelectionInv'
<1> SUFFICES ASSUME SelectionInv, schedulePod PROVE SelectionInv'
  OBVIOUS
<1> USE DEF SelectionInv
<1>1. InputFacts'
  BY DEF InputFacts, schedulePod
<1>2. TypeOK'
  BY DEF TypeOK, schedulePod, Return, diagnosis
<1>3. ControlInv'
  BY DEF ControlInv, schedulePod, Return, diagnosis, Labels, Before, After
<1>4. DiagnosisInv'
  BY DEF DiagnosisInv, schedulePod, diagnosis, Rejected
<1>5. AccountInv'
  BY DEF AccountInv, schedulePod, Return, After
<1>6. ResultInv'
  BY DEF ResultInv, schedulePod, Return, FindAllAccounts, FitErrorJustified,
     FilteringNeverPanics
<1> QED BY <1>1, <1>2, <1>3, <1>4, <1>5, <1>6

\* PreFilter ends the attempt, or leaves the nodes to look at.
LEMMA Step_RunPreFilterPlugins == SelectionInv /\ RunPreFilterPlugins => SelectionInv'
<1> SUFFICES ASSUME SelectionInv, RunPreFilterPlugins PROVE SelectionInv'
  OBVIOUS
<1> USE DEF SelectionInv
<1>1. InputFacts'
  BY DEF InputFacts, RunPreFilterPlugins
<1>2. TypeOK'
  BY NodeSelectionAssumption DEF TypeOK, RunPreFilterPlugins, Return, Status, AllNodes
<1>3. ControlInv'
  BY DEF TriesNominated, ControlInv, RunPreFilterPlugins, Return, Labels, Before, After
<1>4. DiagnosisInv'
  BY DEF DiagnosisInv, RunPreFilterPlugins, Rejected
<1>5. AccountInv'
  BY DEF AccountInv, RunPreFilterPlugins, Return, After
<1>6. ResultInv'
  BY DEF ResultInv, RunPreFilterPlugins, Return, FindAllAccounts, FitErrorJustified,
     FilteringNeverPanics
<1> QED BY <1>1, <1>2, <1>3, <1>4, <1>5, <1>6

\* The shortcut is tried on the nominated node, if the placement has it.
LEMMA Step_evaluateNominatedNode == SelectionInv /\ evaluateNominatedNode => SelectionInv'
<1> SUFFICES ASSUME SelectionInv, evaluateNominatedNode PROVE SelectionInv'
  OBVIOUS
<1> USE DEF SelectionInv
<1>1. InputFacts'
  BY DEF InputFacts, evaluateNominatedNode
<1>2. TypeOK'
  <2>1. input' \in Inputs /\ preRes' \subseteq AllNodes /\ result'.nodes \subseteq input'.placement
    BY DEF TypeOK, evaluateNominatedNode
  <2>2. feasibleNodes' \subseteq found' /\ found' \subseteq nodes' /\ nodes' \subseteq input'.placement
    BY DEF TypeOK, ControlInv, Before, evaluateNominatedNode
  <2>3. extender' \in 1..(NumExtenders + 1)
    BY NodeSelectionAssumption DEF TypeOK, evaluateNominatedNode
  <2>4. nodeToStatus' \in [Nodes -> Status] /\ absentStatus' \in Status
    BY DEF TypeOK, evaluateNominatedNode, Status, diagnosis
  <2>5. /\ shortcut' \in BOOLEAN /\ extenderName' \in BOOLEAN
        /\ interrupted' \in BOOLEAN /\ blamed' \subseteq Nodes
    BY DEF TypeOK, evaluateNominatedNode, diagnosis
  <2> QED BY <2>1, <2>2, <2>3, <2>4, <2>5 DEF TypeOK
<1>3. ControlInv'
  BY DEF ControlInv, evaluateNominatedNode, Labels, Before, After
<1>4. DiagnosisInv'
  BY DEF DiagnosisInv, evaluateNominatedNode, diagnosis, Rejected
<1>5. AccountInv'
  BY DEF AccountInv, evaluateNominatedNode, After
<1>6. ResultInv'
  BY DEF ResultInv, evaluateNominatedNode
<1> QED BY <1>1, <1>2, <1>3, <1>4, <1>5, <1>6

\* The ordinary search starts again from nothing found.
LEMMA Step_selectCandidates == SelectionInv /\ selectCandidates => SelectionInv'
<1> SUFFICES ASSUME SelectionInv, selectCandidates PROVE SelectionInv'
  OBVIOUS
<1> USE DEF SelectionInv
<1>1. InputFacts'
  BY DEF InputFacts, selectCandidates
<1>2. TypeOK'
  <2>1. input' \in Inputs /\ preRes' \subseteq AllNodes /\ result'.nodes \subseteq input'.placement
    BY DEF TypeOK, selectCandidates
  <2>2. feasibleNodes' \subseteq found' /\ found' \subseteq nodes' /\ nodes' \subseteq input'.placement
    BY DEF selectCandidates, Candidates
  <2>3. extender' \in 1..(NumExtenders + 1)
    BY NodeSelectionAssumption DEF TypeOK, selectCandidates
  <2>4. nodeToStatus' \in [Nodes -> Status] /\ absentStatus' \in Status
    BY DEF TypeOK, selectCandidates, Status, diagnosis
  <2>5. /\ shortcut' \in BOOLEAN /\ extenderName' \in BOOLEAN
        /\ interrupted' \in BOOLEAN /\ blamed' \subseteq Nodes
    BY DEF TypeOK, selectCandidates, diagnosis
  <2> QED BY <2>1, <2>2, <2>3, <2>4, <2>5 DEF TypeOK
<1>3. ControlInv'
  BY DEF ControlInv, selectCandidates, Labels, Before, Candidates
<1>4. DiagnosisInv'
  BY DEF DiagnosisInv, selectCandidates, Rejected
<1>5. AccountInv'
  BY DEF AccountInv, selectCandidates, After
<1>6. ResultInv'
  BY DEF ResultInv, selectCandidates
<1> QED BY <1>1, <1>2, <1>3, <1>4, <1>5, <1>6

\* The search ends as its contract says: the diagnosis gains the rejections, and only
\* a search that found enough or was interrupted leaves nodes out.
LEMMA Step_findNodesThatPassFilters == SelectionInv /\ findNodesThatPassFilters => SelectionInv'
<1> SUFFICES ASSUME SelectionInv, findNodesThatPassFilters PROVE SelectionInv'
  OBVIOUS
<1> USE DEF SelectionInv
<1>1. InputFacts'
  BY DEF InputFacts, findNodesThatPassFilters
<1>2. TypeOK'
  <2>1. input' \in Inputs /\ preRes' \subseteq AllNodes /\ result'.nodes \subseteq input'.placement
    BY DEF TypeOK, findNodesThatPassFilters, Advance, Fail, Return, Outcomes
  <2>2. feasibleNodes' \subseteq found' /\ found' \subseteq nodes' /\ nodes' \subseteq input'.placement
    BY DEF TypeOK, ControlInv, Before, findNodesThatPassFilters, Advance, Fail, Return, Outcomes
  <2>3. extender' \in 1..(NumExtenders + 1)
    BY NodeSelectionAssumption DEF TypeOK, findNodesThatPassFilters, Advance, Fail, Return,
       Outcomes
  <2>4. nodeToStatus' \in [Nodes -> Status] /\ absentStatus' \in Status
    BY DEF TypeOK, findNodesThatPassFilters, Advance, Fail, Return, Outcomes, Status, diagnosis
  <2>5. /\ shortcut' \in BOOLEAN /\ extenderName' \in BOOLEAN
        /\ interrupted' \in BOOLEAN /\ blamed' \subseteq Nodes
    BY DEF TypeOK, findNodesThatPassFilters, Advance, Fail, Return, Outcomes, diagnosis
  <2> QED BY <2>1, <2>2, <2>3, <2>4, <2>5 DEF TypeOK
<1>3. ControlInv'
  BY DEF ControlInv, findNodesThatPassFilters, Advance, Fail, Return, Labels, Before, After,
     Candidates
<1>4. DiagnosisInv'
  BY DEF InputFacts, TypeOK, ControlInv, DiagnosisInv, findNodesThatPassFilters, Outcomes,
     Rejected
<1>5. AccountInv'
  <2> SUFFICES ASSUME pc' \in After, ~interrupted' PROVE
        /\ input.findAll => \A n \in nodes \ found' : Rejected(n)'
        /\ ~input.findAll /\ found' = {} =>
             \A n \in nodes : input.verdict[n] = "Unschedulable" /\ Rejected(n)'
    BY DEF AccountInv, findNodesThatPassFilters
  <2>1. PICK o \in Outcomes(nodes, input.verdict, numNodesToFind) :
          /\ feasibleNodes' = o.found /\ found' = o.found /\ interrupted' = o.interrupted
          /\ nodeToStatus' = [n \in Nodes |-> IF n \in o.rejected THEN "Unschedulable"
                                              ELSE nodeToStatus[n]]
          /\ Advance(o.error)
    BY DEF findNodesThatPassFilters
  <2>2. ~o.error
    BY <2>1 DEF Advance, Fail, Return, After
  <2>3. /\ o.found \subseteq nodes /\ o.rejected \subseteq nodes
        /\ \A n \in o.rejected : input.verdict[n] = "Unschedulable"
        /\ Cardinality(o.found) = numNodesToFind \/ o.found \cup o.rejected = nodes
    BY <2>1, <2>2 DEF Outcomes
  <2>4. nodes \subseteq Nodes /\ IsFiniteSet(nodes)
    BY NodeSelectionAssumption, FS_Subset DEF TypeOK, InputFacts
  <2>5. \A n \in o.rejected : Rejected(n)'
    BY <2>1, <2>3, <2>4 DEF Rejected
  <2>6. CASE input.findAll
    <3>1. Cardinality(o.found) = Cardinality(nodes) => o.found = nodes
      BY <2>3, <2>4, FS_Subset
    <3> QED BY <2>1, <2>3, <2>5, <2>6, <3>1 DEF numNodesToFind
  <2>7. CASE ~input.findAll
    <3>1. o.found = {} => Cardinality(o.found) = 0
      BY FS_EmptySet
    <3>2. numNodesToFind # 0
      BY <2>7 DEF numNodesToFind, InputFacts
    <3> QED BY <2>1, <2>3, <2>5, <2>7, <3>1, <3>2
  <2> QED BY <2>6, <2>7
<1>6. ResultInv'
  BY DEF ControlInv, ResultInv, findNodesThatPassFilters, Advance, Fail, Return,
     FindAllAccounts, FitErrorJustified, FilteringNeverPanics
<1> QED BY <1>1, <1>2, <1>3, <1>4, <1>5, <1>6

\* Without filter plugins nodes are taken as they come, and none is rejected.
LEMMA Step_takeNodes == SelectionInv /\ takeNodes => SelectionInv'
<1> SUFFICES ASSUME SelectionInv, takeNodes PROVE SelectionInv'
  OBVIOUS
<1> USE DEF SelectionInv
<1>1. InputFacts'
  BY DEF InputFacts, takeNodes
<1>2. TypeOK'
  <2>1. input' \in Inputs /\ preRes' \subseteq AllNodes /\ result'.nodes \subseteq input'.placement
    BY DEF TypeOK, takeNodes, Advance, Fail, Return
  <2>2. feasibleNodes' \subseteq found' /\ found' \subseteq nodes' /\ nodes' \subseteq input'.placement
    BY DEF TypeOK, ControlInv, Before, takeNodes, Advance, Fail, Return
  <2>3. extender' \in 1..(NumExtenders + 1)
    BY NodeSelectionAssumption DEF TypeOK, takeNodes, Advance, Fail, Return
  <2>4. nodeToStatus' \in [Nodes -> Status] /\ absentStatus' \in Status
    BY DEF TypeOK, takeNodes, Advance, Fail, Return, Status, diagnosis
  <2>5. /\ shortcut' \in BOOLEAN /\ extenderName' \in BOOLEAN
        /\ interrupted' \in BOOLEAN /\ blamed' \subseteq Nodes
    BY DEF TypeOK, takeNodes, Advance, Fail, Return, diagnosis
  <2> QED BY <2>1, <2>2, <2>3, <2>4, <2>5 DEF TypeOK
<1>3. ControlInv'
  BY DEF ControlInv, takeNodes, Advance, Return, diagnosis, Labels, Before, After, Candidates
<1>4. DiagnosisInv'
  BY DEF InputFacts, TypeOK, ControlInv, DiagnosisInv, takeNodes, Advance, diagnosis, Rejected
<1>5. AccountInv'
  <2> SUFFICES ASSUME pc' \in After PROVE
        /\ input.findAll => nodes \subseteq found'
        /\ ~input.findAll => found' # {}
    BY DEF AccountInv, takeNodes
  <2>1. PICK ns \in SUBSET nodes :
          /\ Cardinality(ns) = numNodesToFind \/ (ns = nodes /\ nodes # {})
          /\ feasibleNodes' = ns /\ found' = ns
    BY DEF takeNodes, Return, After
  <2>2. nodes \subseteq Nodes /\ IsFiniteSet(nodes)
    BY NodeSelectionAssumption, FS_Subset DEF TypeOK, InputFacts
  <2>3. CASE input.findAll
    <3>1. Cardinality(ns) = Cardinality(nodes) => ns = nodes
      BY <2>2, FS_Subset
    <3> QED BY <2>1, <2>3, <3>1 DEF numNodesToFind
  <2>4. CASE ~input.findAll
    <3>1. ns = {} => Cardinality(ns) = 0
      BY FS_EmptySet
    <3>2. numNodesToFind # 0
      BY <2>4 DEF numNodesToFind, InputFacts
    <3> QED BY <2>1, <2>4, <3>1, <3>2
  <2> QED BY <2>3, <2>4
<1>6. ResultInv'
  BY DEF ResultInv, takeNodes, Advance, Return, FindAllAccounts, FitErrorJustified,
     FilteringNeverPanics
<1> QED BY <1>1, <1>2, <1>3, <1>4, <1>5, <1>6

\* An extender that is not interested changes nothing.
LEMMA Step_skipExtender == SelectionInv /\ skipExtender => SelectionInv'
<1> SUFFICES ASSUME SelectionInv, skipExtender PROVE SelectionInv'
  OBVIOUS
<1> USE DEF SelectionInv
<1>1. InputFacts'
  BY DEF InputFacts, skipExtender
<1>2. TypeOK'
  <2>1. input' \in Inputs /\ preRes' \subseteq AllNodes /\ result'.nodes \subseteq input'.placement
    BY DEF TypeOK, skipExtender, Calls
  <2>2. feasibleNodes' \subseteq found' /\ found' \subseteq nodes' /\ nodes' \subseteq input'.placement
    BY DEF TypeOK, ControlInv, Before, skipExtender, Calls
  <2>3. extender' \in 1..(NumExtenders + 1)
    BY NodeSelectionAssumption DEF TypeOK, skipExtender, Calls
  <2>4. nodeToStatus' \in [Nodes -> Status] /\ absentStatus' \in Status
    BY DEF TypeOK, skipExtender, Calls, Status, diagnosis
  <2>5. /\ shortcut' \in BOOLEAN /\ extenderName' \in BOOLEAN
        /\ interrupted' \in BOOLEAN /\ blamed' \subseteq Nodes
    BY DEF TypeOK, skipExtender, Calls, diagnosis
  <2> QED BY <2>1, <2>2, <2>3, <2>4, <2>5 DEF TypeOK
<1>3. ControlInv'
  BY DEF ControlInv, skipExtender, Calls, diagnosis, Candidates
<1>4. DiagnosisInv'
  BY DEF InputFacts, TypeOK, DiagnosisInv, skipExtender, diagnosis, Rejected
<1>5. AccountInv'
  BY DEF AccountInv, skipExtender, diagnosis, Rejected
<1>6. ResultInv'
  BY DEF ResultInv, skipExtender, Calls
<1> QED BY <1>1, <1>2, <1>3, <1>4, <1>5, <1>6

\* An extender takes nodes away, and the nodes its maps name get a rejection.
LEMMA Step_callExtender == SelectionInv /\ callExtender => SelectionInv'
<1> SUFFICES ASSUME SelectionInv, callExtender PROVE SelectionInv'
  OBVIOUS
<1> USE DEF SelectionInv
<1>1. InputFacts'
  BY DEF InputFacts, callExtender
<1>2. TypeOK'
  <2>1. input' \in Inputs /\ preRes' \subseteq AllNodes /\ result'.nodes \subseteq input'.placement
    BY DEF TypeOK, callExtender, Calls
  <2>2. feasibleNodes' \subseteq found' /\ found' \subseteq nodes' /\ nodes' \subseteq input'.placement
    BY DEF TypeOK, ControlInv, Before, callExtender, Calls
  <2>3. extender' \in 1..(NumExtenders + 1)
    BY NodeSelectionAssumption DEF TypeOK, callExtender, Calls
  <2>4. nodeToStatus' \in [Nodes -> Status] /\ absentStatus' \in Status
    BY DEF TypeOK, callExtender, Calls, Status, diagnosis
  <2>5. /\ shortcut' \in BOOLEAN /\ extenderName' \in BOOLEAN
        /\ interrupted' \in BOOLEAN /\ blamed' \subseteq Nodes
    BY DEF TypeOK, callExtender, Calls, diagnosis
  <2> QED BY <2>1, <2>2, <2>3, <2>4, <2>5 DEF TypeOK
<1>3. ControlInv'
  BY DEF ControlInv, callExtender, Calls, Candidates
<1>4. DiagnosisInv'
  BY DEF InputFacts, DiagnosisInv, callExtender, Rejected
<1>5. AccountInv'
  BY DEF InputFacts, TypeOK, AccountInv, callExtender, Rejected
<1>6. ResultInv'
  BY DEF ResultInv, callExtender, Calls
<1> QED BY <1>1, <1>2, <1>3, <1>4, <1>5, <1>6

\* An extender that fails ends the pass, or is ignored.
LEMMA Step_extenderFails == SelectionInv /\ extenderFails => SelectionInv'
<1> SUFFICES ASSUME SelectionInv, extenderFails PROVE SelectionInv'
  OBVIOUS
<1> USE DEF SelectionInv
<1>1. InputFacts'
  BY DEF InputFacts, extenderFails
<1>2. TypeOK'
  <2>1. input' \in Inputs /\ preRes' \subseteq AllNodes /\ result'.nodes \subseteq input'.placement
    BY DEF TypeOK, extenderFails, Calls, Fail, Return
  <2>2. feasibleNodes' \subseteq found' /\ found' \subseteq nodes' /\ nodes' \subseteq input'.placement
    BY DEF TypeOK, ControlInv, Before, extenderFails, Calls, Fail, Return
  <2>3. extender' \in 1..(NumExtenders + 1)
    BY NodeSelectionAssumption DEF TypeOK, extenderFails, Calls, Fail, Return
  <2>4. nodeToStatus' \in [Nodes -> Status] /\ absentStatus' \in Status
    BY DEF TypeOK, extenderFails, Calls, Fail, Return, Status, diagnosis
  <2>5. /\ shortcut' \in BOOLEAN /\ extenderName' \in BOOLEAN
        /\ interrupted' \in BOOLEAN /\ blamed' \subseteq Nodes
    BY DEF TypeOK, extenderFails, Calls, Fail, Return, diagnosis
  <2> QED BY <2>1, <2>2, <2>3, <2>4, <2>5 DEF TypeOK
<1>3. ControlInv'
  BY DEF ControlInv, extenderFails, Calls, Fail, Return, diagnosis, Labels, Before, Candidates
<1>4. DiagnosisInv'
  BY DEF DiagnosisInv, extenderFails, diagnosis, Rejected
<1>5. AccountInv'
  BY DEF AccountInv, extenderFails, Fail, Return, diagnosis, After, Rejected
<1>6. ResultInv'
  BY DEF ResultInv, extenderFails, Calls, Fail, Return, FindAllAccounts, FitErrorJustified,
     FilteringNeverPanics
<1> QED BY <1>1, <1>2, <1>3, <1>4, <1>5, <1>6

\* The chain ends with all extenders asked, or with no node left.
LEMMA Step_extendersDone == SelectionInv /\ extendersDone => SelectionInv'
<1> SUFFICES ASSUME SelectionInv, extendersDone PROVE SelectionInv'
  OBVIOUS
<1> USE DEF SelectionInv
<1>1. InputFacts'
  BY DEF InputFacts, extendersDone
<1>2. TypeOK'
  BY DEF TypeOK, extendersDone
<1>3. ControlInv'
  BY DEF ControlInv, extendersDone, AfterExtenders, Labels, Before, After, Candidates
<1>4. DiagnosisInv'
  BY DEF DiagnosisInv, extendersDone, Rejected
<1>5. AccountInv'
  BY DEF AccountInv, extendersDone, After, Rejected
<1>6. ResultInv'
  BY DEF ResultInv, extendersDone, AfterExtenders
<1> QED BY <1>1, <1>2, <1>3, <1>4, <1>5, <1>6

\* The result is made of what is feasible.
LEMMA Step_select == SelectionInv /\ select => SelectionInv'
<1> SUFFICES ASSUME SelectionInv, select PROVE SelectionInv'
  OBVIOUS
<1> USE DEF SelectionInv
<1>1. InputFacts'
  BY DEF InputFacts, select
<1>2. TypeOK'
  BY DEF TypeOK, select, Return, diagnosis
<1>3. ControlInv'
  BY DEF ControlInv, select, Return, Labels, Before, After
<1>4. DiagnosisInv'
  BY DEF DiagnosisInv, select, diagnosis, Rejected
<1>5. AccountInv'
  BY DEF AccountInv, select, diagnosis, After, Rejected
<1>6. ResultInv'
  <2> SUFFICES ASSUME pc' = "done" PROVE
        /\ result'.nodes \subseteq feasibleNodes'
        /\ result'.nodes # {} /\ ~shortcut' => nodes' = Candidates'
        /\ FindAllAccounts'
        /\ FitErrorJustified'
        /\ FilteringNeverPanics'
    BY DEF ResultInv
  <2> USE DEF select, Return, diagnosis
  <2>0. /\ result'.kind \in {"nodes", "FitError", "host", "error"}
        /\ result'.nodes \subseteq feasibleNodes
        /\ result'.kind = "nodes" => input.findAll /\ result'.nodes = feasibleNodes
        /\ result'.kind = "FitError" => ~input.findAll /\ feasibleNodes = {}
    OBVIOUS
  <2>1. result'.nodes # {} /\ ~shortcut' => nodes' = Candidates'
    BY <2>0 DEF ControlInv, After, Candidates
  <2>2. input.placement \subseteq AllNodes
    BY DEF InputFacts, AllNodes
  <2>3. FindAllAccounts'
    BY <2>0, <2>2 DEF FindAllAccounts, ControlInv, AccountInv, After, Candidates, Rejected
  <2>4. FitErrorJustified'
    BY <2>0, <2>2 DEF FitErrorJustified, ControlInv, AccountInv, After, Candidates, Rejected
  <2>5. FilteringNeverPanics'
    BY <2>0 DEF FilteringNeverPanics
  <2> QED BY <2>0, <2>1, <2>3, <2>4, <2>5
<1> QED BY <1>1, <1>2, <1>3, <1>4, <1>5, <1>6

--------------------------------------------------------------------------------
(* Theorems                                                                *)

\* Every step of an attempt keeps the control, the diagnosis and the account of the
\* nodes as schedulePod and findNodesThatFitPod rely on them.
THEOREM SelectionInvHolds == Spec => []SelectionInv
<1>1. SelectionInv /\ [Next]_vars => SelectionInv'
  <2> SUFFICES ASSUME SelectionInv, [Next]_vars PROVE SelectionInv'
    OBVIOUS
  <2>1. CASE UNCHANGED vars
    BY <2>1 DEF vars, diagnosis, SelectionInv, InputFacts, TypeOK, ControlInv, DiagnosisInv,
                AccountInv, ResultInv, Rejected, Candidates, FindAllAccounts,
                FitErrorJustified, FilteringNeverPanics
  <2>2. CASE Next
    BY <2>2, Step_schedulePod, Step_RunPreFilterPlugins, Step_evaluateNominatedNode,
       Step_selectCandidates, Step_findNodesThatPassFilters, Step_takeNodes,
       Step_skipExtender, Step_callExtender, Step_extenderFails, Step_extendersDone,
       Step_select DEF Next
  <2> QED BY <2>1, <2>2
<1> QED BY <1>1, SelectionInit, PTL DEF Spec

\* Every variable keeps its type, and no search leaves the placement.
THEOREM TypeCorrect == Spec => []TypeOK
<1>1. SelectionInv => TypeOK
  BY DEF SelectionInv
<1> QED BY <1>1, SelectionInvHolds, PTL

\* The node schedulePod selects passes every filter plugin, and the PreFilter plugins
\* allow it unless it is the nominated one.
THEOREM SelectedNodeFits == Spec => []SelectedFits
<1>1. SelectionInv => SelectedFits
  BY DEF SelectionInv, TypeOK, ControlInv, DiagnosisInv, ResultInv, Candidates, SelectedFits
<1> QED BY <1>1, SelectionInvHolds, PTL

\* The diagnosis has no rejection by a filter plugin or by a failing extender for the
\* selected node, whatever the shortcut left in it.
THEOREM SelectedNodeNotRejected == Spec => []SelectedNotRejected
<1>1. SelectionInv => SelectedNotRejected
  <2> SUFFICES ASSUME SelectionInv, NEW n \in result.nodes, Rejected(n) PROVE n \in blamed
    BY DEF SelectedNotRejected
  <2>1. pc = "done" /\ n \in found /\ n \in Nodes
    BY DEF SelectionInv, InputFacts, TypeOK, ControlInv, ResultInv
  <2> QED BY <2>1 DEF SelectionInv, DiagnosisInv
<1> QED BY <1>1, SelectionInvHolds, PTL

\* FindAllNodesThatFitPod loses no node of the placement, whatever the extenders answer:
\* one it does not return was rejected or excluded, or passed the filters and was left
\* out by an extender, which the diagnosis then tells.
THEOREM FindAllAccountsForNodes == Spec => []FindAllAccounts
<1>1. SelectionInv => FindAllAccounts
  BY DEF SelectionInv, ControlInv, ResultInv, FindAllAccounts
<1> QED BY <1>1, SelectionInvHolds, PTL

\* A FitError that no extender has a part in means that every node of the placement
\* was filtered and turned down.
THEOREM FitErrorIsJustified == Spec => []FitErrorJustified
<1>1. SelectionInv => FitErrorJustified
  BY DEF SelectionInv, ControlInv, ResultInv, FitErrorJustified
<1> QED BY <1>1, SelectionInvHolds, PTL

\* With filter plugins no attempt divides by zero.
THEOREM FilteringDoesNotPanic == Spec => []FilteringNeverPanics
<1>1. SelectionInv => FilteringNeverPanics
  BY DEF SelectionInv, ControlInv, ResultInv, FilteringNeverPanics
<1> QED BY <1>1, SelectionInvHolds, PTL
================================================================================

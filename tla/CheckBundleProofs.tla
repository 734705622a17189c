------------------------ MODULE CheckBundleProofs -------------------------
(* Theorems about CheckBundle, for any agents, flags and bounds.             *)
EXTENDS CheckBundle, FiniteSetTheorems, TLAPS

(* The cid of no bundle is none of the bundles' cids.                        *)
LEMMA NoneIsNoBundle == None \notin Bundles /\ None \in Cid /\ Bundles \subseteq Cid
  BY DEF None, Bundles, Cid

(* The counters only go up to their bounds.                                  *)
LEMMA FaultCounts == ASSUME faults \in 0 .. MaxFaults, Fault PROVE faults' \in 0 .. MaxFaults
  BY CheckBundleAssumption DEF CheckBundleAssumption, Fault

(* The saved or configured bundle is a cid.                                  *)
LEMMA NamedCidType == ASSUME FilesOK, NEW a \in Agents PROVE NamedCid(a) \in Cid
  BY DEF FilesOK, NamedCid

(* A step of an agent's process, whatever it is, takes it to a step and a    *)
(* bundle that belong together.                                              *)
LEMMA AgentMoves ==
    ASSUME AgentsOK, NEW a \in Agents, NEW step \in Steps, NEW b \in Cid,
           b = None <=> step \in EmptyHanded, GoTo(a, step), Hold(a, b)
    PROVE  AgentsOK'
  BY DEF AgentsOK, GoTo, Hold

LEMMA AgentGoesOn ==
    ASSUME AgentsOK, NEW a \in Agents, NEW step \in Steps \ EmptyHanded,
           at[a] \notin EmptyHanded, GoTo(a, step), UNCHANGED using
    PROVE  AgentsOK'
  BY DEF AgentsOK, GoTo

LEMMA AgentExits == ASSUME AgentsOK, NEW a \in Agents, Exit(a) PROVE AgentsOK'
  <1>1. "down" \in Steps /\ "down" \in EmptyHanded
    BY DEF Steps, EmptyHanded
  <1> QED BY <1>1, NoneIsNoBundle, AgentMoves DEF Exit

LEMMA AgentCreatesOrExits == ASSUME AgentsOK, NEW a \in Agents, CreateOrExit(a) PROVE AgentsOK'
  <1>1. "create" \in Steps /\ "create" \in EmptyHanded
    BY DEF Steps, EmptyHanded
  <1> QED BY <1>1, NoneIsNoBundle, AgentMoves, AgentExits DEF CreateOrExit

(* Bundles that are made, signed or deleted leave the API in order.          *)
LEMMA NewBundleType == ASSUME ApiOK, NEW b \in Bundles, NewBundle(b) PROVE ApiOK'
  BY DEF ApiOK, NewBundle

LEMMA SignType ==
    ASSUME ApiOK, NEW a \in Agents, using[a] \in Active, Sign(a), UNCHANGED status
    PROVE  ApiOK'
  BY DEF ApiOK, Sign, Active

LEMMA RemoveType ==
    ASSUME ApiOK, CountersOK, NEW b \in Cid, Remove(b), UNCHANGED noted
    PROVE  ApiOK' /\ removals' \in 0 .. MaxRemovals
  <1>1. status' \in [Bundles -> {"none", "active", "deleted"}]
    BY DEF ApiOK, Remove
  <1>2. \A c \in Bundles : status[c] # "none" => status'[c] # "none"
    BY DEF ApiOK, Remove
  <1>3. ApiOK'
    BY <1>1, <1>2 DEF ApiOK
  <1>4. removals' \in 0 .. MaxRemovals
    BY CheckBundleAssumption DEF CheckBundleAssumption, CountersOK, Remove
  <1> QED BY <1>3, <1>4

(* Files hold cids.                                                          *)
LEMMA SetFileType ==
    ASSUME FilesOK, NEW a \in Agents, NEW b \in Cid, SetFile(a, b), UNCHANGED configured
    PROVE  FilesOK'
  BY DEF FilesOK, SetFile

(* --check-delete ends with nothing to delete.                               *)
LEMMA DeleterEndsType == ASSUME DeletersOK, NEW a \in Agents, DeleterEnds(a) PROVE DeletersOK'
  BY NoneIsNoBundle DEF DeletersOK, DeleterEnds, DeleterGoesTo

LEMMA InitTypeOK == ASSUME Init PROVE TypeOK
  BY CheckBundleAssumption, NoneIsNoBundle
  DEF CheckBundleAssumption, Init, TypeOK, ApiOK, AgentsOK, FilesOK, DeletersOK,
      CountersOK, Active, Steps, EmptyHanded

(* Parts of the invariant that a step leaves alone.                          *)
LEMMA ApiKept == ASSUME ApiOK, UNCHANGED apiVars PROVE ApiOK'
  BY DEF ApiOK, apiVars

LEMMA AgentsKept == ASSUME AgentsOK, UNCHANGED <<at, using>> PROVE AgentsOK'
  BY DEF AgentsOK

LEMMA FilesKept == ASSUME FilesOK, UNCHANGED <<file, configured>> PROVE FilesOK'
  BY DEF FilesOK

LEMMA DeletersKept == ASSUME DeletersOK, UNCHANGED deleteVars PROVE DeletersOK'
  BY DEF DeletersOK, deleteVars

LEMMA CountersKept ==
    ASSUME CountersOK, UNCHANGED <<crashes, removals>>, UNCHANGED faults \/ Fault
    PROVE  CountersOK'
  BY FaultCounts DEF CountersOK

LEMMA CrashCounts ==
    ASSUME CountersOK, crashes < MaxCrashes, crashes' = crashes + 1, UNCHANGED <<faults, removals>>
    PROVE  CountersOK'
  BY CheckBundleAssumption DEF CheckBundleAssumption, CountersOK

(* Each step keeps the parts it touches; the others it leaves alone.         *)
LEMMA NextTypeOK == ASSUME TypeOK, [Next]_vars PROVE TypeOK'
  <1> USE DEF TypeOK
  <1>1. ASSUME NEW a \in Agents, Start(a) PROVE TypeOK'
    <2>1. AgentsOK'
      BY <1>1, NamedCidType, AgentMoves DEF Start, Steps, EmptyHanded
    <2> QED BY <1>1, <2>1, ApiKept, FilesKept, DeletersKept, CountersKept
        DEF Start, apiVars, deleteVars
  <1>2. ASSUME NEW a \in Agents, Fetched(a) PROVE TypeOK'
    <2>1. AgentsOK'
      BY <1>2, AgentGoesOn DEF Fetched, Steps, EmptyHanded
    <2> QED BY <1>2, <2>1, ApiKept, FilesKept, DeletersKept, CountersKept
        DEF Fetched, apiVars, deleteVars
  <1>3. ASSUME NEW a \in Agents, FetchFails(a) PROVE TypeOK'
    <2>1. AgentsOK'
      BY <1>3, AgentExits DEF FetchFails
    <2> QED BY <1>3, <2>1, ApiKept, FilesKept, DeletersKept, CountersKept
        DEF FetchFails, apiVars, deleteVars
  <1>4. ASSUME NEW a \in Agents, SearchFindsNone(a) PROVE TypeOK'
    <2>1. AgentsOK'
      BY <1>4, AgentCreatesOrExits DEF SearchFindsNone
    <2> QED BY <1>4, <2>1, ApiKept, FilesKept, DeletersKept, CountersKept
        DEF SearchFindsNone, apiVars, deleteVars
  <1>5. ASSUME NEW a \in Agents, SearchFindsOne(a) PROVE TypeOK'
    <2>1. AgentsOK'
      <3>1. PICK b \in Bundles : Hold(a, b)
        BY <1>5 DEF SearchFindsOne, Active
      <3>2. b \in Cid /\ b # None
        BY NoneIsNoBundle
      <3> QED BY <1>5, <3>1, <3>2, AgentMoves DEF SearchFindsOne, Steps, EmptyHanded
    <2> QED BY <1>5, <2>1, ApiKept, FilesKept, DeletersKept, CountersKept
        DEF SearchFindsOne, apiVars, deleteVars
  <1>6. ASSUME NEW a \in Agents, SearchFindsOwn(a) PROVE TypeOK'
    <2>1. AgentsOK'
      <3>1. PICK b \in Bundles : Hold(a, b)
        BY <1>6 DEF SearchFindsOwn, Active
      <3>2. b \in Cid /\ b # None
        BY NoneIsNoBundle
      <3> QED BY <1>6, <3>1, <3>2, AgentMoves DEF SearchFindsOwn, Steps, EmptyHanded
    <2> QED BY <1>6, <2>1, ApiKept, FilesKept, DeletersKept, CountersKept
        DEF SearchFindsOwn, apiVars, deleteVars
  <1>7. ASSUME NEW a \in Agents, SearchFails(a) PROVE TypeOK'
    <2>1. AgentsOK'
      BY <1>7, AgentExits DEF SearchFails
    <2> QED BY <1>7, <2>1, ApiKept, FilesKept, DeletersKept, CountersKept
        DEF SearchFails, apiVars, deleteVars
  <1>8. ASSUME NEW a \in Agents, Refetched(a) PROVE TypeOK'
    <2>1. AgentsOK'
      BY <1>8, AgentGoesOn DEF Refetched, Steps, EmptyHanded
    <2> QED BY <1>8, <2>1, ApiKept, FilesKept, DeletersKept, CountersKept
        DEF Refetched, apiVars, deleteVars
  <1>9. ASSUME NEW a \in Agents, RefetchFails(a) PROVE TypeOK'
    <2>1. AgentsOK'
      BY <1>9, AgentCreatesOrExits DEF RefetchFails
    <2> QED BY <1>9, <2>1, ApiKept, FilesKept, DeletersKept, CountersKept
        DEF RefetchFails, apiVars, deleteVars
  <1>10. ASSUME NEW a \in Agents, Create(a) PROVE TypeOK'
    <2>1. ApiOK'
      BY <1>10, NewBundleType DEF Create
    <2>2. AgentsOK'
      <3>1. PICK b \in Bundles : Hold(a, b)
        BY <1>10 DEF Create, Active
      <3>2. b \in Cid /\ b # None
        BY NoneIsNoBundle
      <3> QED BY <1>10, <3>1, <3>2, AgentMoves DEF Create, Steps, EmptyHanded
    <2> QED BY <1>10, <2>1, <2>2, FilesKept, DeletersKept, CountersKept
        DEF Create, deleteVars
  <1>11. ASSUME NEW a \in Agents, CreateFails(a) PROVE TypeOK'
    <2>1. ApiOK'
      BY <1>11, NewBundleType, ApiKept DEF CreateFails, apiVars
    <2>2. AgentsOK'
      BY <1>11, AgentExits DEF CreateFails
    <2> QED BY <1>11, <2>1, <2>2, FilesKept, DeletersKept, CountersKept
        DEF CreateFails, deleteVars
  <1>12. ASSUME NEW a \in Agents, Update(a) PROVE TypeOK'
    <2>1. ApiOK'
      BY <1>12, SignType DEF Update
    <2>2. AgentsOK'
      BY <1>12, AgentGoesOn DEF Update, Steps, EmptyHanded
    <2> QED BY <1>12, <2>1, <2>2, FilesKept, DeletersKept, CountersKept
        DEF Update, deleteVars
  <1>13. ASSUME NEW a \in Agents, KeepTags(a) PROVE TypeOK'
    <2>1. AgentsOK'
      BY <1>13, AgentGoesOn DEF KeepTags, Steps, EmptyHanded
    <2> QED BY <1>13, <2>1, ApiKept, FilesKept, DeletersKept, CountersKept
        DEF KeepTags, apiVars, deleteVars
  <1>14. ASSUME NEW a \in Agents, UpdateFails(a) PROVE TypeOK'
    <2>1. ApiOK'
      BY <1>14, SignType, ApiKept DEF UpdateFails, apiVars
    <2>2. AgentsOK'
      BY <1>14, AgentExits DEF UpdateFails
    <2> QED BY <1>14, <2>1, <2>2, FilesKept, DeletersKept, CountersKept
        DEF UpdateFails, deleteVars
  <1>15. ASSUME NEW a \in Agents, Save(a) PROVE TypeOK'
    <2>1. AgentsOK'
      BY <1>15, AgentGoesOn DEF Save, Steps, EmptyHanded
    <2>2. FilesOK'
      BY <1>15, SetFileType, NoneIsNoBundle DEF Save, AgentsOK
    <2> QED BY <1>15, <2>1, <2>2, ApiKept, DeletersKept, CountersKept
        DEF Save, apiVars, deleteVars
  <1>16. ASSUME NEW a \in Agents, SaveFails(a) PROVE TypeOK'
    <2>1. AgentsOK'
      BY <1>16, AgentGoesOn DEF SaveFails, Steps, EmptyHanded
    <2>2. FilesOK'
      BY <1>16, SetFileType, FilesKept, NoneIsNoBundle DEF SaveFails, AgentsOK
    <2> QED BY <1>16, <2>1, <2>2, ApiKept, DeletersKept, CountersKept
        DEF SaveFails, apiVars, deleteVars
  <1>17. ASSUME NEW a \in Agents, ComeUp(a) PROVE TypeOK'
    <2>1. AgentsOK'
      BY <1>17, AgentGoesOn DEF ComeUp, Steps, EmptyHanded
    <2> QED BY <1>17, <2>1, ApiKept, FilesKept, DeletersKept, CountersKept
        DEF ComeUp, apiVars, deleteVars
  <1>18. ASSUME NEW a \in Agents, CheckFails(a) PROVE TypeOK'
    <2>1. AgentsOK'
      BY <1>18, AgentExits DEF CheckFails
    <2> QED BY <1>18, <2>1, ApiKept, FilesKept, DeletersKept, CountersKept
        DEF CheckFails, apiVars, deleteVars
  <1>19. ASSUME NEW a \in Agents, RefreshFails(a) PROVE TypeOK'
    <2>1. AgentsOK'
      BY <1>19, AgentExits DEF RefreshFails
    <2> QED BY <1>19, <2>1, ApiKept, FilesKept, DeletersKept, CountersKept
        DEF RefreshFails, apiVars, deleteVars
  <1>20. ASSUME NEW a \in Agents, Crash(a) PROVE TypeOK'
    <2>1. AgentsOK'
      BY <1>20, AgentExits DEF Crash
    <2>2. FilesOK'
      BY <1>20, SetFileType, FilesKept, NoneIsNoBundle DEF Crash, AgentsOK
    <2>3. CountersOK'
      BY <1>20, CrashCounts DEF Crash
    <2> QED BY <1>20, <2>1, <2>2, <2>3, ApiKept, DeletersKept
        DEF Crash, apiVars, deleteVars
  <1>21. ASSUME NEW a \in Agents, DeleteCheck(a) PROVE TypeOK'
    <2>1. DeletersOK'
      BY <1>21 DEF DeleteCheck, DeletersOK, DeleterGoesTo, FilesOK
    <2> QED BY <1>21, <2>1, ApiKept, AgentsKept, FilesKept, CountersKept
        DEF DeleteCheck, apiVars
  <1>22. ASSUME NEW a \in Agents, DeleteBundle(a) PROVE TypeOK'
    <2>1. ApiOK'
      BY <1>22, RemoveType, ApiKept DEF DeleteBundle, DeletersOK, apiVars
    <2>2. DeletersOK'
      BY <1>22 DEF DeleteBundle, DeletersOK, DeleterGoesTo, FilesOK
    <2>3. CountersOK'
      BY <1>22, RemoveType, CountersKept, FaultCounts DEF DeleteBundle, DeletersOK, CountersOK
    <2> QED BY <1>22, <2>1, <2>2, <2>3, AgentsKept, FilesKept
        DEF DeleteBundle
  <1>23. ASSUME NEW a \in Agents, DeleteBundleFails(a) PROVE TypeOK'
    <2>1. ApiOK'
      BY <1>23, RemoveType, ApiKept DEF DeleteBundleFails, DeletersOK, apiVars
    <2>2. DeletersOK'
      BY <1>23, DeleterEndsType DEF DeleteBundleFails
    <2>3. CountersOK'
      BY <1>23, RemoveType, CountersKept, FaultCounts DEF DeleteBundleFails, DeletersOK, CountersOK
    <2> QED BY <1>23, <2>1, <2>2, <2>3, AgentsKept, FilesKept
        DEF DeleteBundleFails
  <1>24. ASSUME NEW a \in Agents, RemoveFile(a) PROVE TypeOK'
    <2>1. FilesOK'
      BY <1>24, SetFileType, NoneIsNoBundle DEF RemoveFile, AgentsOK
    <2>2. DeletersOK'
      BY <1>24, DeleterEndsType DEF RemoveFile
    <2> QED BY <1>24, <2>1, <2>2, ApiKept, AgentsKept, CountersKept
        DEF RemoveFile, apiVars
  <1>25. ASSUME NEW a \in Agents, DeleterDies(a) PROVE TypeOK'
    <2>1. DeletersOK'
      BY <1>25, DeleterEndsType DEF DeleterDies
    <2>2. CountersOK'
      BY <1>25, CrashCounts DEF DeleterDies
    <2> QED BY <1>25, <2>1, <2>2, ApiKept, AgentsKept, FilesKept
        DEF DeleterDies, apiVars
  <1>26. ASSUME NEW b \in Bundles, UserDeletes(b) PROVE TypeOK'
    <2>1. ApiOK' /\ removals' \in 0 .. MaxRemovals
      BY <1>26, NoneIsNoBundle, RemoveType DEF UserDeletes
    <2> QED BY <1>26, <2>1, AgentsKept, FilesKept, DeletersKept
        DEF UserDeletes, CountersOK
  <1>27. CASE UNCHANGED vars
    BY <1>27, ApiKept, AgentsKept, FilesKept, DeletersKept, CountersKept DEF vars
  <1> QED
    BY <1>1, <1>2, <1>3, <1>4, <1>5, <1>6, <1>7, <1>8, <1>9, <1>10, <1>11, <1>12, <1>13,
       <1>14, <1>15, <1>16, <1>17, <1>18, <1>19, <1>20, <1>21, <1>22, <1>23, <1>24, <1>25,
       <1>26, <1>27
    DEF Next, Proceed, Search, Deleter

(* Every variable of the check bundle's life stays in its range, and every   *)
(* agent has a bundle exactly where the code has one.                        *)
THEOREM TypeCorrect == Spec => []TypeOK
  BY InitTypeOK, NextTypeOK, PTL DEF Spec

-----------------------------------------------------------------------------
(* The file agrees with the bundle in hand because an agent that searches,   *)
(* finds or creates one has no file, and one that is down has no bundle.     *)
FileInv ==
    /\ FileNamesBundleInUse
    /\ \A a \in Agents : at[a] \in {"search", "refetch", "create"} => file[a] = None

(* The steps on which the agreement depends: a start takes the bundle from   *)
(* the file, a search is made without a file, a save writes what is in hand, *)
(* and every other write of the file leaves it without a bundle.             *)
LEMMA NextFileInv == ASSUME TypeOK, FileInv, [Next]_vars PROVE FileInv'
  <1> USE DEF FileInv, FileNamesBundleInUse, AgentsOK, FilesOK
  <1>0. AgentsOK /\ FilesOK /\ AgentsOK' /\ FilesOK'
    BY NextTypeOK DEF TypeOK
  <1>a. \A a \in Agents : at[a] = "down" => using[a] = None
    BY <1>0 DEF EmptyHanded
  <1>1. ASSUME NEW a \in Agents, Start(a) PROVE FileInv'
    BY <1>1, <1>0, <1>a DEF Start, NamedCid, GoTo, Hold
  <1>2. ASSUME NEW a \in Agents, Fetched(a) PROVE FileInv'
    BY <1>2, <1>0 DEF Fetched, GoTo, Hold
  <1>3. ASSUME NEW a \in Agents, FetchFails(a) PROVE FileInv'
    BY <1>3, <1>0 DEF FetchFails, Exit, GoTo, Hold
  <1>4. ASSUME NEW a \in Agents, SearchFindsNone(a) PROVE FileInv'
    BY <1>4, <1>0 DEF SearchFindsNone, CreateOrExit, Exit, GoTo, Hold
  <1>5. ASSUME NEW a \in Agents, SearchFindsOne(a) PROVE FileInv'
    BY <1>5, <1>0 DEF SearchFindsOne, GoTo, Hold
  <1>6. ASSUME NEW a \in Agents, SearchFindsOwn(a) PROVE FileInv'
    BY <1>6, <1>0 DEF SearchFindsOwn, GoTo, Hold
  <1>7. ASSUME NEW a \in Agents, SearchFails(a) PROVE FileInv'
    BY <1>7, <1>0 DEF SearchFails, Exit, GoTo, Hold
  <1>8. ASSUME NEW a \in Agents, Refetched(a) PROVE FileInv'
    BY <1>8, <1>0 DEF Refetched, GoTo, Hold
  <1>9. ASSUME NEW a \in Agents, RefetchFails(a) PROVE FileInv'
    BY <1>9, <1>0 DEF RefetchFails, CreateOrExit, Exit, GoTo, Hold
  <1>10. ASSUME NEW a \in Agents, Create(a) PROVE FileInv'
    BY <1>10, <1>0 DEF Create, GoTo, Hold
  <1>11. ASSUME NEW a \in Agents, CreateFails(a) PROVE FileInv'
    BY <1>11, <1>0 DEF CreateFails, Exit, GoTo, Hold
  <1>12. ASSUME NEW a \in Agents, Update(a) PROVE FileInv'
    BY <1>12, <1>0 DEF Update, GoTo, Hold
  <1>13. ASSUME NEW a \in Agents, KeepTags(a) PROVE FileInv'
    BY <1>13, <1>0 DEF KeepTags, GoTo, Hold
  <1>14. ASSUME NEW a \in Agents, UpdateFails(a) PROVE FileInv'
    BY <1>14, <1>0 DEF UpdateFails, Exit, GoTo, Hold
  <1>15. ASSUME NEW a \in Agents, Save(a) PROVE FileInv'
    BY <1>15, <1>0 DEF Save, SetFile, GoTo
  <1>16. ASSUME NEW a \in Agents, SaveFails(a) PROVE FileInv'
    BY <1>16, <1>0 DEF SaveFails, SetFile, GoTo
  <1>17. ASSUME NEW a \in Agents, ComeUp(a) PROVE FileInv'
    BY <1>17, <1>0 DEF ComeUp, GoTo, Hold
  <1>18. ASSUME NEW a \in Agents, CheckFails(a) PROVE FileInv'
    BY <1>18, <1>0 DEF CheckFails, Exit, GoTo, Hold
  <1>19. ASSUME NEW a \in Agents, RefreshFails(a) PROVE FileInv'
    BY <1>19, <1>0 DEF RefreshFails, Exit, GoTo, Hold
  <1>20. ASSUME NEW a \in Agents, Crash(a) PROVE FileInv'
    BY <1>20, <1>0 DEF Crash, Exit, GoTo, Hold, SetFile
  <1>21. ASSUME NEW a \in Agents, DeleteCheck(a) PROVE FileInv'
    BY <1>21, <1>0 DEF DeleteCheck
  <1>22. ASSUME NEW a \in Agents, DeleteBundle(a) PROVE FileInv'
    BY <1>22, <1>0 DEF DeleteBundle
  <1>23. ASSUME NEW a \in Agents, DeleteBundleFails(a) PROVE FileInv'
    BY <1>23, <1>0 DEF DeleteBundleFails
  <1>24. ASSUME NEW a \in Agents, RemoveFile(a) PROVE FileInv'
    BY <1>24, <1>0 DEF RemoveFile, SetFile
  <1>25. ASSUME NEW a \in Agents, DeleterDies(a) PROVE FileInv'
    BY <1>25, <1>0 DEF DeleterDies
  <1>26. ASSUME NEW b \in Bundles, UserDeletes(b) PROVE FileInv'
    BY <1>26 DEF UserDeletes
  <1>27. CASE UNCHANGED vars
    BY <1>27 DEF vars
  <1> QED
    BY <1>1, <1>2, <1>3, <1>4, <1>5, <1>6, <1>7, <1>8, <1>9, <1>10, <1>11, <1>12, <1>13,
       <1>14, <1>15, <1>16, <1>17, <1>18, <1>19, <1>20, <1>21, <1>22, <1>23, <1>24, <1>25,
       <1>26, <1>27
    DEF Next, Proceed, Search, Deleter

(* The saved file of an agent that is under way names the bundle it uses, so *)
(* a restart and --check-delete mean the same bundle as the running agent.   *)
THEOREM FileNamesBundle == Spec => []FileNamesBundleInUse
  <1>1. Init => FileInv
    BY DEF Init, FileInv, FileNamesBundleInUse
  <1>2. TypeOK /\ FileInv /\ [Next]_vars => FileInv'
    BY NextFileInv
  <1>3. FileInv => FileNamesBundleInUse
    BY DEF FileInv
  <1> QED BY <1>1, <1>2, <1>3, TypeCorrect, PTL DEF Spec

-----------------------------------------------------------------------------
(* The agents that will create a bundle, unless they fail: those about to,   *)
(* and those about to find that the bundle they found is gone.               *)
Committed ==
    {a \in Creating : \/ at[a] = "create"
                      \/ at[a] = "refetch" /\ using[a] \notin Active}

(* Those that may still come to it: they found a single bundle.              *)
Contenders == {a \in Creating : at[a] \in {"create", "refetch"}}

Deleted == {b \in Created : status[b] = "deleted"}

(* Why bundles have a cause.  An agent commits itself when no created bundle *)
(* is active, so that all of them are among the removals; or when its single *)
(* bundle is removed before it was fetched again: until then there was one   *)
(* active bundle more than there were removals, and this removal pays for it.*)
CauseInv ==
    /\ Created \subseteq noted
    /\ \A a \in Agents : at[a] = "create" => a \in Creating
    /\ Cardinality(Deleted) <= removals
    /\ Cardinality(Created) + Cardinality(Committed)
         <= Cardinality(Creating) + removals + faults
    /\ Cardinality(Created) + Cardinality(Contenders)
         <= Cardinality(Creating) + removals + faults + 1


(* Sizes of a part of a finite set, and of one with an element more or less. *)
LEMMA Shrinks ==
    ASSUME NEW S, IsFiniteSet(S), NEW T, T \subseteq S
    PROVE  /\ IsFiniteSet(T) /\ Cardinality(S) \in Nat /\ Cardinality(T) \in Nat
           /\ Cardinality(T) <= Cardinality(S)
  BY FS_Subset, FS_CardinalityType

LEMMA GrowsByOne ==
    ASSUME NEW S, IsFiniteSet(S), NEW x, NEW T, T \subseteq S \cup {x}
    PROVE  /\ IsFiniteSet(T) /\ Cardinality(S) \in Nat /\ Cardinality(T) \in Nat
           /\ Cardinality(T) <= Cardinality(S) + 1
  <1>1. IsFiniteSet(S \cup {x}) /\ Cardinality(S) \in Nat
    BY FS_AddElement, FS_CardinalityType
  <1>2. \/ Cardinality(S \cup {x}) = Cardinality(S)
        \/ Cardinality(S \cup {x}) = Cardinality(S) + 1
    BY FS_AddElement
  <1>3. /\ IsFiniteSet(T) /\ Cardinality(T) \in Nat
        /\ Cardinality(T) <= Cardinality(S \cup {x})
    BY <1>1, Shrinks
  <1> QED BY <1>1, <1>2, <1>3

LEMMA LosesOne ==
    ASSUME NEW S, IsFiniteSet(S), NEW x \in S, NEW T, T \subseteq S \ {x}
    PROVE  /\ Cardinality(S) \in Nat /\ Cardinality(T) \in Nat
           /\ Cardinality(T) + 1 <= Cardinality(S)
  <1>1. IsFiniteSet(S \ {x}) /\ Cardinality(S \ {x}) = Cardinality(S) - 1
    BY FS_RemoveElement
  <1>2. Cardinality(S) \in Nat
    BY FS_CardinalityType
  <1> QED BY <1>1, <1>2, Shrinks

(* The sets that CauseInv counts are finite.                                 *)
LEMMA Finite ==
    /\ IsFiniteSet(Bundles) /\ IsFiniteSet(Creating)
    /\ IsFiniteSet(Created) /\ IsFiniteSet(Deleted)
    /\ IsFiniteSet(Committed) /\ IsFiniteSet(Contenders)
  <1>1. IsFiniteSet(Bundles)
    BY CheckBundleAssumption, FS_Interval DEF CheckBundleAssumption, Bundles
  <1>2. IsFiniteSet(Creating)
    BY CheckBundleAssumption, FS_Subset DEF CheckBundleAssumption
  <1>3. /\ Created \subseteq Bundles /\ Deleted \subseteq Created
        /\ Committed \subseteq Creating /\ Contenders \subseteq Creating
    BY DEF Created, Deleted, Committed, Contenders
  <1> QED BY <1>1, <1>2, <1>3, Shrinks

LEMMA Counted == ASSUME TypeOK PROVE faults \in Nat /\ removals \in Nat
  BY DEF TypeOK, CountersOK

LEMMA FaultOrNot == ASSUME TypeOK, UNCHANGED faults \/ Fault PROVE faults' \in {faults, faults + 1}
  BY DEF Fault

(* A step that makes no bundle, deletes none and commits nobody.             *)
LEMMA QuietStep ==
    ASSUME TypeOK, CauseInv, UNCHANGED <<status, removals>>, UNCHANGED faults \/ Fault,
           noted \subseteq noted', Committed' \subseteq Committed,
           Contenders' \subseteq Contenders,
           \A a \in Agents : at'[a] = "create" => a \in Creating
    PROVE  CauseInv'
  <1>1. Created' = Created /\ Deleted' = Deleted
    BY DEF Created, Deleted
  <1>2. /\ Cardinality(Committed') \in Nat /\ Cardinality(Committed) \in Nat
        /\ Cardinality(Committed') <= Cardinality(Committed)
        /\ Cardinality(Contenders') \in Nat /\ Cardinality(Contenders) \in Nat
        /\ Cardinality(Contenders') <= Cardinality(Contenders)
    BY Finite, Shrinks
  <1>3. /\ Cardinality(Created) \in Nat /\ Cardinality(Creating) \in Nat
        /\ faults \in Nat /\ removals \in Nat /\ faults' \in {faults, faults + 1}
    BY Finite, FS_CardinalityType, Counted, FaultOrNot
  <1>4. /\ Created' \subseteq noted' /\ Cardinality(Deleted') <= removals'
    BY <1>1 DEF CauseInv
  <1>5. Cardinality(Created') + Cardinality(Committed')
          <= Cardinality(Creating) + removals' + faults'
    BY <1>1, <1>2, <1>3 DEF CauseInv
  <1>6. Cardinality(Created') + Cardinality(Contenders')
          <= Cardinality(Creating) + removals' + faults' + 1
    BY <1>1, <1>2, <1>3 DEF CauseInv
  <1> QED BY <1>4, <1>5, <1>6 DEF CauseInv

(* Most steps of an agent: it goes on or exits, wherever it was.             *)
LEMMA GoesElsewhere ==
    ASSUME TypeOK, CauseInv, NEW a \in Agents, NEW step, step \notin {"create", "refetch"},
           GoTo(a, step), \A b \in Agents : b # a => using'[b] = using[b],
           UNCHANGED <<status, removals>>, UNCHANGED faults \/ Fault, noted \subseteq noted'
    PROVE  CauseInv'
  <1>1. at \in [Agents -> Steps] /\ Creating \subseteq Agents
    BY CheckBundleAssumption DEF CheckBundleAssumption, TypeOK, AgentsOK
  <1>2. at'[a] = step /\ \A b \in Agents : b # a => at'[b] = at[b]
    BY <1>1 DEF GoTo
  <1>3. Active' = Active
    BY DEF Active
  <1>4. Committed' \subseteq Committed /\ Contenders' \subseteq Contenders
    BY <1>1, <1>2, <1>3 DEF Committed, Contenders
  <1>5. \A b \in Agents : at'[b] = "create" => b \in Creating
    BY <1>2 DEF CauseInv
  <1> QED BY <1>4, <1>5, QuietStep

LEMMA ExitsElsewhere ==
    ASSUME TypeOK, CauseInv, NEW a \in Agents, Exit(a),
           UNCHANGED <<status, removals>>, UNCHANGED faults \/ Fault, noted \subseteq noted'
    PROVE  CauseInv'
  <1>1. GoTo(a, "down") /\ \A b \in Agents : b # a => using'[b] = using[b]
    BY DEF Exit, Hold, TypeOK, AgentsOK
  <1> QED BY <1>1, GoesElsewhere

(* A step that only moves --check-delete or a counter of crashes.            *)
LEMMA StandsStill ==
    ASSUME TypeOK, CauseInv, UNCHANGED <<status, noted, at, using, removals>>,
           UNCHANGED faults \/ Fault
    PROVE  CauseInv'
  <1>1. Committed' = Committed /\ Contenders' = Contenders
    BY DEF Committed, Contenders, Active
  <1>2. \A a \in Agents : at'[a] = "create" => a \in Creating
    BY DEF CauseInv
  <1> QED BY <1>1, <1>2, QuietStep

(* A removal pays for the agents that found that bundle: those committed     *)
(* afterwards contended before.                                              *)
LEMMA RemovalKeepsCause ==
    ASSUME TypeOK, CauseInv, NEW b \in Cid, Remove(b), UNCHANGED <<noted, at, using>>,
           UNCHANGED faults \/ Fault
    PROVE  CauseInv'
  <1>1. /\ status \in [Bundles -> {"none", "active", "deleted"}]
        /\ faults \in Nat /\ removals \in Nat /\ faults' \in {faults, faults + 1}
        /\ removals' = removals + 1
    BY Counted, FaultOrNot DEF TypeOK, ApiOK, Remove
  <1>2. Created' = Created /\ Deleted' \subseteq Deleted \cup {b}
    BY <1>1 DEF Created, Deleted, Remove
  <1>3. Committed' \subseteq Contenders /\ Contenders' = Contenders
    BY DEF Committed, Contenders
  <1>4. /\ Cardinality(Committed') \in Nat /\ Cardinality(Contenders) \in Nat
        /\ Cardinality(Committed') <= Cardinality(Contenders)
    BY <1>3, Finite, Shrinks
  <1>5. /\ Cardinality(Created) \in Nat /\ Cardinality(Creating) \in Nat
        /\ Cardinality(Deleted) \in Nat /\ Cardinality(Deleted') \in Nat
        /\ Cardinality(Deleted') <= Cardinality(Deleted) + 1
    BY <1>2, Finite, FS_CardinalityType, GrowsByOne
  <1>6. Created' \subseteq noted' /\ \A a \in Agents : at'[a] = "create" => a \in Creating
    BY <1>2 DEF CauseInv
  <1>7. Cardinality(Deleted') <= removals'
    BY <1>1, <1>5 DEF CauseInv
  <1>8. Cardinality(Created') + Cardinality(Committed')
          <= Cardinality(Creating) + removals' + faults'
    BY <1>1, <1>2, <1>4, <1>5 DEF CauseInv
  <1>9. Cardinality(Created') + Cardinality(Contenders')
          <= Cardinality(Creating) + removals' + faults' + 1
    BY <1>1, <1>2, <1>3, <1>4, <1>5 DEF CauseInv
  <1> QED BY <1>6, <1>7, <1>8, <1>9 DEF CauseInv

(* The search commits an agent only if every created bundle was deleted.     *)
LEMMA SearchFindsNoneKeepsCause ==
    ASSUME TypeOK, CauseInv, NEW a \in Creating, SearchFindsNone(a)
    PROVE  CauseInv'
  <1>0. /\ a \in Agents /\ Creating \subseteq Agents /\ at \in [Agents -> Steps]
        /\ status \in [Bundles -> {"none", "active", "deleted"}]
        /\ faults \in Nat /\ removals \in Nat
    BY CheckBundleAssumption, Counted DEF CheckBundleAssumption, TypeOK, ApiOK, AgentsOK
  <1>1. GoTo(a, "create") /\ UNCHANGED <<status, noted, faults, removals>>
    BY DEF SearchFindsNone, CreateOrExit, apiVars
  <1>2. Active \cap noted = {}
    BY DEF SearchFindsNone
  <1>3. Created = Deleted
    BY <1>0, <1>2 DEF CauseInv, Created, Deleted, Active
  <1>4. Created' = Created /\ Deleted' = Deleted
    BY <1>1 DEF Created, Deleted
  <1>5. Committed' \subseteq Creating /\ Contenders' \subseteq Creating
    BY DEF Committed, Contenders
  <1>6. /\ Cardinality(Creating) \in Nat /\ Cardinality(Created) \in Nat
        /\ Cardinality(Committed') \in Nat /\ Cardinality(Contenders') \in Nat
        /\ Cardinality(Committed') <= Cardinality(Creating)
        /\ Cardinality(Contenders') <= Cardinality(Creating)
    BY <1>5, Finite, Shrinks
  <1>7. Cardinality(Created) <= removals
    BY <1>3 DEF CauseInv
  <1>8. /\ Created' \subseteq noted' /\ Cardinality(Deleted') <= removals'
        /\ \A b \in Agents : at'[b] = "create" => b \in Creating
    BY <1>0, <1>1, <1>4 DEF CauseInv, GoTo
  <1>9. /\ Cardinality(Created') + Cardinality(Committed')
             <= Cardinality(Creating) + removals' + faults'
        /\ Cardinality(Created') + Cardinality(Contenders')
             <= Cardinality(Creating) + removals' + faults' + 1
    BY <1>0, <1>1, <1>4, <1>6, <1>7
  <1> QED BY <1>8, <1>9 DEF CauseInv

(* A single active bundle is one more than those deleted.                    *)
LEMMA SearchFindsOneKeepsCause ==
    ASSUME TypeOK, CauseInv, NEW a \in Agents, SearchFindsOne(a)
    PROVE  CauseInv'
  <1>0. /\ Creating \subseteq Agents /\ at \in [Agents -> Steps]
        /\ using \in [Agents -> Cid]
        /\ status \in [Bundles -> {"none", "active", "deleted"}]
        /\ faults \in Nat /\ removals \in Nat
    BY CheckBundleAssumption, Counted DEF CheckBundleAssumption, TypeOK, ApiOK, AgentsOK
  <1>1. GoTo(a, "refetch") /\ UNCHANGED <<status, noted, faults, removals>>
    BY DEF SearchFindsOne, apiVars
  <1>2. PICK b \in Active : Hold(a, b)
    BY DEF SearchFindsOne
  <1>3. Active = {b}
    <2>1. IsFiniteSet(Active)
      BY Finite, FS_Subset DEF Active
    <2>2. PICK c : Active = {c}
      BY <2>1, FS_Singleton DEF SearchFindsOne
    <2> QED BY <2>2
  <1>4. Created' = Created /\ Deleted' = Deleted /\ Active' = Active
    BY <1>1 DEF Created, Deleted, Active
  <1>5. Created \subseteq Deleted \cup {b}
    BY <1>0, <1>3 DEF Created, Deleted, Active
  <1>6. Committed' \subseteq Committed
    BY <1>0, <1>1, <1>2, <1>4 DEF Committed, GoTo, Hold
  <1>7. Contenders' \subseteq Creating
    BY DEF Contenders
  <1>8. /\ Cardinality(Committed') \in Nat /\ Cardinality(Committed) \in Nat
        /\ Cardinality(Committed') <= Cardinality(Committed)
        /\ Cardinality(Contenders') \in Nat /\ Cardinality(Creating) \in Nat
        /\ Cardinality(Contenders') <= Cardinality(Creating)
    BY <1>6, <1>7, Finite, Shrinks
  <1>9. /\ Cardinality(Created) \in Nat /\ Cardinality(Deleted) \in Nat
        /\ Cardinality(Created) <= Cardinality(Deleted) + 1
    BY <1>5, Finite, GrowsByOne
  <1>10. /\ Created' \subseteq noted' /\ Cardinality(Deleted') <= removals'
         /\ \A c \in Agents : at'[c] = "create" => c \in Creating
    BY <1>0, <1>1, <1>4 DEF CauseInv, GoTo
  <1>11. Cardinality(Created') + Cardinality(Committed')
           <= Cardinality(Creating) + removals' + faults'
    BY <1>0, <1>1, <1>4, <1>8, <1>9 DEF CauseInv
  <1>12. Cardinality(Created') + Cardinality(Contenders')
           <= Cardinality(Creating) + removals' + faults' + 1
    BY <1>0, <1>1, <1>4, <1>8, <1>9 DEF CauseInv
  <1> QED BY <1>10, <1>11, <1>12 DEF CauseInv

(* A failed fetch of a bundle still there commits the agent at the price of  *)
(* a fault; if the bundle is gone it was committed already.                  *)
LEMMA RefetchFailsKeepsCause ==
    ASSUME TypeOK, CauseInv, NEW a \in Creating, RefetchFails(a)
    PROVE  CauseInv'
  <1>0. /\ a \in Agents /\ Creating \subseteq Agents /\ at \in [Agents -> Steps]
        /\ using \in [Agents -> Cid] /\ faults \in Nat /\ removals \in Nat
    BY CheckBundleAssumption, Counted DEF CheckBundleAssumption, TypeOK, AgentsOK
  <1>1. /\ at[a] = "refetch" /\ GoTo(a, "create") /\ Hold(a, None)
        /\ UNCHANGED <<status, noted, removals>>
    BY DEF RefetchFails, CreateOrExit, apiVars
  <1>2. Active' = Active /\ Created' = Created /\ Deleted' = Deleted
    BY <1>1 DEF Active, Created, Deleted
  <1>3. Contenders' \subseteq Contenders /\ Committed' \subseteq Committed \cup {a}
    BY <1>0, <1>1, <1>2 DEF Contenders, Committed, GoTo, Hold
  <1>4. \A b \in Agents : at'[b] = "create" => b \in Creating
    BY <1>0, <1>1 DEF CauseInv, GoTo
  <1>5. CASE using[a] \notin Active /\ UNCHANGED faults
    <2>1. a \in Committed
      BY <1>1, <1>5 DEF Committed
    <2> QED BY <1>1, <1>3, <1>4, <1>5, <2>1, QuietStep
  <1>6. CASE Fault
    <2>1. faults' = faults + 1
      BY <1>6 DEF Fault
    <2>2. /\ Cardinality(Contenders') \in Nat /\ Cardinality(Contenders) \in Nat
          /\ Cardinality(Contenders') <= Cardinality(Contenders)
          /\ Cardinality(Committed') \in Nat /\ Cardinality(Committed) \in Nat
          /\ Cardinality(Committed') <= Cardinality(Committed) + 1
      BY <1>3, Finite, Shrinks, GrowsByOne
    <2>3. Cardinality(Created) \in Nat /\ Cardinality(Creating) \in Nat
      BY Finite, FS_CardinalityType
    <2>4. Created' \subseteq noted' /\ Cardinality(Deleted') <= removals'
      BY <1>1, <1>2 DEF CauseInv
    <2>5. Cardinality(Created') + Cardinality(Committed')
            <= Cardinality(Creating) + removals' + faults'
      BY <1>0, <1>1, <1>2, <2>1, <2>2, <2>3 DEF CauseInv
    <2>6. Cardinality(Created') + Cardinality(Contenders')
            <= Cardinality(Creating) + removals' + faults' + 1
      BY <1>0, <1>1, <1>2, <2>1, <2>2, <2>3 DEF CauseInv
    <2> QED BY <1>4, <2>4, <2>5, <2>6 DEF CauseInv
  <1> QED BY <1>5, <1>6 DEF RefetchFails

(* A creation is one bundle more and one committed agent less.               *)
LEMMA CreationKeepsCause ==
    ASSUME TypeOK, CauseInv, NEW a \in Agents, at[a] = "create",
           NEW b \in Bundles, NewBundle(b),
           NEW step, step \notin {"create", "refetch"}, GoTo(a, step),
           \A c \in Agents : c # a => using'[c] = using[c],
           UNCHANGED removals, UNCHANGED faults \/ Fault
    PROVE  CauseInv'
  <1>0. /\ a \in Creating /\ Creating \subseteq Agents /\ at \in [Agents -> Steps]
        /\ status \in [Bundles -> {"none", "active", "deleted"}]
        /\ faults \in Nat /\ removals \in Nat /\ faults' \in {faults, faults + 1}
    BY CheckBundleAssumption, Counted, FaultOrNot
    DEF CheckBundleAssumption, TypeOK, ApiOK, AgentsOK, CauseInv
  <1>1. at'[a] = step /\ \A c \in Agents : c # a => at'[c] = at[c]
    BY <1>0 DEF GoTo
  <1>2. /\ Created' \subseteq Created \cup {b} /\ Deleted' \subseteq Deleted
        /\ Active \subseteq Active'
    BY <1>0 DEF NewBundle, Created, Deleted, Active
  <1>3. a \in Committed /\ a \in Contenders
    BY <1>0 DEF Committed, Contenders
  <1>4. Committed' \subseteq Committed \ {a} /\ Contenders' \subseteq Contenders \ {a}
    BY <1>0, <1>1, <1>2 DEF Committed, Contenders
  <1>5. /\ Cardinality(Committed') \in Nat /\ Cardinality(Committed) \in Nat
        /\ Cardinality(Committed') + 1 <= Cardinality(Committed)
        /\ Cardinality(Contenders') \in Nat /\ Cardinality(Contenders) \in Nat
        /\ Cardinality(Contenders') + 1 <= Cardinality(Contenders)
    BY <1>3, <1>4, Finite, LosesOne
  <1>6. /\ Cardinality(Created') \in Nat /\ Cardinality(Created) \in Nat
        /\ Cardinality(Created') <= Cardinality(Created) + 1
        /\ Cardinality(Deleted') \in Nat /\ Cardinality(Deleted) \in Nat
        /\ Cardinality(Deleted') <= Cardinality(Deleted)
        /\ Cardinality(Creating) \in Nat
    BY <1>2, Finite, FS_CardinalityType, GrowsByOne, Shrinks
  <1>7. /\ Created' \subseteq noted'
        /\ \A c \in Agents : at'[c] = "create" => c \in Creating
    BY <1>1, <1>2 DEF CauseInv, NewBundle
  <1>8. Cardinality(Deleted') <= removals'
    BY <1>0, <1>6 DEF CauseInv
  <1>9. Cardinality(Created') + Cardinality(Committed')
          <= Cardinality(Creating) + removals' + faults'
    BY <1>0, <1>5, <1>6 DEF CauseInv
  <1>10. Cardinality(Created') + Cardinality(Contenders')
           <= Cardinality(Creating) + removals' + faults' + 1
    BY <1>0, <1>5, <1>6 DEF CauseInv
  <1> QED BY <1>7, <1>8, <1>9, <1>10 DEF CauseInv

LEMMA InitCauseInv == ASSUME Init PROVE CauseInv
  <1>1. Created = {} /\ Deleted = {} /\ Committed = {} /\ Contenders = {}
    BY CheckBundleAssumption
    DEF CheckBundleAssumption, Init, Created, Deleted, Committed, Contenders, Bundles
  <1>2. Cardinality(Creating) \in Nat /\ Cardinality({}) = 0
    BY Finite, FS_CardinalityType, FS_EmptySet
  <1> QED BY <1>1, <1>2 DEF Init, CauseInv

LEMMA NextCauseInv == ASSUME TypeOK, CauseInv, [Next]_vars PROVE CauseInv'
  <1>0. using \in [Agents -> Cid]
    BY DEF TypeOK, AgentsOK
  <1>1. ASSUME NEW a \in Agents, Start(a) PROVE CauseInv'
    BY <1>1, <1>0, GoesElsewhere DEF Start, Hold, apiVars
  <1>2. ASSUME NEW a \in Agents, Fetched(a) PROVE CauseInv'
    BY <1>2, <1>0, GoesElsewhere DEF Fetched, Hold, apiVars
  <1>3. ASSUME NEW a \in Agents, FetchFails(a) PROVE CauseInv'
    BY <1>3, ExitsElsewhere DEF FetchFails, apiVars
  <1>4. ASSUME NEW a \in Agents, SearchFindsNone(a) PROVE CauseInv'
    <2>1. CASE a \in Creating
      BY <1>4, <2>1, SearchFindsNoneKeepsCause
    <2>2. CASE a \notin Creating
      BY <1>4, <2>2, ExitsElsewhere DEF SearchFindsNone, CreateOrExit, apiVars
    <2> QED BY <2>1, <2>2
  <1>5. ASSUME NEW a \in Agents, SearchFindsOne(a) PROVE CauseInv'
    BY <1>5, SearchFindsOneKeepsCause
  <1>6. ASSUME NEW a \in Agents, SearchFindsOwn(a) PROVE CauseInv'
    BY <1>6, <1>0, GoesElsewhere DEF SearchFindsOwn, Hold, apiVars
  <1>7. ASSUME NEW a \in Agents, SearchFails(a) PROVE CauseInv'
    BY <1>7, ExitsElsewhere DEF SearchFails, apiVars
  <1>8. ASSUME NEW a \in Agents, Refetched(a) PROVE CauseInv'
    BY <1>8, <1>0, GoesElsewhere DEF Refetched, Hold, apiVars
  <1>9. ASSUME NEW a \in Agents, RefetchFails(a) PROVE CauseInv'
    <2>1. CASE a \in Creating
      BY <1>9, <2>1, RefetchFailsKeepsCause
    <2>2. CASE a \notin Creating
      BY <1>9, <2>2, ExitsElsewhere DEF RefetchFails, CreateOrExit, apiVars
    <2> QED BY <2>1, <2>2
  <1>10. ASSUME NEW a \in Agents, Create(a) PROVE CauseInv'
    BY <1>10, <1>0, CreationKeepsCause DEF Create, Hold
  <1>11. ASSUME NEW a \in Agents, CreateFails(a) PROVE CauseInv'
    BY <1>11, <1>0, CreationKeepsCause, ExitsElsewhere DEF CreateFails, Exit, Hold, apiVars
  <1>12. ASSUME NEW a \in Agents, Update(a) PROVE CauseInv'
    BY <1>12, <1>0, GoesElsewhere DEF Update, Hold, apiVars, Sign
  <1>13. ASSUME NEW a \in Agents, KeepTags(a) PROVE CauseInv'
    BY <1>13, <1>0, GoesElsewhere DEF KeepTags, Hold, apiVars
  <1>14. ASSUME NEW a \in Agents, UpdateFails(a) PROVE CauseInv'
    BY <1>14, ExitsElsewhere DEF UpdateFails, apiVars, Sign
  <1>15. ASSUME NEW a \in Agents, Save(a) PROVE CauseInv'
    BY <1>15, <1>0, GoesElsewhere DEF Save, Hold, apiVars
  <1>16. ASSUME NEW a \in Agents, SaveFails(a) PROVE CauseInv'
    BY <1>16, <1>0, GoesElsewhere DEF SaveFails, Hold, apiVars
  <1>17. ASSUME NEW a \in Agents, ComeUp(a) PROVE CauseInv'
    BY <1>17, <1>0, GoesElsewhere DEF ComeUp, Hold, apiVars
  <1>18. ASSUME NEW a \in Agents, CheckFails(a) PROVE CauseInv'
    BY <1>18, ExitsElsewhere DEF CheckFails, apiVars
  <1>19. ASSUME NEW a \in Agents, RefreshFails(a) PROVE CauseInv'
    BY <1>19, ExitsElsewhere DEF RefreshFails, apiVars
  <1>20. ASSUME NEW a \in Agents, Crash(a) PROVE CauseInv'
    BY <1>20, ExitsElsewhere DEF Crash, apiVars
  <1>21. ASSUME NEW a \in Agents, DeleteCheck(a) PROVE CauseInv'
    <2>1. UNCHANGED <<status, noted, at, using, faults, removals>>
      BY <1>21 DEF DeleteCheck, apiVars
    <2> QED BY <2>1, StandsStill
  <1>22. ASSUME NEW a \in Agents, DeleteBundle(a) PROVE CauseInv'
    BY <1>22, RemovalKeepsCause DEF DeleteBundle, TypeOK, DeletersOK
  <1>23. ASSUME NEW a \in Agents, DeleteBundleFails(a) PROVE CauseInv'
    BY <1>23, RemovalKeepsCause, StandsStill DEF DeleteBundleFails, TypeOK, DeletersOK
  <1>24. ASSUME NEW a \in Agents, RemoveFile(a) PROVE CauseInv'
    <2>1. UNCHANGED <<status, noted, at, using, faults, removals>>
      BY <1>24 DEF RemoveFile, apiVars
    <2> QED BY <2>1, StandsStill
  <1>25. ASSUME NEW a \in Agents, DeleterDies(a) PROVE CauseInv'
    <2>1. UNCHANGED <<status, noted, at, using, faults, removals>>
      BY <1>25 DEF DeleterDies, apiVars
    <2> QED BY <2>1, StandsStill
  <1>26. ASSUME NEW b \in Bundles, UserDeletes(b) PROVE CauseInv'
    BY <1>26, NoneIsNoBundle, RemovalKeepsCause DEF UserDeletes
  <1>27. CASE UNCHANGED vars
    BY <1>27, StandsStill DEF vars, apiVars
  <1> QED
    BY <1>1, <1>2, <1>3, <1>4, <1>5, <1>6, <1>7, <1>8, <1>9, <1>10, <1>11, <1>12, <1>13,
       <1>14, <1>15, <1>16, <1>17, <1>18, <1>19, <1>20, <1>21, <1>22, <1>23, <1>24, <1>25,
       <1>26, <1>27
    DEF Next, Proceed, Search, Deleter

(* However agents race, crash and are started again, a bundle is made only   *)
(* once per creating agent, deleted bundle or failed call.                   *)
THEOREM BundlesCaused == Spec => []BundlesHaveCause
  <1>1. Init => CauseInv
    BY InitCauseInv
  <1>2. TypeOK /\ CauseInv /\ [Next]_vars => CauseInv'
    BY NextCauseInv
  <1>3. TypeOK /\ CauseInv => BundlesHaveCause
    <2> SUFFICES ASSUME TypeOK, CauseInv PROVE BundlesHaveCause
      OBVIOUS
    <2>1. /\ Cardinality(Created) \in Nat /\ Cardinality(Committed) \in Nat
          /\ Cardinality(Creating) \in Nat /\ faults \in Nat /\ removals \in Nat
      BY Finite, FS_CardinalityType, Counted
    <2> QED BY <2>1 DEF CauseInv, BundlesHaveCause
  <1> QED BY <1>1, <1>2, <1>3, TypeCorrect, PTL DEF Spec

=============================================================================

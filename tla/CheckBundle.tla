---------------------------- MODULE CheckBundle ----------------------------
(* How agents come by their check bundle (internal/check/bundle/bundle.go,   *)
(* internal/check/check.go).  A starting agent takes the bundle it saved in  *)
(* its file, or the one it is configured with, or the one the API finds for  *)
(* its target, or creates one; updates it, saves it and fetches its check.   *)
(* Any failure ends the process, which the service manager starts again.     *)
(* --check-delete is a process of its own on the same file.  All agents here *)
(* have one target, hold no lock at the API, and may crash between any two   *)
(* calls; users delete bundles behind their backs.                           *)
EXTENDS Naturals, FiniteSets

CONSTANTS
    Agents,       \* processes with the same check target
    Creating,     \* those with --check-create
    Updating,     \* those with --check-update
    Users,        \* bundles 1 .. Users were made by hand, if at all
    MaxBundles,   \* bound: bundles there can be, those of users included
    MaxFaults,    \* bound: calls of the API that fail
    MaxCrashes,   \* bound: crashes
    MaxRemovals   \* bound: bundles deleted

ASSUME CheckBundleAssumption ==
    /\ IsFiniteSet(Agents) /\ Creating \subseteq Agents /\ Updating \subseteq Agents
    /\ Users \in Nat /\ MaxBundles \in Nat /\ Users <= MaxBundles
    /\ MaxFaults \in Nat /\ MaxCrashes \in Nat /\ MaxRemovals \in Nat

Bundles == 1 .. MaxBundles
None == 0                     \* no bundle: an empty cid, no file that parses
Cid == Bundles \cup {None}

VARIABLES
    status,       \* of every bundle at the API: "none", "active", "deleted"
    noted,        \* bundles whose notes name the agent
    at,           \* where initCheckBundle of an agent is, "down" or "up"
    using,        \* the bundle an agent has in hand, or is about to fetch
    file,         \* etc/check_bundle.json of an agent
    configured,   \* the bundle an agent is configured with
    deleter,      \* --check-delete of an agent: "idle", "delete" or "remove"
    doomed,       \* the bundle that process read from the file
    faults, crashes, removals

apiVars    == <<status, noted>>
deleteVars == <<deleter, doomed>>
vars == <<apiVars, at, using, file, configured, deleteVars, faults, crashes, removals>>

Active  == {b \in Bundles : status[b] = "active"}
Created == {b \in Bundles : b > Users /\ status[b] # "none"}

-----------------------------------------------------------------------------
(* An agent may have a file of an earlier run, which need not agree with its *)
(* configuration of today.                                                   *)
Init ==
    /\ \E made \in SUBSET (1 .. Users) :
         status = [b \in Bundles |-> IF b \in made THEN "active" ELSE "none"]
    /\ noted = {}
    /\ at = [a \in Agents |-> "down"]
    /\ using = [a \in Agents |-> None]
    /\ file \in [Agents -> Active \cup {None}]
    /\ configured \in [Agents -> Active \cup {None}]
    /\ deleter = [a \in Agents |-> "idle"]
    /\ doomed = [a \in Agents |-> None]
    /\ faults = 0 /\ crashes = 0 /\ removals = 0

Fault == faults < MaxFaults /\ faults' = faults + 1

GoTo(a, step) == at' = [at EXCEPT ![a] = step]
Hold(a, b)    == using' = [using EXCEPT ![a] = b]

(* A call that fails ends the process, unless its caller says otherwise.     *)
Exit(a) == GoTo(a, "down") /\ Hold(a, None)

(* Mutant: the configured bundle takes precedence.                           *)
ConfiguredFirst(a) == IF configured[a] # None THEN configured[a] ELSE file[a]

(* The saved bundle takes precedence over the configured one.                *)
NamedCid(a) == IF file[a] # None THEN file[a] ELSE configured[a]

Start(a) ==
    /\ at[a] = "down"
    /\ Hold(a, NamedCid(a))
    /\ GoTo(a, IF NamedCid(a) # None THEN "fetch" ELSE "search")
    /\ UNCHANGED <<apiVars, file, configured, deleteVars, faults, crashes, removals>>

Fetched(a) ==
    /\ at[a] = "fetch" /\ using[a] \in Active
    /\ GoTo(a, "update")
    /\ UNCHANGED <<apiVars, using, file, configured, deleteVars, faults, crashes, removals>>

(* The call fails, or the bundle is not active.                              *)
FetchFails(a) ==
    /\ at[a] = "fetch"
    /\ \/ using[a] \notin Active /\ UNCHANGED faults
       \/ Fault
    /\ Exit(a)
    /\ UNCHANGED <<apiVars, file, configured, deleteVars, crashes, removals>>

(* Mutant: the bundle that could not be fetched again is not let go.         *)
CreateHolding(a) == IF a \in Creating THEN GoTo(a, "create") /\ UNCHANGED using ELSE Exit(a)

(* No bundle for the target, or several and none with the agent's notes:     *)
(* "not found" either way, and that is when --check-create creates.          *)
CreateOrExit(a) ==
    IF a \in Creating THEN GoTo(a, "create") /\ Hold(a, None) ELSE Exit(a)

SearchFindsNone(a) ==
    /\ at[a] = "search"
    /\ \/ Active = {}
       \/ Cardinality(Active) > 1 /\ Active \cap noted = {}
    /\ CreateOrExit(a)
    /\ UNCHANGED <<apiVars, file, configured, deleteVars, faults, crashes, removals>>

(* The only one, whoever made it: it is fetched again by its cid.            *)
SearchFindsOne(a) ==
    /\ at[a] = "search" /\ Cardinality(Active) = 1
    /\ \E b \in Active : Hold(a, b)
    /\ GoTo(a, "refetch")
    /\ UNCHANGED <<apiVars, file, configured, deleteVars, faults, crashes, removals>>

(* Mutant: several bundles are an error, whoever made them.                  *)
SearchRefusesSeveral(a) ==
    /\ at[a] = "search" /\ Cardinality(Active) > 1
    /\ Cardinality(Active \cap noted) = 1
    /\ Exit(a)
    /\ UNCHANGED <<apiVars, file, configured, deleteVars, faults, crashes, removals>>

(* Of several, the only one with the agent's notes is used as it was found.  *)
SearchFindsOwn(a) ==
    /\ at[a] = "search" /\ Cardinality(Active) > 1
    /\ Cardinality(Active \cap noted) = 1
    /\ \E b \in Active \cap noted : Hold(a, b)
    /\ GoTo(a, "update")
    /\ UNCHANGED <<apiVars, file, configured, deleteVars, faults, crashes, removals>>

(* Mutant: any error of the search leads to a creation.                      *)
SearchFailsOrCreates(a) ==
    /\ at[a] = "search"
    /\ \/ Cardinality(Active \cap noted) > 1 /\ UNCHANGED faults
       \/ Fault
    /\ CreateOrExit(a)
    /\ UNCHANGED <<apiVars, file, configured, deleteVars, crashes, removals>>

SearchFails(a) ==
    /\ at[a] = "search"
    /\ \/ Cardinality(Active \cap noted) > 1 /\ UNCHANGED faults
       \/ Fault
    /\ Exit(a)
    /\ UNCHANGED <<apiVars, file, configured, deleteVars, crashes, removals>>

Refetched(a) ==
    /\ at[a] = "refetch" /\ using[a] \in Active
    /\ GoTo(a, "update")
    /\ UNCHANGED <<apiVars, using, file, configured, deleteVars, faults, crashes, removals>>

(* The error of the second fetch comes with found = 0, as if the search had  *)
(* found nothing.                                                            *)
RefetchFails(a) ==
    /\ at[a] = "refetch"
    /\ \/ using[a] \notin Active /\ UNCHANGED faults
       \/ Fault
    /\ CreateOrExit(a)
    /\ UNCHANGED <<apiVars, file, configured, deleteVars, crashes, removals>>

(* The API makes a new bundle with the agent's notes.                        *)
NewBundle(b) ==
    /\ b > Users /\ status[b] = "none"
    /\ \A c \in Bundles : c > Users /\ c < b => status[c] # "none"
    /\ status' = [status EXCEPT ![b] = "active"]
    /\ noted' = noted \cup {b}

Create(a) ==
    /\ at[a] = "create"
    /\ \E b \in Bundles : NewBundle(b) /\ Hold(a, b)
    /\ GoTo(a, "update")
    /\ UNCHANGED <<file, configured, deleteVars, faults, crashes, removals>>

(* No valid broker, a refusal, or an answer lost on its way back.            *)
CreateFails(a) ==
    /\ at[a] = "create"
    /\ Fault
    /\ UNCHANGED apiVars \/ \E b \in Bundles : NewBundle(b)
    /\ Exit(a)
    /\ UNCHANGED <<file, configured, deleteVars, crashes, removals>>

(* --check-update overwrites the notes as well; other agents only bring the  *)
(* host tags up to date, by a call if they changed.                          *)
Sign(a) == noted' = IF a \in Updating THEN noted \cup {using[a]} ELSE noted

Update(a) ==
    /\ at[a] = "update" /\ using[a] \in Active
    /\ Sign(a)
    /\ GoTo(a, "save")
    /\ UNCHANGED <<status, using, file, configured, deleteVars, faults, crashes, removals>>

KeepTags(a) ==
    /\ at[a] = "update" /\ a \notin Updating
    /\ GoTo(a, "save")
    /\ UNCHANGED <<apiVars, using, file, configured, deleteVars, faults, crashes, removals>>

UpdateFails(a) ==
    /\ at[a] = "update"
    /\ \/ using[a] \notin Active /\ UNCHANGED <<noted, faults>>
       \/ Fault /\ UNCHANGED noted
       \/ Fault /\ using[a] \in Active /\ Sign(a)
    /\ Exit(a)
    /\ UNCHANGED <<status, file, configured, deleteVars, crashes, removals>>

SetFile(a, b) == file' = [file EXCEPT ![a] = b]

Save(a) ==
    /\ at[a] = "save"
    /\ SetFile(a, using[a])
    /\ GoTo(a, "check")
    /\ UNCHANGED <<apiVars, using, configured, deleteVars, faults, crashes, removals>>

(* A file that cannot be opened stays as it is; one that is cut short does   *)
(* not parse any more.  Either is only logged.                               *)
SaveFails(a) ==
    /\ at[a] = "save"
    /\ UNCHANGED file \/ SetFile(a, None)
    /\ GoTo(a, "check")
    /\ UNCHANGED <<apiVars, using, configured, deleteVars, faults, crashes, removals>>

(* Check.New goes on to fetch the bundle's check and its broker.             *)
ComeUp(a) ==
    /\ at[a] = "check" /\ using[a] \in Active
    /\ GoTo(a, "up")
    /\ UNCHANGED <<apiVars, using, file, configured, deleteVars, faults, crashes, removals>>

CheckFails(a) ==
    /\ at[a] = "check"
    /\ \/ using[a] \notin Active /\ UNCHANGED faults
       \/ Fault
    /\ Exit(a)
    /\ UNCHANGED <<apiVars, file, configured, deleteVars, crashes, removals>>

(* A refresh of the check of a running agent fails, and ends it.             *)
RefreshFails(a) ==
    /\ at[a] = "up"
    /\ \/ using[a] \notin Active /\ UNCHANGED faults
       \/ Fault
    /\ Exit(a)
    /\ UNCHANGED <<apiVars, file, configured, deleteVars, crashes, removals>>

(* A crash while the file is written leaves it cut short, complete or as it  *)
(* was.                                                                      *)
Crash(a) ==
    /\ at[a] # "down" /\ crashes < MaxCrashes
    /\ crashes' = crashes + 1
    /\ \/ UNCHANGED file
       \/ at[a] = "save" /\ \E b \in {None, using[a]} : SetFile(a, b)
    /\ Exit(a)
    /\ UNCHANGED <<apiVars, configured, deleteVars, faults, removals>>

-----------------------------------------------------------------------------
Remove(b) ==
    /\ status[b] = "active" /\ removals < MaxRemovals
    /\ status' = [status EXCEPT ![b] = "deleted"]
    /\ removals' = removals + 1

UserDeletes(b) ==
    /\ Remove(b)
    /\ UNCHANGED <<noted, at, using, file, configured, deleteVars, faults, crashes>>

DeleterGoesTo(a, step) == deleter' = [deleter EXCEPT ![a] = step]

(* DeleteCheck: the file is read, its bundle deleted, the file removed.      *)
DeleteCheck(a) ==
    /\ deleter[a] = "idle" /\ file[a] # None
    /\ DeleterGoesTo(a, "delete")
    /\ doomed' = [doomed EXCEPT ![a] = file[a]]
    /\ UNCHANGED <<apiVars, at, using, file, configured, faults, crashes, removals>>

DeleterEnds(a) ==
    /\ DeleterGoesTo(a, "idle")
    /\ doomed' = [doomed EXCEPT ![a] = None]

DeleteBundle(a) ==
    /\ deleter[a] = "delete"
    /\ Remove(doomed[a])
    /\ DeleterGoesTo(a, "remove")
    /\ UNCHANGED <<noted, at, using, file, configured, doomed, faults, crashes>>

(* The bundle is gone already, or the call or its answer is lost.            *)
DeleteBundleFails(a) ==
    /\ deleter[a] = "delete"
    /\ \/ doomed[a] \notin Active /\ UNCHANGED <<status, removals, faults>>
       \/ Fault /\ UNCHANGED <<status, removals>>
       \/ Fault /\ Remove(doomed[a])
    /\ DeleterEnds(a)
    /\ UNCHANGED <<noted, at, using, file, configured, crashes>>

RemoveFile(a) ==
    /\ deleter[a] = "remove"
    /\ SetFile(a, None)
    /\ DeleterEnds(a)
    /\ UNCHANGED <<apiVars, at, using, configured, faults, crashes, removals>>

(* It is killed, or must not remove the file.                                *)
DeleterDies(a) ==
    /\ deleter[a] # "idle" /\ crashes < MaxCrashes
    /\ crashes' = crashes + 1
    /\ DeleterEnds(a)
    /\ UNCHANGED <<apiVars, at, using, file, configured, faults, removals>>

-----------------------------------------------------------------------------
Search(a) == SearchFindsNone(a) \/ SearchFindsOne(a) \/ SearchFindsOwn(a) \/ SearchFails(a)

(* What the agent's process does by itself once it was started.              *)
Proceed(a) ==
    \/ Start(a)
    \/ Fetched(a) \/ FetchFails(a)
    \/ Search(a)
    \/ Refetched(a) \/ RefetchFails(a)
    \/ Create(a) \/ CreateFails(a)
    \/ Update(a) \/ KeepTags(a) \/ UpdateFails(a)
    \/ Save(a) \/ SaveFails(a)
    \/ ComeUp(a) \/ CheckFails(a)

Deleter(a) ==
    DeleteCheck(a) \/ DeleteBundle(a) \/ DeleteBundleFails(a) \/ RemoveFile(a) \/ DeleterDies(a)

Next ==
    \/ \E a \in Agents : Proceed(a) \/ RefreshFails(a) \/ Crash(a) \/ Deleter(a)
    \/ \E b \in Bundles : UserDeletes(b)

Spec == Init /\ [][Next]_vars

(* The process runs, and the service manager starts it again (Restart=always *)
(* in service/circonus-agent.service).                                       *)
FairSpec == Spec /\ \A a \in Agents : WF_vars(Proceed(a))

-----------------------------------------------------------------------------
ApiOK ==
    /\ status \in [Bundles -> {"none", "active", "deleted"}]
    /\ noted \subseteq {b \in Bundles : status[b] # "none"}

Steps == {"down", "fetch", "search", "refetch", "create", "update", "save", "check", "up"}
EmptyHanded == {"down", "search", "create"}

AgentsOK ==
    /\ at \in [Agents -> Steps] /\ using \in [Agents -> Cid]
    /\ \A a \in Agents : using[a] = None <=> at[a] \in EmptyHanded

FilesOK == file \in [Agents -> Cid] /\ configured \in [Agents -> Cid]

DeletersOK ==
    /\ deleter \in [Agents -> {"idle", "delete", "remove"}]
    /\ doomed \in [Agents -> Cid]
    /\ \A a \in Agents : doomed[a] = None <=> deleter[a] = "idle"

CountersOK ==
    /\ faults \in 0 .. MaxFaults /\ crashes \in 0 .. MaxCrashes
    /\ removals \in 0 .. MaxRemovals

(* Every variable stays in its range; an agent has a bundle in hand exactly  *)
(* where initCheckBundle is past the load or the search, bundles with the    *)
(* agent's notes exist, and a deleter knows what it deletes.                 *)
TypeOK == ApiOK /\ AgentsOK /\ FilesOK /\ DeletersOK /\ CountersOK

(* The file of an agent that is under way names the bundle it has in hand:   *)
(* what --check-delete deletes, and what a restart takes, is what the agent  *)
(* uses, whatever else it is configured with, whatever writes failed and     *)
(* whoever removed the file in between (loadBundle, saveBundle, DeleteCheck).*)
FileNamesBundleInUse ==
    \A a \in Agents :
        file[a] # None /\ using[a] # None => file[a] = using[a]

(* Crashes and restarts make no bundles.  Each creating agent makes one, if  *)
(* they race; beyond that, each bundle made costs a deleted one or a failed  *)
(* call of the API.  A crash between creation and save is made good by the   *)
(* search (findCheckBundle, createCheckBundle).                              *)
BundlesHaveCause ==
    Cardinality(Created) <= Cardinality(Creating) + removals + faults

(* What an agent cannot get out of by itself: its file or its configuration  *)
(* names a bundle that is not active; several bundles have its notes; or     *)
(* there is nothing to choose and it must not create.                        *)
Stuck(a) ==
    \/ NamedCid(a) # None /\ NamedCid(a) \notin Active
    \/ NamedCid(a) = None /\ Cardinality(Active \cap noted) > 1
    \/ /\ NamedCid(a) = None /\ a \notin Creating
       /\ Cardinality(Active) # 1 /\ Active \cap noted = {}

(* Every other agent comes up, again after each crash, failed call or        *)
(* deletion (New, initCheckBundle).                                          *)
ComesUpUnlessStuck == \A a \in Agents : []<>(at[a] = "up" \/ Stuck(a))
=============================================================================

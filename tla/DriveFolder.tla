---------------------------- MODULE DriveFolder ----------------------------
(* The directory of a resource in a cloud drive, as the two providers      *)
(* (services/pan_transfer/providers/{quark,baidu}.py) see it: planning of  *)
(* what a share has and the directory lacks, saving it, replacing the      *)
(* contents, sharing, and deleting with the recycle bin emptied.  The      *)
(* drive works on a job after it has answered, so a job the provider gave  *)
(* up waiting for may still take effect.                                   *)
(*                                                                         *)
(* A share has entries at its root and in directories of its root.  The    *)
(* drive is external: a save brings its entries one by one, a directory    *)
(* before what is in it; deletions of one account take effect in order,    *)
(* Quark's by identity, Baidu's by path; what is deleted is in the recycle *)
(* bin some time after it left its directory.  A plan reads the share and  *)
(* the directory at one moment.                                            *)
EXTENDS Naturals, FiniteSets, Sequences

CONSTANTS
    ShareDirs, ShareFiles,     \* the entries of the source share
    DriveRoot,       \* the root of a share, or of the directory of the resource
    Inside,          \* where a share has a file: at its root or in a directory
    MaxRequests,     \* transfers and deletions asked for
    MaxEvents        \* these, failing calls, and changes the owner of the share makes

ASSUME DriveConstants ==
    /\ DriveRoot \notin ShareDirs \cup ShareFiles /\ ShareDirs \cap ShareFiles = {}
    /\ Inside \in [ShareFiles -> ShareDirs \cup {DriveRoot}]
    /\ MaxRequests \in Nat /\ MaxEvents \in Nat

VARIABLES
    platform,   \* "quark" or "baidu"
    shared,     \* entries of the source share
    exists,     \* the drive has the directory
    content,    \* what it holds: [name, at, copy], copy the save that brought it
    clash,      \* directories of the share whose name a file has there
    postings,   \* for each save posted, the places it has still to fill
    wipes,      \* deletions of contents posted and not yet carried out
    pc,         \* step of the transfer
    mode,       \* "standard", "incremental" or "replace_all"
    groups,     \* groups of the selection not yet saved: [from, into, names]
    plan,       \* groups of the selection
    awaited,    \* the rows the provider waits to see gone
    wanted,     \* the places the transfer has filled or found filled
    before,     \* the number of saves posted before the transfer was asked for
    requests, mishaps,
    out,        \* what the last share covers
    preferred,  \* the place in the directory the follow task remembers
    lostSave,   \* a save was given up before it was complete
    lostWipe,   \* a deletion of contents was given up
    dpc,        \* step of the deletion of the directory
    purge,      \* the recycle bin is to be emptied
    bin,        \* the recycle bin: "ours", "namesake"
    onTheWay,   \* deleted, not yet in the recycle bin
    dropped,    \* the drive has a deletion of the directory to carry out
    answer,     \* of the last deletion
    unclear     \* "given_up", "unseen" in the bin: a deletion; "namesake" in it

driveVars == <<platform, shared, exists, content, clash, postings, wipes, pc, mode,
    groups, plan, awaited, wanted, before, requests, mishaps, out,
    preferred, lostSave, lostWipe, dpc, purge, bin, onTheWay, dropped, answer,
    unclear>>
folderVars == <<platform, shared, exists, content, clash, postings, wipes>>
deleteVars == <<dpc, purge, bin, onTheWay, dropped, answer, unclear>>
transferVars == <<pc, mode, groups, plan, awaited, wanted, before, requests,
    out, preferred, lostSave, lostWipe>>

Entries == ShareDirs \cup ShareFiles
Places == ShareDirs \cup {DriveRoot}
Slots == Entries \X Places
At(e) == IF e \in ShareDirs THEN DriveRoot ELSE Inside[e]
Listed(place) == {e \in shared : At(e) = place}
Group == [from : Places, into : Places, names : SUBSET Entries]

(* A row of that name and type in that place (_match_quark_row,            *)
(* _match_baidu_row).                                                      *)
Held(e, place) == \E c \in content : c.name = e /\ c.at = place

(* What a save of names into a place brings: a directory with what the     *)
(* share has in it.  One saved into another directory is not looked into.  *)
Brings(names, place) ==
    {<<e, place>> : e \in names} \cup
    (IF place = DriveRoot THEN {<<f, At(f)>> : f \in {g \in shared : At(g) \in names}}
     ELSE {})

(* collect_incremental_groups: the rows of the share the target lacks;     *)
(* a directory both have is compared in its turn.                          *)
Lacks(place) == {e \in Listed(place) : ~Held(e, place) /\ e \notin clash}
Compared(scope) ==
    IF scope # DriveRoot THEN {scope}
    ELSE {DriveRoot} \cup {d \in ShareDirs \cap shared : Held(d, DriveRoot)}
Missing(scope) ==
    {[from |-> p, into |-> p, names |-> Lacks(p)] : p \in {q \in Compared(scope) : Lacks(q) # {}}}
Conflicts(scope) == IF scope = DriveRoot THEN clash \cap shared ELSE {}

(* The diff is narrowed to the remembered directory only where the share   *)
(* and the target both have it.                                            *)
Scope(place) ==
    IF place # DriveRoot /\ place \in shared /\ Held(place, DriveRoot) THEN place ELSE DriveRoot

(* _augment_source_selection_target_relative_path: groups without a place  *)
(* of their own get the one all the others share, or the remembered one.   *)
Preference(gs, remembered) ==
    LET named == {g.into : g \in gs} \ {DriveRoot} IN
    IF Cardinality(named) = 1 THEN CHOOSE p \in named : TRUE ELSE remembered
Augmented(gs, remembered) ==
    {[g EXCEPT !.into = IF @ = DriveRoot THEN Preference(gs, remembered) ELSE @] : g \in gs}

(* extra_json.current_share_identity: what the current share covers, if    *)
(* that is a directory or the root; else what the task remembers.          *)
Remembered == IF out \in Places THEN out ELSE preferred

DriveInit ==
    /\ platform \in {"quark", "baidu"}
    /\ shared = Entries
    /\ content \in {{}, {[name |-> f, at |-> DriveRoot, copy |-> 0] : f \in {g \in ShareFiles : At(g) = DriveRoot}}}
    /\ exists = (content # {})
    /\ clash \in {{}, ShareDirs} /\ (clash # {} => exists)
    /\ postings = <<>> /\ wipes = <<>>
    /\ pc = "idle" /\ mode = "standard"
    /\ groups = {} /\ plan = {} /\ awaited = {} /\ wanted = {} /\ before = 0
    /\ requests = 0 /\ mishaps = 0
    /\ out = "none" /\ preferred \in Places /\ (exists \/ preferred = DriveRoot)
    /\ lostSave = FALSE /\ lostWipe = FALSE
    /\ dpc = "idle" /\ purge = FALSE
    /\ bin \in {{}, {"namesake"}} /\ (exists => bin = {})
    /\ onTheWay = FALSE /\ dropped = FALSE /\ answer = "none"
    /\ unclear = bin

----------------------------------------------------------------------------
(* Requests.                                                               *)

MayHappen == requests + mishaps < MaxEvents
MayAsk == requests < MaxRequests /\ MayHappen

MayRequest == pc \in {"idle", "done", "shared", "failed"} /\ dpc = "idle" /\ MayAsk

AsksFor(m, gs) ==
    /\ MayRequest
    /\ pc' = "ready" /\ mode' = m /\ plan' = gs
    /\ requests' = requests + 1
    /\ groups' = {} /\ wanted' = {} /\ answer' = "none"
    /\ before' = Len(postings)
    /\ UNCHANGED <<folderVars, awaited,
                   mishaps, out, preferred, lostSave, lostWipe, dpc, purge, bin, onTheWay,
                   dropped, unclear>>

(* An item of a batch, or a follow sync of mode standard: the whole share. *)
RequestStandard ==
    AsksFor("standard", {[from |-> DriveRoot, into |-> DriveRoot, names |-> {}]})

(* A check of a follow task plans and queues what is missing; conflicts    *)
(* stop the automation, an empty plan queues nothing.                      *)
RequestIncremental ==
    LET scope == Scope(Remembered) gs == Missing(scope) IN
    /\ Conflicts(scope) = {} /\ gs # {}
    /\ AsksFor("incremental", Augmented(gs, Remembered))

(* An administrator confirms that a selection replaces what there is.      *)
RequestReplacement ==
    \E from \in Places : \E names \in SUBSET Listed(from) :
        /\ names # {}
        /\ AsksFor("replace_all", {[from |-> from, into |-> from, names |-> names]})

----------------------------------------------------------------------------
(* A transfer (transfer_to_staging).                                       *)

Failing(retryable) ==
    /\ pc' = IF retryable THEN "ready" ELSE "failed"
    /\ UNCHANGED <<groups, plan, mode, wanted, before, requests, out, preferred>>

(* An answer is an error, or does not come.                                *)
CallFails ==
    /\ pc \in {"clearing", "saving", "waiting"}
    /\ MayHappen /\ mishaps' = mishaps + 1
    /\ \E retryable \in BOOLEAN : Failing(retryable)
    /\ lostSave' = (lostSave \/ (pc = "waiting" /\ postings[Len(postings)] # {}))
    /\ lostWipe' = (lostWipe \/ (pc = "clearing" /\ wipes # <<>>))
    /\ awaited' = {}
    /\ UNCHANGED <<folderVars, deleteVars>>

(* The rows a deletion of contents names, by identity or by path.          *)
TopRows == {c \in content : c.at = DriveRoot}
SamePath(rows) == {c \in TopRows : \E r \in rows : r.name = c.name}

(* The directory is there or is created; with clear_existing_contents its  *)
(* rows are deleted.                                                       *)
BeginTransfer ==
    /\ pc = "ready"
    /\ exists' = TRUE /\ groups' = plan
    /\ IF mode = "replace_all" /\ (TopRows # {} \/ clash # {})
       THEN pc' = "clearing" /\ awaited' = TopRows /\ wipes' = Append(wipes, TopRows)
       ELSE pc' = "saving" /\ awaited' = {} /\ UNCHANGED wipes
    /\ wanted' = IF mode = "replace_all" THEN {} ELSE wanted
    /\ UNCHANGED <<platform, shared, content, clash, postings, mode, plan, before, requests, mishaps,
                   out, preferred, lostSave, lostWipe, deleteVars>>

Cleared ==
    /\ pc = "clearing" /\ clash = {}
    /\ pc' = "saving" /\ awaited' = {}
    /\ UNCHANGED <<folderVars, mode, groups, plan,
                   wanted, before, requests, mishaps, out, preferred, lostSave, lostWipe,
                   deleteVars>>
(* None of the rows is listed; none of the paths is.                       *)
RowsGone == platform = "quark" /\ awaited \cap TopRows = {} /\ Cleared
PathsGone == platform = "baidu" /\ SamePath(awaited) = {} /\ Cleared

(* The entries a group takes from the share: all without a selection.      *)
Taken(g) == IF mode = "standard" THEN Listed(g.from) ELSE g.names

(* _filter_existing_quark_rows, _filter_existing_baidu_rows.               *)
FilterNothing(g) == {}
Filtered(g) == IF mode = "incremental" THEN {e \in Taken(g) : Held(e, g.into)} ELSE {}

(* A group: its rows are looked up in the share, its place is created, the *)
(* rows the place has are skipped, the others are posted as one save.      *)
TakeGroup(g) ==
    LET rest == Taken(g) \ Filtered(g)
        fill == Brings(rest, g.into)
    IN
    /\ pc = "saving" /\ g \in groups
    /\ g.from = DriveRoot \/ \A h \in groups : h.from # DriveRoot
    /\ groups' = groups \ {g}
    /\ UNCHANGED <<platform, shared, exists, clash, wipes, mode, plan, before, requests,
                   mishaps, out, preferred, lostSave, lostWipe, deleteVars>>
    /\ IF Taken(g) = {} \/ ~(Taken(g) \subseteq Listed(g.from))
       THEN pc' = "failed" /\ UNCHANGED <<content, postings, wanted, awaited>>
       ELSE /\ content' = IF g.into = DriveRoot \/ Held(g.into, DriveRoot) THEN content
                          ELSE content \cup {[name |-> g.into, at |-> DriveRoot, copy |-> Len(postings) + 1]}
            /\ wanted' = wanted \cup fill \cup {<<e, g.into>> : e \in Filtered(g)}
            /\ IF rest = {} THEN UNCHANGED <<pc, postings, awaited>>
               ELSE /\ postings' = Append(postings, fill)
                    /\ pc' = "waiting" /\ UNCHANGED awaited

Saved ==
    /\ pc = "waiting" /\ postings[Len(postings)] = {}
    /\ pc' = "saving" /\ awaited' = {}
    /\ UNCHANGED <<folderVars, mode, groups, plan,
                   wanted, before, requests, mishaps, out, preferred, lostSave, lostWipe,
                   deleteVars>>
(* Quark's task is polled until it is finished; Baidu answers when it is.  *)
TaskSeen == platform = "quark" /\ Saved
TransferAnswered == platform = "baidu" /\ Saved

TransferEnds ==
    /\ pc = "saving" /\ groups = {}
    /\ pc' = "done"
    /\ UNCHANGED <<folderVars, mode, groups, plan,
                   awaited, wanted, before, requests, mishaps, out, preferred,
                   lostSave, lostWipe, deleteVars>>

(* share_staging_target: the only row of the directory, or the directory.  *)
Share ==
    /\ pc = "done" /\ exists
    /\ out' \in {DriveRoot} \cup {c.name : c \in {r \in TopRows : TopRows = {r} /\ clash = {}}}
    /\ preferred' = IF out' \in ShareDirs THEN out' ELSE preferred
    /\ pc' = "shared"
    /\ UNCHANGED <<folderVars, mode, groups, plan,
                   awaited, wanted, before, requests, mishaps, lostSave, lostWipe,
                   deleteVars>>

----------------------------------------------------------------------------
(* The deletion of the directory (delete_staging_target), asked for when   *)
(* no transfer is under way.                                               *)

DeleteAsked ==
    /\ dpc = "idle" /\ pc \in {"idle", "done", "shared", "failed"} /\ MayAsk
    /\ purge' \in BOOLEAN
    /\ requests' = requests + 1 /\ answer' = "none"
    /\ dpc' = IF exists THEN "leaving" ELSE IF purge' THEN "purging" ELSE "idle"
    /\ unclear' = unclear \cup (IF exists /\ ~purge' THEN {"unseen"} ELSE {})
    /\ dropped' = (dropped \/ exists)
    /\ pc' = "idle" /\ wanted' = {}
    /\ UNCHANGED <<folderVars, mode, groups, plan,
                   awaited, before, mishaps, out, preferred, lostSave,
                   lostWipe, bin, onTheWay>>

DeletionSeen ==
    /\ dpc = "leaving" /\ ~exists
    /\ dpc' = IF purge THEN "binning" ELSE "idle"
    /\ answer' = IF purge THEN "none" ELSE "deleted"
    /\ UNCHANGED <<folderVars, transferVars, mishaps,
                   purge, bin, onTheWay, dropped, unclear>>

(* The deleted directory must be seen in the bin before it is emptied.     *)
BinSeen == "ours" \in bin \/ "namesake" \in bin

DeletionInBin ==
    /\ dpc = "binning" /\ BinSeen
    /\ dpc' = "purging"
    /\ UNCHANGED <<folderVars, transferVars, mishaps,
                   purge, bin, onTheWay, dropped, answer, unclear>>

(* The bin is emptied, with what others deleted, and seen empty.           *)
EmptyBin ==
    /\ dpc = "purging" /\ bin # {}
    /\ bin' = {}
    /\ UNCHANGED <<folderVars, transferVars, mishaps,
                   dpc, purge, onTheWay, dropped, answer, unclear>>
PurgeRecords == platform = "quark" /\ EmptyBin
ClearBin == platform = "baidu" /\ EmptyBin

EmptinessSeen ==
    /\ dpc = "purging" /\ bin = {}
    /\ dpc' = "idle" /\ answer' = "cleared"
    /\ UNCHANGED <<folderVars, transferVars, mishaps,
                   purge, bin, onTheWay, dropped, unclear>>

(* Twelve looks, or an answer that is an error: the result is an error.    *)
DeleteFails ==
    /\ dpc # "idle" /\ MayHappen /\ mishaps' = mishaps + 1
    /\ dpc' = "idle" /\ answer' = "error" /\ unclear' = unclear \cup {"given_up"}
    /\ UNCHANGED <<folderVars, transferVars,
                   purge, bin, onTheWay, dropped>>

----------------------------------------------------------------------------
(* The drive and the owner of the share.                                   *)

SaveLands(j) ==
    \E s \in postings[j] :
        /\ s[2] # DriveRoot => <<s[2], DriveRoot>> \notin postings[j]
        /\ postings' = [postings EXCEPT ![j] = @ \ {s}]
        /\ content' = IF s[2] = DriveRoot \/ Held(s[2], DriveRoot)
                      THEN content \cup {[name |-> s[1], at |-> s[2], copy |-> j]} ELSE content
        /\ UNCHANGED <<platform, shared, exists, clash, wipes, transferVars, mishaps, deleteVars>>

(* A directory goes with what is in it, unless another of its name stays.  *)
WithoutRows(gone) ==
    LET top == TopRows \ gone IN
    {c \in content : c \in top \/ (c.at # DriveRoot /\ \E t \in top : t.name = c.at)}

WipeLands ==
    /\ wipes # <<>>
    /\ LET w == Head(wipes) IN
       content' = WithoutRows(IF platform = "quark" THEN w ELSE SamePath(w))
    /\ wipes' = Tail(wipes) /\ clash' = {}
    /\ UNCHANGED <<platform, shared, exists, postings, transferVars, mishaps, deleteVars>>

(* What was to be saved into the directory has no place to go.             *)
DeletionLands ==
    /\ dropped /\ dropped' = FALSE
    /\ exists' = FALSE /\ content' = {} /\ clash' = {} /\ wipes' = <<>>
    /\ postings' = [j \in DOMAIN postings |-> {}]
    /\ onTheWay' = exists
    /\ UNCHANGED <<platform, shared, transferVars, mishaps, dpc, purge, bin, answer, unclear>>

BinShows ==
    /\ onTheWay /\ onTheWay' = FALSE
    /\ bin' = bin \cup {"ours"}
    /\ UNCHANGED <<folderVars, transferVars, mishaps,
                   dpc, purge, dropped, answer, unclear>>

SourceChanges(e) ==
    /\ MayHappen /\ mishaps' = mishaps + 1
    /\ shared' = IF e \in shared THEN {f \in shared : f # e /\ At(f) # e}
                 ELSE shared \cup {e} \cup ({At(e)} \ {DriveRoot})
    /\ UNCHANGED <<platform, exists, content, clash, postings, wipes, transferVars, deleteVars>>

Requests == RequestStandard \/ RequestIncremental \/ RequestReplacement
TransferSteps ==
    \/ BeginTransfer \/ RowsGone \/ PathsGone \/ TaskSeen \/ TransferAnswered \/ TransferEnds \/ Share \/ CallFails
    \/ \E g \in groups : TakeGroup(g)
DeleteSteps ==
    \/ DeleteAsked \/ DeletionSeen \/ DeletionInBin \/ PurgeRecords \/ ClearBin
    \/ EmptinessSeen \/ DeleteFails
DriveSteps ==
    \/ \E j \in DOMAIN postings : SaveLands(j)
    \/ WipeLands \/ DeletionLands \/ BinShows
    \/ \E e \in Entries : SourceChanges(e)

DriveNext == Requests \/ TransferSteps \/ DeleteSteps \/ DriveSteps
DriveSpec == DriveInit /\ [][DriveNext]_driveVars

----------------------------------------------------------------------------
DriveTypeOK ==
    /\ platform \in {"quark", "baidu"} /\ shared \subseteq Entries /\ clash \subseteq ShareDirs
    /\ content \subseteq [name : Entries, at : Places, copy : Nat]
    /\ postings \in Seq(SUBSET Slots)
    /\ pc \in {"idle", "ready", "clearing", "saving", "waiting", "done", "shared", "failed"}
    /\ groups \subseteq Group /\ groups \subseteq plan
    /\ wanted \subseteq Slots
    /\ dpc \in {"idle", "leaving", "binning", "purging"}
    /\ bin \subseteq {"ours", "namesake"}
    /\ answer \in {"none", "deleted", "cleared", "error"}
    /\ unclear \subseteq {"given_up", "unseen", "namesake"}

(* A transfer that ended well has brought what it took, but for what a     *)
(* save that was given up has still to bring.  A deletion of the directory *)
(* that was given up may take it, and one of its contents may take what a  *)
(* later transfer saved, or, at Baidu, which deletes by path, a retry.     *)
Whole ==
    pc \in {"done", "shared"} =>
        \A s \in wanted :
            \/ Held(s[1], s[2])
            \/ \E j \in DOMAIN postings : s \in postings[j]
            \/ lostWipe /\ (platform = "baidu" \/ mode # "replace_all")
            \/ "given_up" \in unclear

(* No entry is there twice: a retry finds what an earlier attempt saved,   *)
(* unless it was given up too early; only transfers of the whole share do  *)
(* not look.                                                               *)
SavedOnce ==
    mode = "incremental" /\ ~lostSave =>
        \A c1, c2 \in content : c1.name = c2.name /\ c1.at = c2.at /\ c1.copy > before => c1.copy = c2.copy

(* A replacement leaves nothing of what there was.                         *)
ReplacedWhole ==
    pc \in {"done", "shared"} /\ mode = "replace_all" /\ ~lostSave =>
        \A c \in content : c.copy > before

(* A deletion that answers that the bin was emptied leaves the directory   *)
(* neither in its place nor in the bin, unless an earlier deletion was     *)
(* given up or not looked for in the bin, or a namesake was in the bin.    *)
PurgedForGood ==
    answer = "cleared" /\ unclear = {} => ~exists /\ ~dropped /\ ~onTheWay /\ "ours" \notin bin

DriveIsWhole == Whole /\ SavedOnce /\ ReplacedWhole /\ PurgedForGood
=============================================================================

----------------------------- MODULE MosaicSTAC -----------------------------
(***************************************************************************)
(* A mosaic and the STAC Collection that is bound to it: the harvests of    *)
(* MosaicHarvest change what the refreshes of STACRefresh read, without a   *)
(* lock between the two. One server runs both and restarts both.            *)
(***************************************************************************)
EXTENDS MosaicHarvest

CONSTANTS
    MaxEdits,
    BoundJobs, BoundGens   \* tighter bounds on the mosaic while a Collection is bound to it

VARIABLES
    collection, refresh, refresher,
    mixed,    \* history: whether the "scan" under way, or the Items of the "collection",
              \* may be of another generation than the one their fingerprint names
    unstored  \* history: the running row is that of a refresh whose failure was not stored

S == INSTANCE STACRefresh WITH
        generation <- active, granules <- GranulesOf(active), source <- service

all == <<vars, collection, refresh, refresher, mixed, unstored>>

(* A Collection is bound to the mosaic, or none is. *)
InitBoth == Init /\ S!Init /\ mixed = {} /\ unstored = FALSE

Few ==
    /\ \A j \in Jobs : job'[j].status # "none" => j <= BoundJobs
    /\ \A g \in {worker'.gen, remover'.gen} : g <= BoundGens

(* A number comes again when its generation was taken back and the next one *)
(* is activated: what was scanned or published under it is then of the      *)
(* other. And a generation that is taken back between a scan and the look   *)
(* at the fingerprint after it may be the one the scan has read.            *)
MixedUp ==
    {x \in {"scan", "collection"} :
        \/ x \in mixed
        \/ x = "collection" /\ active' > active /\ collection.fp = active'
        \/ /\ x = "scan" /\ refresher.before = active'
           /\ \/ active' > active /\ refresher.pc \in {"check", "publish"}
              \/ active' < active /\ refresher.pc = "check"}

(* What a step of the mosaic does beside its own state. *)
BesideMosaic ==
    /\ collection.exists => Few
    /\ mixed' = MixedUp
    /\ UNCHANGED <<collection, refresh, refresher, unstored>>

Mosaic == (Work \/ Request) /\ BesideMosaic

(* The Items that are published are those of the scan. *)
Carried ==
    {x \in {"scan", "collection"} :
        IF x = "scan" THEN x \in mixed /\ refresher'.pc \in {"check", "publish"}
        ELSE IF S!Publish THEN "scan" \in mixed ELSE x \in mixed}

(* What a step of the refresh does beside its own state. *)
BesideStac ==
    /\ UNCHANGED vars
    /\ mixed' = Carried
    /\ unstored' = (S!FailureLost \/ (unstored /\ refresh'.status = "running"))

Stac == S!Next /\ BesideStac

RestartBoth == Restart /\ S!Restart /\ mixed' = mixed \ {"scan"} /\ unstored' = FALSE

NextBoth == Mosaic \/ Stac \/ RestartBoth

SpecBoth == InitBoth /\ [][NextBoth]_all

(* Both kinds of workers poll; the reconciliation runs every minute.        *)
FairBoth ==
    /\ SpecBoth
    /\ WF_all(Work /\ BesideMosaic) /\ WF_all((Removed \/ RemoveFails) /\ BesideMosaic)
    /\ WF_all(S!Work /\ BesideStac) /\ WF_all(S!Reconcile /\ BesideStac)

-----------------------------------------------------------------------------
(* A Collection whose stored fingerprint is that of the source has exactly  *)
(* the source's granules as Items, whatever was harvested, removed or       *)
(* restored while it was scanned: what reconciliation takes for unchanged   *)
(* is unchanged. Two exceptions come from numbers that are not unique: the  *)
(* next generation got the number of one that was taken back, and the       *)
(* fingerprint is that of the first; or a generation was taken back between *)
(* a scan and its second look at the fingerprint, which then finds the      *)
(* number it began with. The next publication ends either.                  *)
FingerprintTrue ==
    collection.exists /\ service = "live" /\ collection.fp = active /\ "collection" \notin mixed
        => collection.items = GranulesOf(active)

(* A refresh never undoes an administrator's edit of the Collection that    *)
(* was made while the source was scanned.                                   *)
EditsKept == [][collection'.exists => collection'.doc >= collection.doc]_all

InSync == ~collection.exists \/ service # "live" \/ collection.items = GranulesOf(active)

(* However often the source changes, scans fail or jobs are overtaken, the  *)
(* Collection shows the live granules again and again, unless refreshes     *)
(* are cancelled or fail for ever, or a failure that could not be stored    *)
(* has left the job's row running: that blocks the Collection until the job *)
(* is cancelled or the server starts again.                                 *)
CollectionCatchesUp == []<>(InSync \/ unstored) \/ []<><<(S!Cancel \/ S!ScanFails) /\ BesideStac>>_all

=============================================================================

# A TLA+ model of the ODF CLI

`odf` is a command line program for OpenShift Data Foundation clusters. It
keeps no state of its own: a run reads the cluster, changes it in a few
requests, and ends. What can go wrong is in the cluster it leaves behind, when
a run is aborted between two requests, when two runs overlap, or when somebody
else, an operator or a garbage collector changes what it has just read.

The modules here describe those requests one at a time, with the cluster
acting between them, TLC checks them on small instances, and TLAPS proves the
main theorems for every value of the constants.

References such as `crds.go:66` are to the repository's source; paths that are
not given are clear from the section.

## 1. Inventory

| Part | State | Operations | Modelled by |
|---|---|---|---|
| root command (`cmd/odf/root`, `cmd/odf/main.go`) | the two namespaces, the clients | PersistentPreRun, preValidationCheck | `CommandDispatch` |
| command definitions (`cmd/odf/*`) | what cobra is told of each command | | `CommandTable` |
| remote-obc installer (`pkg/noobaa`, `cmd/odf/object`) | two CRDs on the cluster | InstallCRDs, UninstallCRDs, applyCRD | `ObjectCrds`, `CrdRegistry` |
| restore deleted (`cmd/odf/restore/crds.go`) | the scale of two deployments, a CR, its children | scale down, parse, RestoreCrd, scale up | `RestoreDeleted` |
| benchmark workflow (`pkg/benchmark/benchmark_run.go`) | two child processes and a pipe, a DaemonSet, its pods, log files | ConfigMap, DaemonSet, poll, logs, clean-up | `BenchmarkPipe`, `BenchmarkRun` |
| StorageClient resolution (`pkg/filesystem`, `cmd/odf/subvolume`, `cmd/odf/cephfs_snap`) | what was read so far | five reads, then list or delete | `StorageClient` |
| purge-osd (`cmd/odf/purgeosd`, `pkg/rook/osd`) | one OSD | check, prompt, purge | `PurgeOsd`, `OsdRemoval` |
| NooBaa health (`pkg/health`) | none | two reads, a loop over the pods, a verdict | `NooBaaHealth`, `Reports` |
| DR prerequisites (`pkg/odf/dr`) | none | three reads, a verdict | `DrPrereq`, `Reports` |
| benchmark resources (`pkg/benchmark/resources.go`) | a file | three programs on each node, parsers and filters | `BenchmarkResources`, `Reports` |
| ratios, OSD profile, log levels, ceph, rbd, rados, radosgw-admin | none | one command in the operator pod | dispatch only |
| mon-quorum, maintenance, mon-endpoints, rook status, dr-health | none | one call of kubectl-rook-ceph | dispatch only |
| `odf dr`, `odf noobaa`, `odf multus`, developer preview texts | none | commands of other projects | not modelled |

**Interactions.** Every command passes through the root command, which settles
the namespaces and validates them; the command then works through the clients
it made. The commands share nothing else in the program. They meet on the
cluster: two runs of `odf object`, or two of `odf restore deleted`, write the
same objects, and all of them compete with operators.

**What is hard, and what makes each part correct.**

- *remote-obc*: update conflicts, lost answers, a CRD that is still being
  deleted, a failure half way. Correct: no update of another writer is lost; a
  session leaves a prefix of its list; the four requests look like one.
- *restore deleted*: it takes an operator away from the cluster and must give
  it back; it removes finalizers and owner references in an order on which data
  depends; it copies a spec before it asks a question. Correct: the operator's
  absence can always be accounted for; children and spec survive.
- *benchmark*: two processes and two goroutines around an unbuffered pipe; a
  poll that races the DaemonSet controller. Correct: an applied ConfigMap is
  whole; the run ends; saved logs are those of completed pods (they need not
  be: section 6).
- *StorageClient*: a chain of reads during which the client may be replaced.
  Correct: the operation works in a group of the client that was named.
- *purge-osd*: the one command that destroys data. A check, a question and the
  removal are far apart in time, ceph's answer to a failed check looks like that
  to an unsafe OSD, and an ID is not an identity. Correct: data is lost only on the
  user's word, or by a change that came after the last check.
- *the commands that only look* (NooBaa health, DR prerequisites, benchmark
  resources): several reads that are reported together, requests that fail between
  them, loops and filters over what was read. Correct: what is so throughout is
  reported; what could not be read does not pass for read.
- *dispatch*: flags that arrive or do not, according to which commands parse
  flags; validation before work. Correct: a command works where it was told to
  (it need not: section 6), and only in a namespace it has checked.

`PROJECT.json` has the list of hazards, each at its line, with the properties
that cover it, or the reason why none does.

## 2. How the modules read

A *session* is a run of the program. Each request to the API server, each child
process and each wait is one action; the control that follows it in the code,
up to the next request, is part of that action. `pc` names the next request.
`logging.Fatal` and an interrupt end a session in `"fatal"` with everything as
it is: the program defers nothing, and rolls back nothing. A request whose
answer gets lost has its effect and ends the session (`Answer`, `Reply`).

Actions of the cluster, of other users and of libraries are marked external in
their comments and in the map; they are modelled from how the code uses them
and from what the repository's documents show of them.

Operators called `Slip...` are plausible mistakes (a dropped condition, a
missing reset) in the operator below them. No specification uses them; each
property has one that it catches.

### ObjectCrds and CrdRegistry

`Start` picks the command; `Create`, `Get`, `Update` are applyCRD
(crds.go:71-85), `Delete` is the loop of UninstallCRDs (43-55). `cursor` is the
loop variable, `existing` the result of the Get. The cluster gives every write
a new revision and refuses an update of another revision, deletes at once or
marks a CRD as terminating and removes it later (`Cleanup`), and has other
writers (`ForeignWrite`). `CrdRegistry` is the abstract specification: a session
takes one CRD after the other to the state it wants, each in one indivisible
step, or gives up. The refinement mapping forgets the versions, and takes
the manifests for `content`, the terminating CRDs for `doomed`, and every request
for "working".

### RestoreDeleted

The sequence is `WaitForPodToRun` (PreRun), `ScaleDown`, `Parse`, RestoreCrd
(`List`, `Answer`, `InnerDown`, `Strip`, `Finalizers`, `Recreate`, `InnerUp`),
`ScaleUp`. The CR is live, deleting or gone, has a revision of its spec
(0 is the default that ocs-operator writes) and an incarnation (its uid);
`owned` are the groups of its children that still name this incarnation as
their owner. `diedAt`, `overlap`, `written` and `stale` are history variables:
where sessions died, whether one began its work within another's, the last
revision somebody wrote (`EditCr`, at any time while the CR is there), and the
sessions that hold a copy older than that. RestoreCrd is code of
kubectl-rook-ceph and is modelled from docs/restore.md:184-217. Which
operator *it* scales is not to be seen there: the constant `Inner` is either
of the two, the proofs are for both, and the run uses rook-ceph-operator, for
which more can happen.

### BenchmarkPipe and BenchmarkRun

`BenchmarkPipe` is benchmark_run.go:15-41. A text of `Chunks` chunks goes
through the stations of the pipe; the two copying goroutines are those that
os/exec starts for a Stdout or Stdin that is no file, and io.Pipe is a
rendezvous between them (`HandOver`). `createCmd.Wait()` waits for the process
and for its goroutine. `BenchmarkRun` extends it with lines 43-103: `Poll`
looks at all listed pods at once, `List` and `Collect` save the logs, `CleanUp`
deletes the DaemonSet. `main` is where the code is up to line 41, `wf` where it
is after that. The cluster creates, completes, restarts and removes pods in
between. Before the workflow looks at the cluster for the first time, nothing
the cluster does can be observed: it is part of the choice of the initial state.

### StorageClient

Each of the reads of ResolveStorageClientConfig is a step (`GetClient`,
`ListProfiles`, `Read`), then `Act` is the operation in the subvolume group
that was resolved or named. Incarnations of the StorageClient have a uid, and
a profile that outlives them. The commands differ in where a group can be named:
`FlagGroup` and `ArgumentGroup`.

### PurgeOsd and OsdRemoval

`Start` is validateOsdID, `Check` is SafeToDestroy and the branch on its result
(`AfterCheck` keeps the order of the branches: the one for an error is never
taken), `Prompt` the question. `RookCheck` and `RookRemove` are
rook, as far as its log in docs/purge_osd.md shows it. An OSD is present or not,
and `needed` if ceph does not call it safe; `Occupy`, `Drain` and `Add` are what
the cluster does. `word`, `cleared`, `overtaken`, `removed` and `lost` are history:
who said yes, who found the OSD safe, and what came of it.

`OsdRemoval` is the abstract specification: no check, prompt or spelling, only sessions
that each have one OSD to remove, a `consent` and `vouchers` for it, and a removal that
needs the one, or both of the others; a voucher is only given while the OSD is not
needed, and a session removes at most once. `PurgeOsd` implements it with
`word` for `consent`, `cleared` for `vouchers` and the sessions that have ended for
`over`.

### Inspection, NooBaaHealth, DrPrereq, BenchmarkResources and Reports

The three commands that only look have the same shape, `Inspection`: one
request after another (`Answered`, or `Failed`), and something remembered
(`known`) or said (`report`) after each. `world` maps every part of the cluster
that is looked at to its state; `Change` changes one. `steady` is history:
the parts that have not changed since the command began, and none once a request
has failed. That is what the properties are stated with: of a part that is steady
the report must be right, whatever became of the others.

- `NooBaaHealth`: `GetNooBaaPhase` and `ListPods` are the two requests of Check,
  `LookAtPod` one iteration of its loop; `known` is what the loop has still to look at,
  and the order of the list is any.
- `DrPrereq`: `GetSubmariner`, `GetLocal` and `GetPeer` are the three requests, with the
  comparison of the IDs after the first and the `Conclusions` after the last.
  A network is a set of addresses, so that an overlap is an intersection.
- `BenchmarkResources`: `ListNodes`, then `GetDisks`, `GetMountedDisks` and `GetNics` for each
  node, then `WriteFile`. A row of lsblk is a name and whether it has a mount point;
  the name of a partition is not the name of its disk. An interface is what its
  name begins with and how long it is.

`Reports` chooses one of the three and runs it alone.

### CommandTable and CommandDispatch

`CommandTable` has one definition for each command file. `CommandDispatch` runs
a command line through cobra (`ValidateArgs`), PersistentPreRun (`Resolve`,
`MakeClients`, `preValidationCheck`, `MakeCtrlClient`), and the command's own
`PreRun` and `Run` up to its work. `Arrives` says which flags cobra hands to
whom: with TraverseChildren, and DisableFlagParsing on a group, flags between the
commands are dropped.

## 3. Runs

| Run | Module and configuration | Instance | Shows |
|---|---|---|---|
| object_crds | MCObjectCrds | 2 sessions, 2 CRDs, 2 foreign writes; 83 thousand states | six properties of the installer, the refinement among them |
| object_enable_doc | MCObjectCrdsEnable | the same | violation, section 6 |
| restore_deleted | MCRestoreDeleted | 2 sessions, 2 kinds, 5 command lines, 2 revisions, 3 incarnations; 114 thousand states | seven properties of the repair |
| restore_help | MCRestoreDeletedHelp | 1 session, `--help` | violation |
| benchmark_run | BenchmarkRun | 3 chunks, pipes that hold 1, 2 pods; 13 thousand states | eight properties of the workflow |
| benchmark_logs | BenchmarkRunLogs | 1 chunk, 2 pods | violation |
| storage_client | MCStorageClient | 1 session, 7 command lines, 3 incarnations; 456 thousand states | what is worked in |
| command_dispatch | CommandDispatch | all commands, 2 namespaces, 0 to 2 arguments; 142 thousand states | where a command works |
| dispatch_flags | CommandDispatchFlags | all commands, 2 namespaces, no arguments | violation |
| purge_osd | PurgeOsd | 2 sessions, 2 IDs, 3 spellings; 213 thousand states | five properties of the purge, the refinement among them |
| reports | MCReports | 2 core pods; 2 clusters, 2 addresses; 2 nodes, 2 disks, 11 interfaces; 202 thousand states | eight properties of the commands that only look |
| dispatch_skip | CommandDispatchSkip | 1 namespace | violation |

**Why the bounds are enough to be of interest.**

- `NumCrds` = 2 is the length of the list in the source. Two sessions are
  enough for every pairwise conflict, two foreign writes for a change and a
  re-creation between Get and Update. `MaxForeign` is the only bound of
  ObjectCrds; revisions are bounded by it and by the requests of the sessions.
- `MaxLives` = 3 gives the CR a life before the repair, one after it, and one
  that a second session or ocs-operator adds; `MaxRev` = 2 tells the original
  spec, an edited one and the default apart.
- Three chunks with pipes of one are the least with which goroutine 1 holds a
  chunk while goroutine 2 has died with one; two pods allow a poll that sees
  one of them.
- `MaxUid` = 3 is a client replaced twice during one resolution. One session is
  enough: a session of StorageClient writes nothing another one reads.
- Two runs of purge-osd can name the same OSD or two; a run changes another
  one's OSD only by removing it, which one more can do in every state. Nothing else
  is bounded there.
- `Reports`: two pods are a loop of two steps in either order, after the phase;
  two clusters are a cluster and its peer, or one named twice; two addresses make
  networks that are equal, apart, and contained in each other; of two nodes one
  can fail after the other, and two disks are enough to be taken for each
  other. The lengths of the interfaces are those around the limit.
- Two namespaces tell the default from another; up to 2 arguments, with 4 more when
  flags count as arguments, reach every bound of `CommandTable` from below and
  from above, but for log-level's three, which only flags taken for arguments
  exceed. `Many` bounds the counts.

**Deadlock.** In `storage_client` and `purge_osd` the cluster always has a step, and
deadlock is checked. In the other passing runs the sessions end, the foreign writes and
revisions are bounded, the cluster stops when the one command has ended, and
nothing is left to happen: `CHECK_DEADLOCK FALSE`. In
`BenchmarkPipe` a real deadlock is possible; the properties name it (`Jammed`)
and say when it can happen.

**Fairness.**

- `ObjectCrds!FairSpec`: only that the cluster completes a deletion it has
  begun. Nothing is asked of sessions, which a user may interrupt or never start.
- `RestoreDeleted!FairSpec`: a running session goes on, call after call, as
  client-go calls return or fail. The answer to the prompt is not fair: the user
  may never give it, and `OcsComesBack` excepts that.
- `BenchmarkRun!RunSpec`: the program, its goroutines and the two processes
  take the steps they can, as the operating system schedules them; that a
  process fails is never required. The cluster owes nothing: no pod has to be
  created or to complete. `RunEnds` therefore excepts runs in which some
  pod is found running again and again.

## 4. Properties

Each is stated in words above its definition. In short:

- *ObjectCrds*: `NoLostUpdate` (the precondition of an update holds of the very
  object that was read), `FootprintIsPrefix` (what any session left behind),
  `SoloEnableInstalls` (what success means), `DisableConverges` (what success
  leads to), `ImplementsRegistry` (atomicity).
- *RestoreDeleted*: `OperatorDownIsOwned` (whose doing an operator at zero is),
  `OcsDownDuringRepair`, `ChildrenSurvive` (what a session can cost a CR it has not
  read, and that it costs no other), `SpecKept` (the operator's default does not
  replace the spec while every session reports success, however many overlap),
  `EditsSurvive` (an edit is undone by a session that read the CR before and wrote it
  after, or lost to one that fails, and in no other way), `OcsComesBack`. The code has
  no lock and takes its copy before a question: what that costs is in the
  exceptions of these properties, and no more than that.
- *Benchmark*: `AppliedIsComplete` (no ConfigMap that is cut off is taken for
  good), `PartialOnlyAfterError` (and if one is applied, odf has reported an
  error), `JamNeedsEarlyExit` and `EndsOrJams` (the only way to hang in the
  pipe is an `oc apply` that gives up before it has read everything),
  `PartialLogsAreExcused` (why a saved log can be partial),
  `PanicNeedsNoPods`, `RunEnds`.
- *StorageClient*: `OwnGroupsOnly`, `QuietVerdict` (if nothing changes, the
  reads together are as good as one).
- *PurgeOsd*: `LossIsExcused` (which word or which late change a loss goes back
  to), `NobodyElseDecides` (a removal without the word needs two good answers: a failed
  check is none), `AskedForAReason` (the check is right when nothing interferes, but
  for IDs in other spellings), `ImplementsRemoval` (it acts as one removal, made once and
  with a permission).
- *NooBaaHealth*: `SteadyFaultsAreReported`, `HealthVerdict`. *DrPrereq*:
  `ComparesTwoClusters`, `DrVerdict`. *BenchmarkResources*: `FileIsComplete`,
  `DisksAreExcused`, `OnlyChildrenTooLong`.
- *CommandDispatch*: `WorksWhereChecked`. Where a command works is not always where
  it was told to: `RootArgsApply` is one of the violations of section 6.

## 5. Proofs

Every safety property, action property and refinement that a passing run checks is
proved for every value of the constants: any number of sessions, CRDs, requests,
revisions, lives, OSDs, incarnations, chunks, pods, clusters, nodes, disks and
interfaces, and pipes of any capacity. The proofs rest on the named assumptions of the
modules (a list that is not empty, sentinels that are not sessions, objects or
namespaces, bounds that are numbers, `Inner` one of two deployments, groups that are no
uids, interfaces the kernel allows); PurgeOsd and BenchmarkRun have none of their own.
Each module below has an invariant that is inductive:

- `Invariance` of **ObjectCrdsProofs** is about `IInv`, which adds to the types
  and to `FootprintIsPrefix` three things: what a session's next request says of
  its command and its cursor (`Control`); that no version on the cluster or in
  `existing` is newer than the revision counter (`Versions`); and that whoever
  holds the version of the stored object holds the object (`Snapshots`).
  `FootprintAlwaysPrefix` follows at once. `NoUpdateIsLost` needs `Snapshots`:
  the code compares versions, the property speaks of objects; and `Snapshots`
  needs `Versions`, for a write in between must not reuse a version.
  `SoloEnableCorrect` needs one more inductive invariant, `Solo`: while the
  session that began last is undisturbed nobody else is at work, no CRD has
  become terminating, and those behind its cursor carry its manifest.
  `RegistryRefined` shows that initial states map to initial states and that
  every step maps to a step of `CrdRegistry` or to a stutter. `DisableDooms` rests on
  the counterpart of `Solo` for a disable, `SoloDisable`: what is behind its cursor is
  terminating or gone.
- `Invariance` of **RestoreDeletedProofs** adds to the types and the safety
  properties: that the session that scaled an operator down is still before
  its scale-up, or died there (`DownHeld`, from which `OperatorDownIsOwned`
  follows); that at most one is in its section while no two overlap (`Alone`); and,
  of any number of sessions, that the CR a session has read is being deleted and without
  owner references when the finalizers go, or has been replaced (`Focus`, from
  which `ChildrenSurvive` follows), and that a CR that is gone has a session about
  to re-create it, or had one that died (`GoneHeld`). The spec needs two more
  (`DefaultExcused`, `OldExcused`), about the CR and the copies that may become its
  spec again. Both rest on `OneTooMany`: ocs-operator can only step into the gap when
  it was scaled up by a second session, and then of the sessions about to re-create
  the CR one is too many. That is inductive (`OneTooManyStays`), since a
  re-creation that succeeds leaves the next session to fail; hence `SpecKept` and
  `EditsSurvive` hold for overlapping sessions too.
- `Invariance` of **PurgeOsdProofs** adds that a session is forced only if its
  user typed the word (`Consent`), and what one that is not forced has behind it
  (`Vouched`): odf's answer before rook begins, both answers before rook removes, and
  then an OSD that is not needed, or was overtaken. From `Consent` and `Vouched`
  `LossIsExcused` and `NobodyElseDecides` follow in the step that removes.
  `RemovalRefined` uses the same invariant: that rook removes is a step of `OsdRemoval`
  because of `Consent` and `Vouched`; a check that succeeds is a voucher, one that fails
  a stutter or the end.
- `Invariance` of **StorageClientProofs** adds that the first uid the name could have
  is not beyond the next one (`Fresh`), without which GetClient could read a client
  older than the session; that the group is one of those when the operation
  begins (`Located`); and, for a session that nothing has disturbed, what each read
  has established (`Settled`). `QuietVerdict` is the end of that chain.
- `Invariance` of **CommandDispatchProofs** says what has been looked at by each step
  (`Looked`). `WorksWhereChecked` also needs a fact of the table (`TableFacts`): no
  command but the benchmarks is exempt, the one of section 6 included.
- `Invariance` of **BenchmarkPipeProofs** is the conservation of chunks over the
  stations (`Conserved`) with what each half of the pipe says of its stations:
  a first half that is over is empty (`FirstHalf`), and a second half that is over was
  closed, or has lost one chunk to an apply that failed (`SecondHalf`). A ConfigMap is
  whole because nothing is left before `apply`; a jam costs two chunks.
  **BenchmarkRunProofs** shows that the whole workflow implements the pipe
  (`PipeRefined`: from the DaemonSet on it stutters), which carries every theorem about
  the pipe over, and extends the invariant: `Polled` says that the pods of the last poll
  are still complete or were restarted, `Kept` that they are still there unless
  somebody deleted the DaemonSet.
- **ReportsProofs** has one invariant for each of the three commands. For NooBaaHealth
  it is `HealthIInv`: the loop has looked at every pod it has dropped from `known`, so
  that a pod that is steady and broken is still to come, or has made the report
  Critical, which no later pod can undo (`HealthMemory`); and when all is steady, what
  the report says is the case (`HealthQuiet`). For DrPrereq it is `DrIInv`: what is
  remembered is what is there, of the parts that are steady; for BenchmarkResources
  `ResIInv`: every node of the cluster is done, at hand or to do, and only one of
  these (`Partition`), and what was collected is as good as what will be written
  (`Collection`). `MountFacts` and `NicFacts` are about the parsers: a disk is taken
  for mounted if and only if it is mounted itself.

Each proof of a step has one case for each action. The theorems are listed in
`PROJECT.json`.

**Only model-checked.** The four liveness properties (`DisableConverges`,
`OcsComesBack`, `EndsOrJams`, `RunEnds`): ENABLED and liveness under fairness are out of
reach of the prover. For three of them the part that is not about fairness is proved,
and what is left to TLC is that fair actions that can be taken are taken:

- *EndsOrJams.* `StepsRunOut`: each step of the pipe uses up one of at most
  `5 * Chunks + 13`, for a chunk has five stations to pass, and the workflow, the
  programs and the goroutines have a few states each. `OnlyJamsAreStuck`: when no fair
  action has its guard satisfied (`Stuck`), the workflow has left the pipe or is jammed.
  The proof follows the pipe from its end: whoever waits, waits for somebody who can
  move.
- *OcsComesBack.* `SessionsRunOut`: a session takes no step of the command twice.
  `OcsIsNotForgotten`: while ocs-operator is at zero some session died, or is at the
  prompt, or is in its section with a step whose guard nobody else can falsify.
- *DisableConverges.* `DisableDooms`: after the success of a lone disable every CRD that
  exists is terminating, and until somebody else acts CRDs only go away.

`RunEnds` has no such part beyond that of the pipe: the loop over the polls has no bound.
`Stuck` and `CanGoOn` write the guards of the fair actions out, since ENABLED cannot be
used.

## 6. Where code and documents differ

1. `object_enable_doc`: docs/object.md:5-6 promises an update of CRDs that exist.
   An enable shortly after a disable updates CRDs that are terminating, reports
   success, and they vanish.
2. `restore_help`: README.md:79-83 promises help for `-h|--help` on all commands.
   `odf restore deleted --help` scales ocs-operator to zero and fails.
3. `dispatch_flags`: README.md:81-99 has `-n|--namespace` and `--operator-namespace`
   among "the arguments that apply to all commands". In front of the first
   command, as in the examples there, they do. Behind a group that does not parse
   flags they are dropped without a word (`odf get -n foo health` works in
   openshift-storage), and behind ceph, rbd, rados and radosgw-admin, and those
   commands of set, get and restore that do not parse flags either, they are taken
   for arguments.
4. `benchmark_logs`: an empty list of pods counts as "All benchmark pods
   completed." (benchmark_run.go:55-65).
5. `dispatch_skip`: the exemption of `odf object enable|disable` from the
   validation (root.go:136-141) never applies, as it compares with the whole
   `Use`.

Other things met on the way: crds.go:15-23 has one API version for a group, while
crds.go:109-110 uses another for one of the kinds of ocs.openshift.io, so that
`odf restore deleted storageconsumers.ocs.openshift.io` asks for a resource that is not
served (`ListKey`, `Served`; the session dies with ocs-operator at zero). The rest is
part of what the passing properties say: a check
of an OSD that failed is presented as "The OSD is *not* safe to destroy", as
purge_osd.go:40-42 cannot be reached (`AskedForAReason` has it as the requests
that fail); a disk with a mounted partition is reported as free
(`DisksAreExcused`); a physical interface that has a parent can be dropped for the
length of its name (`OnlyChildrenTooLong`); without Submariner `get dr-prereq`
says so and ends in an error (`ComparesTwoClusters`).

## 7. Assumptions and limits

- A scale-down takes effect at once. Whether SetDeploymentScale waits for the
  pods is decided in kubectl-rook-ceph.
- A request of a session that has died does not arrive later.
- The API server accepts edits of a CR that is being deleted (docs/restore.md:169
  calls updates "prevented", for the operators do not act on them). Its children are
  adopted only while it is live and an operator runs.
- RestoreCrd removes the finalizers of the CR by its name, and ends when the CR it
  is to create is there already.
- The prompts are asked. With ODF_SKIP_PROMPTS in the environment
  (.github/workflows/go-test.yaml:27) kubectl-rook-ceph takes them for answered; the
  steps are those of a user who says yes, and in `PurgeOsd` this counts as his word,
  given in advance.
- `oc apply` does not succeed before the end of its input, refuses an empty
  input, and does not notice one that is cut off between two chunks.
- The pods of a DaemonSet are restarted when they complete, since no other
  restart policy is allowed there; they go away only with the DaemonSet.
- An incarnation of a StorageClient has one subvolume group and one profile.
- rook asks ceph again before it removes an OSD, and does not remove one that is
  needed unless it is forced (the log in docs/purge_osd.md); what it checks beyond that
  only makes it give up more often. ceph may call an OSD that does not exist safe.
- An OSD that comes back under an ID is not told from the one before: the user's
  word counts for the ID.
- NooBaa is the first CR of the list; the time that passes between the list and
  the comparison with five minutes is none. cidr.OverlappingSubnets fails for an
  overlap and for a CIDR it has to parse and cannot.
- The list of nodes does not change during a collection: a node that goes away makes
  its requests fail. The output of lsblk and ip is taken as rows; a line of another
  form, or a mount point that contains white space, does not occur. The interfaces
  (`Nics`) are one set for every node, and do not change: `OnlyChildrenTooLong` is
  about what the filter does to each of them.
- What cobra does with flags and arguments is modelled from how the code
  configures it (TraverseChildren, DisableFlagParsing, Args, ValidArgs).
- Not modelled: texts and formats, log messages, the contents of manifests,
  credentials and monitor addresses, file permissions, and what the commands
  of other projects do once they are called.

## 8. Plan

Done: `CrdRegistry`, `ObjectCrds`, `ObjectCrdsProofs`, `RestoreDeleted`,
`RestoreDeletedProofs`, `BenchmarkPipe`, `BenchmarkPipeProofs`, `BenchmarkRun`,
`BenchmarkRunProofs`, `StorageClient`, `StorageClientProofs`, `CommandTable`,
`CommandDispatch`, `CommandDispatchProofs`, `OsdRemoval`, `PurgeOsd`, `PurgeOsdProofs`,
`Inspection`, `NooBaaHealth`, `DrPrereq`, `BenchmarkResources`, `Reports`,
`ReportsProofs`.

What could follow:

1. An abstract StorageClient resolution, which reads everything at once at one moment of
   its run, for the sessions whose client is not replaced meanwhile.
2. The rest of the dispatch: the ratios, the profiles and the log levels once they do
   more than run one ceph command.
3. Whether SetDeploymentScale waits (crds.go:66), when the code of
   kubectl-rook-ceph is at hand.

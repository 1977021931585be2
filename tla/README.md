# A TLA+ model of open-graphtec-server

The server (`src/server/app`, Python/FastAPI) sits between a print shop's
software and Graphtec cutters. Shops put jobs into its database, through the
API or through two hot folders; a cutter that scans the barcode of a printed
sheet is offered the jobs of that barcode, its operator picks one, and the
server sends it over. A sheet is ruined when the wrong job is sent, when a job
is sent twice, when a sheet cannot be matched to its job, when a file is
imported before it has been copied, or when its program cuts other lines than
those of the design, or elsewhere; the specifications here are about these.

## 1. Inventory

Line numbers are those of `src/server/app/`.

| Component | State | Operations | Interacts with |
|---|---|---|---|
| Data Link worker, `dls_worker.py` (one thread per cutter) | `_current_status`, `_previous_status`, `_standby_mode`, `_last_error`, `_latest_job_metas`, event log | poll (259-310), handle request for a list (314-350), handle job determined (352-412), startup handshake (220-257) | cutter over TCP (`protocol.py`), job store, webhooks |
| Worker life cycle, `dls_worker.py` 27-140, same shape in `ingest_worker.py` and `print_worker.py` | `_thread`, `_stop_event`, `_is_running`, lifecycle lock, lock file of the cutter | `start`, `stop`, `_run` | request threads, lifespan handler, other server processes on the machine |
| Protocol client, `protocol.py` | none; one TCP connection per command | ESC.d1 to ESC.d6, job stream, `is_allowed_transition`, `sanitize_job_name`, send with a retry budget | cutter |
| Job store, `storage.py` | SQLite: `jobs`, counters; one lock in the process | create, get, list, delete, query by barcode, `allocate_barcode` | everybody |
| Cut hot folder, `ingest_worker.py` | inbox, processed and error folders; nothing in memory between polls | poll, read sidecar, convert, move, insert, error handling | producers of files, job store |
| Print hot folder, `print_worker.py` | the same kind of folders, an outbox | poll, prepare, write the marked PDF, move, error handling | `print_prepare.py` |
| Print preparation, `print_prepare.py` | none | extract cut paths, mint a barcode, lay out marks, check zones, register the job | job store, API and print worker, in several threads |
| HTTP API, `main.py`, `models.py` | the worker objects | jobs, `/cutter/info`, `/dls/start`, `/dls/stop`, `/print/prepare`, status | everything above |
| Webhooks, `webhook.py` | counters of delivered and failed events, the last error | one thread per event, three attempts | external receiver, status page |
| Barcode and marks, `marks.py` | none | page arithmetic, Code 39 barcode, mark positions, the frame of the marks | print preparation |
| Cut path extraction, `converters/cut_extract.py` | for one page: stacks of graphics states and sections, the shared cut depth | PDF operators, nested forms, the walk of a path | print preparation |
| PDF conversion, `converters/pdf_to_gpgl.py` | for one job: segments, the tour, the commands | walk, flattening, rounding, deduplication, tour, batches | cut hot folder, API, print preparation |
| Configuration, `config.py` | module constants | read from the environment at import | everything |
| Status page, `static/index.html`; test sheets, `src/test-sheet/` | none of the system's | | API; none |

What is hard in it:

* **Data Link.** The cutter is a second state machine, moved by a person. The
  worker sees it in polls, each on a new connection, and may miss statuses. The
  index the operator picks is resolved against a list of an earlier exchange,
  then against a row of a table others change. ESC.d5 and ESC.d6 must come
  before the job's bytes, which are not acknowledged. Every exchange may fail
  before or after its effect. `/cutter/info` competes for the connection and
  decides by a published status. Correct means: the job that is picked is sent,
  it matches the scan, it is registered before, it is sent once, and no failure
  is silent.
* **Life cycle.** `stop` joins with a timeout, so a thread may outlive it;
  `start` may find a thread that is about to end; a second server on the same
  machine must not poll the same cutter. Correct means: one poller, a true
  `stop_completed`, and a start that leads to polling.
* **Cut hot folder.** A poll takes all ages when it begins and uses them later;
  PDF and sidecar are copied independently; moving, inserting and failing can
  interleave with a crash. Correct means: nothing is read half-copied, a drop
  makes one job at most and has its own metadata, and nothing stays behind.
* **Print preparation.** Several threads mint from one counter; the sheet, the
  job and the file in the inbox are three things that a failure separates.
  Correct means: no two designs share a minted code, and a sheet that is out has
  its job.
* **Cut paths.** A form XObject runs in an interpreter of its own, and all of
  them count the cutting sections they are in into one number; streams need not
  balance. Correct means: a path is collected exactly when the PDF has it in a
  cutting layer or paints it in a cut colour.
* **Programs.** A page is walked, flattened, rounded, rid of what is cut twice,
  and toured along shared points. Correct means: every line is cut once and
  nothing else, where it is printed, inside the marks, and the sensor can read
  the marks and the barcode.
* **What goes out.** Retries with a budget, threads for events that share
  counters, restarts. Correct means: a command is repeated only while some of it
  is unsent, a worker always comes back, and what the status page shows of the
  webhooks is what became of them.

PROJECT.json lists the hazards with their lines, and the properties for them.

## 2. The modules

| Module | Models | Depends on |
|---|---|---|
| `ScanCycle` | the promise of a scan cycle (abstract) | |
| `DataLink` | worker, cutter, store and `/cutter/info`; refines `ScanCycle` | `ScanCycle` (INSTANCE) |
| `WorkerLifecycle` | start, stop, lock file, several processes | |
| `HotFolder` | the cut hot folder and its producers | |
| `PrintPrepare` | print preparation in several threads, its folder and the counter | |
| `CutExtract` | the interpreters that find the cut paths of a page | |
| `MCCutExtract` | its instance: the resources of a page and a form | `CutExtract` |
| `PathWalk` | from a path's operators to segments, flattening (operators) | |
| `MarkLayout` | the layout of a sheet and the frame of its marks (operators) | |
| `CutJob` | from a page to its GP-GL program, for sheets and imports | `PathWalk`, `MarkLayout` |
| `MCCutJob` | its instance: pages, and sheets at the bounds | `CutJob` |
| `Outbound` | exchanges with their retry loop, webhook events, restarts | |
| `DataLink_proofs`, `WorkerLifecycle_proofs`, `HotFolder_proofs`, `PrintPrepare_proofs`, `CutExtract_proofs`, `CutJob_proofs`, `Outbound_proofs` | theorems about these modules | the module of the name |
| `Induction` | lemmas: induction and recursion over the naturals and over sequences, `FlattenSeq` | used by the proofs of `CutExtract` and `CutJob` |

`PathWalk` has a recursive function, not a RECURSIVE operator, so that
`CutJob` can be proved about.

In `DataLink`, `HotFolder` and `PrintPrepare` a constant `Faults` (`Locked` and
`CanCrash` in `WorkerLifecycle`) says what may go wrong in an instance. The same
specification is thereby checked where a promise holds, and where it does not.
`CutExtract`, `CutJob` and `Outbound` have all their failures as choices of the
actions. Operators marked "Mutant" are plausible mistakes; no specification uses
them.

Some variables are history: no action's guard reads them, and they exist for a
property to be stated. They are `lost` (a poll failed or a send broke off after
the cutter had some of the job), `answered`, `spoilt` (designs whose file a
crash or a failed move left behind), `parted` (stems whose sidecar may have lost
its PDF), `blind` (a poll failed, or the worker was started, since it read the
last status 1), `leaked`, `truth` and `strayed` (cutting sections that forms
left open; the kinds of cut paths the PDF has painted; whether something was
painted where a device colour, the colour of a form's caller or a section a form
left open is in force), `sends` and `untold`.

### DataLink

A step is one exchange with the cutter together with what the handler computes
up to the next one; between two steps anything else may move. `pc` says where
the worker's thread is: `handshake`, `wait` (between polls), `askBarcode`
(ESC.d2 and the query), `sendList` (ESC.d3), `askSelection` (ESC.d4 and
`get_job`), `regmark` (ESC.d5), `cmdType` (ESC.d6), `stream` (the bytes).

| Model | Code |
|---|---|
| `current`, `standby`, `lastError`, `metas` | `_current_status`, `_standby_mode`, `_last_error` (its cause), `_latest_job_metas` |
| `selected`, `refused` | locals of `_handle_job_determined` |
| `PollUnreadable`, `PollFlagged`, `PollTransition` | the branches of `_poll_once` (259-310); a fourth, an unchanged status, changes nothing |
| `AskBarcode`, `SendList` | `_handle_requesting_job_list` |
| `AskSelection`, `SetRegmark`, `SetCommandType`, `Stream` | `_handle_job_determined` |
| `EndHandler` | the status is committed only when its handler has returned |
| `Unsent`, `Unanswered` | `SendError`, `ResponseError` |
| `QueryResults`, `NewId` | `find_job_metas_for_barcode`, AUTOINCREMENT |
| `Stop`, `Start`, `Crash` | `stop()` through the API, which leaves the fields as they are; `start()`, whose thread resets them; the process |
| `LooksIdle`, `InfoAdmit` | the one look of `cutter_info` at the worker (main.py 385-386): it is stopped, or its status is 0 or unknown |
| `InfoQuery`, `info` | the three connections of `cutter_info` (405-407), each opened and closed; while one is open (`ConnectionFree` is false) the worker's polls and exchanges fail, and in between they go on |
| `status` ... `received`, `Cutter` | the machine and its operator: external, as the protocol client describes them; it follows `ALLOWED_SOURCE_STATUSES` |

The cutter is the part of the model with no source. It takes one list in a
cycle, and settings only for a job of this server's list while it waits for it;
whatever else it is sent it answers with an error. Its statuses are 0 to 7. The
webhook calls, the event log and `_previous_status` (which nothing reads back)
are left out. A retry loop is one step: it ends in an effect, in an error, or,
with `partial`, in an effect and another one; `Outbound` has its steps.

### WorkerLifecycle

`start` and `stop` run under the lifecycle lock, so a process is either idle or
has one caller in a join (`joining`, `request`). `Joined` is the join's return,
with the thread ended or the ten seconds over. The thread takes the lock file
(`Begin`), frees it (`Leave`) and clears `_is_running` (`End`): two steps, as in
the `finally` clause. A thread that did not get the lock file is `refused`. A
crash drops the lock file, as the operating system does. `answered` is a history
variable: what the last successful call was.

### HotFolder

Time is an age of each file, in units of the poll interval; `elapsed` is how
long the poll has run, so that an age taken when the inbox was listed
(`queue`) can be told from the age at its turn. The worker's steps are those of
`_process_single_file`: read the sidecar, read and convert the PDF, move the
PDF, move the sidecar, insert; anything that raises goes to the two steps of
`_handle_ingest_error`. A drop is numbered (`gen`), so that the model can tell
whose metadata a job got. Producers are the environment: they do not pause in a
copy for as long as `MinAge`, and begin a sidecar before the worker has given up
waiting for it, unless `Faults` has `late`. They do not use a name again before
its files have left the inbox, unless it has `reuse`.

### PrintPrepare

Each thread (a request, or the folder's worker) has its `pc` and its `work`.
`BumpCounter` and `FetchCounter` are the two statements of `allocate_barcode`
under the store's lock. `Layout` is everything that may refuse the page;
`Insert` is `create_job`; `Release` is the response or the file in the outbox.
The file is then moved (`MoveAway`). `CodeSpace` is the number of codes the
prefix leaves, so that an instance reaches its end. Ages are left out: they work
as in `HotFolder`.

### CutExtract

A step is one operator of a content stream. `frames` are the interpreters at
work, the last one running: its `stroke` and `fill` colorants, the colours that
`q` has `saved`, and the stack `bdc` of its sections. `ocCutDepth` is the one
counter they share, `found` the kinds of paths collected. `BeginForm` starts an
interpreter with resources of its own and no colours, as the code does;
`EndForm` drops it with its stacks, and keeps the counter. Streams are
arbitrary: a `Q` or an `EMC` may have no partner. Each frame keeps the `log` of
its operators; the properties read from it what is in force by the PDF's rules
(the colour of the innermost unmatched `q`, the sections that are open), and do
not use the interpreter's own state. `Paint` is any
painting operator of `Paints`, whose path may be empty; the operators that are
counted are the others.

### PathWalk, MarkLayout and CutJob

Coordinates are integers, in fractions of a step: a unit is a thirty-second of a
step in the instance, so that flattening can halve curves exactly to its depth,
and comparisons with distances are made in squares. `RoundDiv` is Python's
`round`, halves to even. `PathWalk` has the two walks the code has, one for each
converter (`CutWalk` ignores an operator without a current point, as the code
does). `MarkLayout` translates the constants, guards and zones of `marks.py`.

A job is a page, with its `entry` (`print` or `import`), the size of its media
box, and its trim `box` as the page is shown: of a page that is turned by a
quarter, with width and height exchanged. The code lays a sheet out in the media
box (cut_extract.py 323-340), and `add_overlay` fits the overlay into the trim
box (print_prepare.py 129): `Stretch` and `PrintedAt` are that fitting, and the
cutter of `OnSheet` starts from the mark as it is printed. `Band` is the Start
Mark, the bars and the text in letters beside them, whose length is the constant
`TextLen`. Objects come as pdfplumber lists them, lines, rectangles, curves
(`Listed`); the code's branches for objects without a path or points are left
out, since the pinned pdfplumber 0.11.5 gives every object its own. The steps
are the stages: `Read`, `LayOut` (the guards and keep-clear zones),
`MoveToFrame` (the check that the cut is inside the marks), `RoundSegment` (one
at a time, with the deduplication), `BeginTour` (with the TB24 of a sheet),
`StartChain`, `Extend` and `EndChain` (an iteration each of the tour's loops,
and `flush_draw`), `Finish`. Every check that refuses a page leads to `refused`.
The pipelines of sheets and imports share the last part, as they do in the code.

### Outbound

Each cutter's worker is at one exchange (`at`), in one `phase` of
`_send_bytes_with_retry`; `waited` is `waited_ms`, and `handed` counts how often
the exchange has sent its whole command. An event is a record with the state of
its thread: `trying`, `waiting` (the pause between attempts), `delivered`,
`failed`, or after a restart `gone` or `past`. `got` says whether the receiver
has it, which the server does not learn when the answer is lost. The job's own
bytes are not an exchange of this module: `sends` counts them when they have
left, and that they are repeated after a broken send is a fault of `DataLink`
(`partial`). `DataLink` looks at the content of the exchanges, and `Outbound` at
their repetition: the answers here are a choice.

## 3. The runs

| Run | Checks | Instance |
|---|---|---|
| `data_link_main` | `Inv`, `DeliversTheSelection`, `OfferMatchesScan`, `CutsAreRegistered`, `TwiceOnlyIfLost`, `ImplementsScanCycle` | two barcodes, three rows, lists of two, all faults but `outrun`, no `info` |
| `data_link_live` | `ScanIsAnswered`, `NoSilentLoss`, `Rearms`, `InfoStaysOut` | one barcode, two rows, fair; faults `send`, `reply`, `reject`, `store`, `partial`, `outrun`, `rival`, `info` |
| `data_link_twice_on_lost_poll` | `OneDelivery`, violated | `read` only |
| `lifecycle_machine` | `Inv`, `OnePoller`, `StopMeansStopped`, `StartTakesEffect` | three processes, two callers each, crashes, fair |
| `hot_folder_folder` | `NoHalfRead`, `OneJobPerDrop`, `PairedRight`, `FiledOnce`, `DropsSettle`, `SidecarsSettle` | two names dropped once, five faults, fair |
| `hot_folder_half_read` | `NoHalfRead`, violated | one name, dropped twice |
| `print_threads` | `Inv`, `MintedOnce`, `SheetsAreRegistered`, `TwiceOnlyIfSpoilt`, `FilesLeave` | two designs, two threads, all faults, three codes, fair |
| `print_twice_on_crash` | `HandledOnce`, violated | `crash` only |
| `cut_extract_page` | `DepthCounts`, `LayersExact`, `ContourExact`, `SourceTrue` | four operators, three nested streams |
| `cut_extract_device_colour` | `SpotMeansCut`, violated | the same resources |
| `cut_job_jobs` | `CutsEachLineOnce`, `PassesClose`, `CutsInsideTheMarks`, `CutsWherePrinted`, `MarksAreClear`, `CurvesAreFollowed` | paths of four operators, up to four lines, boxes, sheets at the bounds, with bleed and turned |
| `outbound_scans` | `OneWholeCommand`, `CountsAreTrue`, `ToldWhatWasSent`, `WorkersReturn`, `EventsEnd` | two cutters, two scans, one restart, fair |

Type correctness is proved for every module (section 4), and is a part of the
three `Inv`; no run checks it on its own. The auxiliary properties `ListsAgree`,
`StatusIsTrue`, `CommandsShort`, `WaitsWithinBudget` are proved as well.

### What they show

**Data Link.** With every fault but `outrun` the cutter is only offered jobs of
the barcode it scanned, what arrives is what the operator picked, ESC.d5 and
ESC.d6 were acknowledged in this cycle before, and a worker that serves indexes
the list the cutter shows. The refinement of `ScanCycle` adds that the list and
the pick do not change once made. A job is sent a second time only when a status
poll failed after the first, or a send broke off: no rejection, lost reply,
restart, flag or rival does it. A scan whose status 2 the worker can tell from
the one it read last, and a determined job, either get their answer or leave the
worker in standby, where the status page shows it, and standby ends with the
next scan that lasts for a poll; all of it once requests of `/cutter/info` have
come to an end (`RequestsEnd`), each of which may cost the worker a poll or an
exchange. `/cutter/info` is let in while a handler runs only if a poll has
failed since the worker read the scan's status 1.

**Hot folders.** With crashes, failed imports, inserts and moves, a drop makes
one job, is filed once and leaves the inbox as soon as failures end (`Calm`);
a sidecar does so unless it was parted from its PDF. A print design makes a
second job only after a crash or when its file could not even be moved to the
error folder.

**Cut paths.** Whatever is nested or unmatched, the shared depth is the number
of cutting sections on the interpreters' stacks, and of those that were on the
stack of a form when it ended. A path is collected exactly when it is in a
cutting layer or in a cut colour, where streams only use `CS` and `cs` and forms
are not called with a cut colour in force. The source that is reported is that
of the paths which are cut paths by the PDF's rules, and a page without any is
an error, under the same hypothesis for all that was painted, and as long as no
form has left a cutting section open (`strayed`); `cut_extract_device_colour`
shows what becomes of it otherwise.

**Programs.** Every line of a page is cut once, whatever the page draws twice,
backwards or in pieces; where every point is the end of an even number of lines,
as along closed contours, the tool is lifted where it was put down; a sheet that
is accepted is laid out with marks, barcode and text that fit; a sheet whose
trim box is the media box is cut where its artwork is, to half a step, through
the printed mark, the vector of ESC.d5, the frame of the marks and the rounding,
and its artwork is clear of all that is printed over it (`BoxIsLaidOut`, which
the code does not check: see below); a flattened curve lies on the curve and
skips nothing beyond the tolerance.

**Outbound.** An exchange sends its whole command once at most. Every worker
comes back from every scan, even if no delivery thread ever moves. If attempts
end, events do; the counters on the status page account for all of them, and
every job sent is told of once, but for a restart in between.

**Where the documentation says more than the code does** (a run each):

* One failed poll stores status -999, from which 4 is a legal transition, and
  does not enter standby. A job that was sent is sent again
  (`data_link_twice_on_lost_poll`).
* An age is that of the listing. A PDF overwritten before its turn is read
  half-copied (`hot_folder_half_read`).
* The print folder inserts before it moves, in the order the cut folder's own
  comment warns of. A crash between them makes a second job and a second
  barcode (`print_twice_on_crash`).
* The operators of device colours are not followed: a path in black is collected
  as cut when a cut colour was selected before (cut_extract.py 204-210, against
  the docstring, 9-11; `cut_extract_device_colour`).

**Also met while modelling** (where a property and a constant are given, TLC
finds the violation with them; these are not among the runs):

* A worker that finds the lock file held ends for good; when the other server
  goes, nobody polls: `LastOnePolls` under `FairSpec` of `WorkerLifecycle`.
* `sendall` may fail after a prefix, and the retry sends the job again, though
  `SendError` says "Safe to retry": `OneDelivery` with `partial`.
* A scan that begins while a handler is between ESC.d2 and ESC.d3 is offered the
  jobs of the sheet before: `OfferMatchesScan` with `outrun`.
* A failed poll makes the published status -999, which lets `/cutter/info` in
  while a handler talks to the cutter. It takes no fault of the network: a poll
  that meets an open request fails too, and the next one starts a handler with
  -999 published, so that one request makes way for another. That no request is
  open while a handler runs, which the docstring says (main.py 378-380, "Refused
  while a scan cycle is active"), is refuted by `info` alone, and so is
  `OneDelivery`. `InfoStaysOut` is what is left of it.
* A scan that reaches status 2 before the next poll, when the worker has read
  status 2 last, is no transition (dls_worker.py 275) and gets no list, though
  the worker is not in standby: `ScanIsAnswered` without `current # 2`.
* The overlay is fitted into the page's trim box, but laid out in its media box,
  and without its rotation (print_prepare.py 91-96, 126-129): on a sheet with
  bleed, or turned by a quarter, the marks are printed beside the place the cut
  is measured from, and on artwork, though print_prepare.py 8-10 says that print
  and cut cannot drift. TLC refutes `CutsWherePrinted` and `MarksAreClear` on
  the sheets `Trimmed` of `MCCutJob` when `BoxIsLaidOut` is TRUE.
* The text of a code is longer than the room kept for it: "F00000001-F" is 25.4
  mm in Helvetica-Bold 12 and marks.py 103 keeps 25 mm, so that 0.4 mm of it are
  beyond the edge of the narrowest sheet. `SheetReadable` asks for all of it
  where the sheet is wider by as much.
* Bytes that are sent and lost are reported as sent: `NoSilentLoss` with
  `vanish`.
* A submitter may name a barcode that is minted later for another design:
  `MintedOnce` with `NamedCodes = {1}`. Hence the hypothesis of
  `MintingCorrect`.
* The error of a wrong step size, which docs/data-link-protocol.md calls
  persistent, is cleared by the first scan (`Arm`): it is only set in the
  handshake.
* A status above 7 is accepted and stored (protocol.py 61-67), after which the
  way back to a known one is an illegal transition. What a firmware with such
  statuses does between them is not described anywhere, so it is not modelled.
* A sidecar that comes after its PDF was taken stays in the inbox:
  `SidecarsSettle` with `late`.
* A crash between moving a PDF and its sidecar leaves the sidecar behind, and
  the next PDF of the name takes it for its own (ingest_worker.py 215).
* When an insert fails after the files were moved, and the name was used again
  meanwhile, the error handler takes the new drop's files, and a sidecar taken
  this way leaves its PDF to be imported without metadata: `PairedRight` with
  `MaxDrops = 2` and `insert`.
* A form that leaves a cutting section open makes everything after it a cut path
  (`leaked`), and a form that is called with a cut colour in force does not
  inherit it, as the PDF reference says it does.
* With `SEND_RETRY_INTERVAL_MS = 0` the budget is never used up: the constant's
  assumption excludes it.

### The bounds

*DataLink.* Two barcodes tell a right job from a wrong one; three rows with
lists of two make a list that does not hold all the jobs; a row may be deleted
and another created between any two exchanges. Two deliveries are one more than
allowed. A cycle is forgotten at the next scan, so the number of scans is not
bounded. `data_link_main` leaves out `info`, whose requests make polls and
exchanges fail, as `read` and `send` make any of them (the proofs include it).
`data_link_live` has one barcode, as its properties are not about which job is
sent. It leaves out `vanish`, which refutes `NoSilentLoss` (section above),
`read`, as a worker whose polls always fail answers nothing (here those fail
that meet an open request), `flag`, as a cutter may flag the server for ever and
is then never served, and `crash` and `stop`, as a worker that is always
restarted never gets to its poll; `InfoCorrect` is proved with all of them.
*WorkerLifecycle* has no counters; three processes leave two that compete when
one holds the lock. *HotFolder.* `MinAge = 2`, `PollWait = 1`, `MaxBusy = 1`
give each of the three comparisons a value on both sides of it, and a poll that
lasts long enough for an age to be stale; ages are capped where no comparison
can tell them apart. *PrintPrepare.* Two designs and two threads let both mint
at a time, and three codes with four mints let the retries after failures reach
the end of the counter. *CutExtract.* Paints are free, and four operators are
enough for a colour to be saved, changed, restored and missed, or for a form in
a form to open or close a section for its callers; page and form use the same
two names for different things. *CutJob.* `MaxPairs = 2` splits chains,
`MaxSegments = 5` refuses some pages, `FlattenDepth = 2` and a tolerance that
some curves meet and others do not; four lines among three points contain every
repetition, closed and forked tours; the sheets take every bound of `marks.py`
from both sides, with the text of 25.41 mm. The 200,000 states are for the most
part different pages. *Outbound.* A budget of two waits, the code's three
attempts, two cutters with a scan each or one with two.

### Deadlock

The cutter, and the processes of `WorkerLifecycle`, always have a step. In
`HotFolder`, `PrintPrepare`, `CutExtract` and `Outbound` nothing is left to do
when all drops, operators or scans are used up, so `CHECK_DEADLOCK` is off
there. `CutJob` has a step `Returned` for a job that is done or refused, and a
job that stopped anywhere else would be reported.

### Fairness

* `WF_vars(Worker)` in `DataLink`, `HotFolder` and `PrintPrepare`: a thread that
  is started runs; every blocking call of it has a timeout, and its loops catch
  all exceptions.
* `WF_vars(InfoQuery)`: the endpoint's exchanges have timeouts. Nobody is
  assumed to stop calling it: that they do at last is the hypothesis
  `RequestsEnd` of the three properties.
* `WF_vars(Thread(p))` and `WF_vars(Joined(p))`: threads run, a join returns.
  Nobody is assumed to call, to crash or to boot.
* `WF_vars(Tick)`, and weak fairness of the producers that have begun a file:
  time passes, and a copy ends. Nobody is assumed to drop a file.
* `WF_vars(Work(c))` for each cutter of `Outbound`: its worker's thread runs.
  Delivery threads are not assumed to: that their attempts end, which
  `urlopen`'s timeout is there for, is the hypothesis `AttemptsEnd` of
  `EventsEnd`.
* `WF_vars(Prepare(p))` for each caller. Weak fairness is enough for the lock
  because the calls of an instance are finite: the lock is free for good at
  last.

Nothing is assumed of the cutter and its operator, who may be faster than the
worker's polls: a status may come and go unseen. `ScanIsAnswered` and `Rearms`
therefore say in their premises which scans they are about.

## 4. The proofs

All theorems are checked by TLAPS for every value of the constants that
satisfies the module's assumptions.

| Theorem | States | Under |
|---|---|---|
| `DataLink_proofs!TypeCorrect` | `Spec => []TypeOK` | |
| `SafetyCorrect` | `Spec => []Inv` | `"outrun" \notin Faults` |
| `DeliveryCorrect`, `OfferCorrect`, `RegistrationCorrect`, `ListsCorrect` | the four safety properties | the same |
| `SentOnce` | `Spec => []TwiceOnlyIfLost` | the same |
| `CycleImplemented` | `Spec => ImplementsScanCycle` | the same |
| `InfoCorrect` | `Spec => InfoStaysOut` | |
| `WorkerLifecycle_proofs!LockCorrect` | `Spec => []Inv` | |
| `OnePollerCorrect` | `Spec => []OnePoller` | `Locked` |
| `StopCorrect`, `RunningCorrect` | `Spec => []StopMeansStopped`, `Spec => []StatusIsTrue` | |
| `HotFolder_proofs!TypeCorrect`, `OneJobCorrect` | `Spec => []TypeOK`, `Spec => []OneJobPerDrop` | |
| `WholeCorrect`, `FiledCorrect` | `Spec => []NoHalfRead`, `Spec => []FiledOnce` | `OneAtATime`: neither `reuse` nor `vanish` |
| `PairedCorrect` | `Spec => []PairedRight` | `InTime`: `OneAtATime`, no `late`, and `insert` only if `MaxDrops = 1` |
| `PrintPrepare_proofs!SafetyCorrect` | `Spec => []Inv` | |
| `RegistrationCorrect`, `OnceCorrect` | `Spec => []SheetsAreRegistered`, `Spec => []TwiceOnlyIfSpoilt` | |
| `MintingCorrect` | `Spec => []MintedOnce` | no named code is a number |
| `CutExtract_proofs!TypeCorrect`, `DepthCorrect` | `Spec => []TypeOK`, `Spec => []DepthCounts` | |
| `LayersCorrect`, `ContourCorrect`, `SourceCorrect` | `Spec => []LayersExact`, `Spec => []ContourExact`, `Spec => []SourceTrue` | |
| `CutJob_proofs!LayoutReadable` | a layout that fits is readable, its text included, and clear where the zones are | |
| `LinesCorrect`, `PlaceCorrect` | `Spec => []CutsEachLineOnce`, `Spec => []CutsWherePrinted` | |
| `CurvesCorrect` | `Spec => []CurvesAreFollowed` | |
| `TypeCorrect`, `CommandsCorrect`, `InsideCorrect`, `MarksCorrect` | `TypeOK`, `CommandsShort`, `CutsInsideTheMarks`, `MarksAreClear` | |
| `Outbound_proofs!TypeCorrect`, `OneWholeCorrect`, `BudgetCorrect`, `CountsTrue`, `ToldCorrect` | `TypeOK`, `OneWholeCommand`, `WaitsWithinBudget`, `CountsAreTrue`, `ToldWhatWasSent` | |

*DataLink.* None of the safety properties is inductive alone: whether a position
means the same job to the worker and to the cutter depends on how the list was
taken, and whether the row is that job depends on ids never being given out
twice. `Inv` adds `StoreInv` (ids are unique, and a row that was queried and is
still there is unchanged), `CycleInv` (what the cutter has at each status) and
`HandlerInv` (what holds at each `pc`). The proof has one step per action.
`outrun` is excluded because the code does not tie the answer of ESC.d2 to the
cycle ESC.d3 is sent in; the hypothesis is therefore about the operator, who
does not scan again within one handler. `SentOnce` uses a second invariant,
which says that a worker that is about to send has not sent, or `lost` is true.
`InfoCorrect` needs no cycle, only what the published status says (`InfoInv`):
as long as no poll has failed since the last status 1 it is known, and it is not
0 while a handler runs, because 2 and 4 do not follow 0. It holds under every
fault, `outrun` included: what a fault makes possible goes through `blind`.

*WorkerLifecycle.* `LockIsHeld` says that the holder of the lock file is the
process that polls; `OnePoller` follows since the file has one holder.
`StopMeansStopped` only speaks of moments without a join; it becomes inductive
as `StoppedInv`, which drops that condition, and needs `DownIsQuiet` for a boot.

*HotFolder.* `OneJobPerDrop` holds under every fault. `Past(s, g)` says that
drop `g` of a stem was begun, is not to come again, and is not in the inbox,
where there is at most a later one: no step undoes it. What was moved or
inserted is past, and a PDF that is there is later than all of them (`DropInv`);
what is about to be inserted is later than all jobs (`WorkInv`). `WholeCorrect`
needs no clock: a copy is never as old as `MinAge` (`FilesInv`), so a candidate
that is old enough was whole when it was listed, and stays as it is, because
only the worker takes files out and each stem is in the queue once (`QueueInv`).
The hypothesis is what `hot_folder_half_read` drops. `PairedCorrect` needs the
clock: as long as a drop owes its sidecar, its PDF is younger than `MinAge +
PollWait` (`StemInv`), so a candidate that has waited that long when it was
listed is owed none, at its turn either (`WaitInv`), and the worker takes up a
PDF with a sidecar exactly if it was dropped with one. From then on the stem is
held: its sidecar is there, or it is not dropped again, so that what is read and
moved belongs to this drop (`HandInv`). An insert that fails is the exception,
since its files have left and the name is free: hence the hypothesis, and the
counterexample of section 3.

*PrintPrepare.* `CodeInv` says that minted codes are behind the counter, and
that a thread between minting and inserting is the only one with its code;
`LockInv` that only the thread between the counter's two statements has the
lock. `RegisteredInv` relates the sheets to the jobs. `OnceCorrect` has an
invariant of its own: one thread has a design, and a design that is unused, in
the inbox or not yet inserted has no job, unless it is spoilt.

*CutExtract.* `DepthCounts` is inductive once the stacks have types: a step
changes the stack of the last frame, and the count of its cutting sections as it
changes the depth. The lemmas are about the cardinality of the open sections.
The three theorems about what is collected compare the interpreter's stacks with
what the frames' logs say by the PDF's rules, where the nesting level of `q` is
a recursive function of the log. `FramesFit` says that they agree, frame by
frame: the stack of colours is that of the levels that are open, the section
stack that of the sections. One operator extends the log by one entry, and what
the rules say of the shorter log does not change; both follow from the recursion
having one solution (`Induction!RecursionUnique`). `SourceInv` carries the
agreement over to what was collected on the way.

*CutJob.* `CutsInsideTheMarks` needs the segments to be inside the frame,
rounding to be monotone and the corner to be rounded in the same way;
`MarksAreClear` is linear arithmetic about the layout, done once
(`LayoutReadable`), that no stage changes the job, and that the fitting of the
overlay leaves it in place where the box is the one laid out
(`PrintedAsLaidOut`). `LinesCorrect` has two halves. The first is about the
walk: both converters keep a record of where the path stands and what they have
found, the reference says which lines the path draws, and an induction over the
operators shows that after each of them the two agree. An import's shortcut for
rectangles, four sides of the bounding box, is compared with the closed path it
stands for. The second is the invariant `CutInv`: the rounded segments are those
of the page, each line once whatever its direction (`Reading`); the commands
written and the chain in `draw` have drawn each of them that is not unvisited,
so that writing a chain in batches that share a point loses nothing (`Drawing`);
the tool goes to ends of lines only (`Going`). That each line is drawn once is
counted by a bijection between the drawn indexes and the lines of the commands.
TLC checked `CutInv` on the instance of `cut_job_jobs` before it was proved.
`PlaceCorrect` adds that a program goes to ends of its lines only, where the
first mark is printed, and the arithmetic of the vector of ESC.d5, which is
exact, and of half a step of rounding. `JobsAssumption` is assumed of `Jobs`:
the objects of a page are listed paths with bounding boxes, and what an import
takes for a rectangle is one, as `page.rects` of pdfminer is (pdf_to_gpgl.py
227-228). TLC evaluates it for the jobs of the instance. `CurvesCorrect` is
about the page alone, which no step changes. A point of a half is a point of the
whole, at twice as many parts (`GridHalves`), so that the samplings of both
halves make one of the whole (`JoinFollows`), and an induction over the levels
that are left goes up from the chords. The chord of a flat curve is near all of
it, because a point of the curve is a weighted mean of its four: that two points
are near a segment says that each has some point of it within the tolerance, and
the mean of those is a point of it, within the tolerance of the mean
(`NearPoint`, `NearBetween`; the Cauchy-Schwarz inequality, in whole numbers).
`CurvesAssumption` says what makes the model's division by two that of the code:
the points of a page's curves differ by multiples of the cube of the finest
number of parts, so that no half is rounded.

*Outbound.* The invariant relates `handed` to the phase (it is 0 until the reply
is awaited, and an exchange that waits for one never sends again), `waited` to
the budget, the counters to the cardinalities of the sets of events, and `sends`
to the events told.

*Induction.* The library's induction theorems take an operator as a parameter,
which the installed provers cannot instantiate. The lemmas of this module speak
of sets and functions instead: a set of naturals has a least element, so a set
that contains 0 and each successor has them all (`LeastNatural`, `InductionTo`);
a recursive function of the naturals exists and is the only one
(`RecursionExists`, `RecursionUnique`). What a recursive function or a fold
computes is thereby within reach.

Only model-checked: all liveness properties (`ScanIsAnswered`, `NoSilentLoss`,
`Rearms`, `StartTakesEffect`, `DropsSettle`, `SidecarsSettle`, `FilesLeave`,
`WorkersReturn`, `EventsEnd`), as fairness and ENABLED are out of the prover's
reach; and `PassesClose`, which is about how often a tour passes each point.

## 5. Not modelled

Formatting and parsing of messages (whether a reply is intelligible is a
choice); the HTTP layer, validation and authentication; configuration, whose
ranges are the assumptions on the constants; the status page and the test
sheets, which keep no state of the system. Of the conversions: floating point
(the arithmetic here is exact, so that an error in the last place of a float is
not seen), the patterns of Code 39 characters and the value of the check
character (their length is modelled), and pdfminer's own work. Moving a file is
atomic, which it is on one file system. SQLite's transactions are atomic and
durable. In the model a crash ends all threads of a process at once.

## 6. Plan

Done: the two machines of the Data Link, the life cycle, both hot folders, print
preparation, cut path extraction, both conversions, and what goes out. Left, in
this order:

1. The intake of jobs through the API (main.py 150-365): which fields a create,
   an import and an upload check, in which order, and what a failure leaves.
2. `DataLink` together with `Outbound`: the retry loop inside the handlers, so
   that `partial` is a result of it and not a fault.
3. The theorems of `HotFolder` under `vanish`, where a stem is dropped once.

# MediaPipe Space Invaders: a TLA+ verification project

The program is a Space Invaders game in C++ (SFML) whose ship is steered by a
hand in front of the camera. A second thread runs the MediaPipe hand tracking
graph and publishes the landmarks of the hand; the game loop reads them in every
frame. The game is the 1369 lines under `src/src/`. MediaPipe is vendored; a small
wrapper (`libmp`) stands between the two. This project models the game, the part of
the wrapper it calls, and of MediaPipe the concurrent core that the game's frames go
through: streams and timestamps, the output poller, the calculator node, the
scheduler, throttling, and the hand tracking graph with its feedback.

## 1. Inventory

The game:

| Component (source) | State | Operations | Module |
|---|---|---|---|
| Hand tracker (`HandTracking/HandTracker.{h,cpp}`, and its caller in `main.cpp`) | published landmarks, mutex, stop flag, camera, thread | `init`, `startHandTrackingThread`, `process`, `parseLandmarksFromPacket`, `getHandLandmark(s)`, `isFistClosed`, `convert`, `close` | `HandTracker` |
| LibMP wrapper (`mediapipe/.../libmp/`) | graph object, images in flight, poller queue | `Create`, `AddOutputStream`, `Start`, `Process`, `WaitUntilIdle`, `GetOutputPacket` | `LibMP` |
| Player (`Entity/Player.{h,cpp}`) | position, velocity, destination, spawn position, weapon flag and counter, bullets, lives, state | `update`, `updateMovement`, `move`, `shoot`, `die`, `setDestination`, `setState` | `Player` |
| Bullet (`Entity/Bullet.{h,cpp}`) | position, speed, state | `updateBullet`, `hide`, `getBoundingBox` | `Bullet` |
| Monster cluster (`Entity/MonsterCluster.{h,cpp}`, `Entity/Monster.{h,cpp}`) | rows, two edges, direction, weapon counter, bullets, kill count | `addRow`, `setPosition`, `move`, `shoot`, `updateBullets`, `kill` | `MonsterCluster` |
| Collisions (`GameProcessing/Collisions.{h,cpp}`) | cooldown after a death | `checkCollisions` | `Collisions` |
| Score, top ten file (`GameProcessing/Score.{h,cpp}`) | points, kills, `top10.txt` | `addScore`, `addEnemyKilled`, `reset`, `saveTop10`, `loadTop10` | `Score`, `TopScores` |
| Game loop (`main.cpp`) | phase of the frame, window | poll, `detectHandMovement`, `update`, `move`, `checkCollisions`, draw | `GameLoop`, `Collisions` |
| Drawing, textures, fonts | — | — | not modelled (output only) |

MediaPipe (`mediapipe/mediapipe/`):

| Component (source) | State | Operations | Module |
|---|---|---|---|
| Timestamps and streams (`framework/timestamp`, `input_stream_manager`, `output_stream_manager`, `output_stream_shard`) | queue, bound, limit of a stream; bound of an output | add, raise the bound, pop by timestamp, close, propagate to mirrors | `Timestamp`, `InputStreamManager`, `OutputStreamManager` |
| Output stream poller (`framework/graph_output_stream`, `output_stream_poller.h`) | stream, mutex, condition variable, error flag | `Next`, `QueueSize`, `Notify`, `NotifyError`, `Reset` | `OutputStreamPoller` |
| Calculator node (`framework/calculator_node.cc`, `input_stream_handler.cc`, `output_stream_handler.cc`, `calculator_context_manager.cc`, `stream_handler/in_order_output_stream_handler.cc`) | status, scheduling state, contexts in flight, completed timestamps, propagation state | `CheckIfBecameReady`, `SchedulingLoop`, `ProcessNode`, `PostProcess`, `PropagationLoop`, `EndScheduling`, `CloseNode` | `CalculatorNode` |
| Scheduler (`framework/scheduler.cc`, `scheduler_queue.cc`) | state, count of active queues, queues and their tasks, sources by layer | `Start`, `HandleIdle`, `AddNode`, `RunNextTask`, `Pause`, `Resume`, `Cancel`, `WaitUntilIdle`, `CleanupAfterRun` | `Scheduler` |
| Throttling (`framework/calculator_graph.cc`, `input_stream_manager.cc`, `scheduler.cc`) | sizes and limits of queues, full streams per graph input stream, the scheduler's count of them | `AddPacketToInputStream`, `CloseInputStream`, `UpdateThrottledNodes`, `UnthrottleSources` | `Throttling` |
| Hand tracking graph (`modules/hand_landmark/hand_landmark_tracking_cpu.pbtxt` and its calculators) | streams of the graph, the loopback's queues, the loops' own time | `Process` of Gate, HasMinSize, Clip, Association, BeginLoop, EndLoop, PreviousLoopback | `HandGraph`, `PreviousLoopback`, `Association`, `LoopCalculators` |
| Rest of MediaPipe | — | — | not modelled, see section 5 |

How the parts interact. `main` owns everything. In each frame it polls the
window's events, asks the tracker for the wrist and the fist
(`detectHandMovement`), then calls `player.update`, `cluster.move` and
`checkCollisions`, which reads and writes the player, the cluster and the score,
and draws. The tracking thread shares `frameHandLandmarks` with the loop under
`handMutex` and the flag `isTracking` under nothing. It adds each image to the
graph (`AddPacketToInputStream`, throttled), waits until the scheduler is idle,
and takes the answer from the poller. In between the graph's workers run its
nodes: a packet added to a stream notifies its node, whose scheduling loop hands
invocations to a scheduler queue, whose tasks run on an executor and write to
further streams.

What is hard here, and what makes each part correct:

* **Tracker.** Seven lock scopes per frame in the reader against a
  clear-and-refill in the writer; one packet taken per image from a queue another
  thread fills; an unsynchronised stop flag and a join; every start-up result but
  one ignored. Correct means: the reader never sees half a hand; what is
  published belongs to the image just taken; the thread is gone before its
  objects are; the window can always be closed.
* **Player.** A controller cut to whole pixels at a speed just below its dead
  zone; two triggers on one cooldown; a spawn position that every contact with a
  border moves. Correct means: the ship stays in the window, does not overshoot,
  comes to rest, and fires no faster than its rate.
* **Cluster.** Edges kept apart from the monsters, and a direction decided from
  them one frame late. Correct means: the edges are the outline of the rows, and
  the march goes from side to side.
* **Collisions.** Four objects change on a kill; the early return after it skips
  the rest of the frame. Correct means: the books agree, deaths keep their
  distance, a destroyed player comes back.
* **Poller.** The test of the stream and the wait are under different locks, and
  the packet is removed under neither. Correct means: no wake-up is lost, packets
  come once and in order.
* **Node.** Whoever comes finds somebody scheduling, or propagating, and leaves a
  mark instead of waiting. Correct means: no mark is overlooked, an input set is
  complete, results leave in the order of their inputs.
* **Scheduler.** Queues report their changes late and out of order; HandleIdle
  gives up its lock halfway. Correct means: the count is right but for reports on
  their way, the run ends when it may and not before.
* **Throttling.** Streams report late, too, and everyone may wait for everyone.
  Correct means: the books agree with the queues and no call waits for ever.
* **Graph.** A circle of nodes with several images on their way. Correct means:
  every image meets the hands of its predecessor, and the circle neither stalls
  nor stays open.

The hazards, each at its line and with the properties that would catch it, are in
`PROJECT.json`.

## 2. Modules and their correspondence to the code

```
LibMP <- HandTracker <- HandTrackerProofs, MCHandTracker
GameLoop, Bullet <- Player <- MCPlayer
GameLoop, Bullet <- MonsterCluster
Player, MonsterCluster, Score <- Collisions <- MCCollisions
Collisions <- GameProofs
Score <- TopScores <- MCTopScores
Timestamp <- InputStreamManager <- OutputStreamPoller <- MCOutputStreamPoller, PollerProofs
InputStreamManager <- OutputStreamManager <- CalculatorNode <- MCCalculatorNode, CalculatorNodeProofs
InputStreamManager <- StreamLemmas (the methods of a stream) <- PollerProofs, CalculatorNodeProofs
Scheduler <- MCScheduler, SchedulerProofs
Throttling <- MCThrottling, ThrottlingProofs
Association, PreviousLoopback, LoopCalculators <- HandGraph <- MCHandGraph, HandGraphProofs
abstract specifications: RateLimiter (instantiated by Player and Collisions),
                         InOrderFilter (instantiated by CalculatorNode)
```

**HandTracker** has a program counter per thread. `mpc` is the main thread:
`create`, `start`, `open` (the constructor and `init`), then per frame `poll`,
`wrist`, `size`, `tips` (once per landmark), `judge`, `frame`, and at the end
`close`, `join`, `done`; `exited` is `exit(1)` for a camera that does not open,
`crashed` an uncaught exception or a null dereference. `tpc` is the tracking
thread: `check`, `process`, `idle`, `parse`, `read`, `lock`, `fill`. A step that
takes and releases the mutex without touching anything else in between is one
action guarded by the mutex being free; the refill holds the mutex over several
actions. Of 21 landmarks the game reads six, so a hand is those six points.
`isTracking` is what `close` wrote, `trackingSeen` what the tracking thread reads:
the data race is a delay of unknown length between the two. The camera can be
lost at any time; the first `read` of an iteration then makes `cvtColor` throw,
the second gives an image without rows and columns. `snapshot`, `raced`,
`tracked` and `asked` are history variables and are read by no guard.

**LibMP** is the graph as its caller sees it: images in flight, answered in order
by `RunCalculators`; a packet only for an image that shows a hand; an error that
drops what is in flight. `graph` distinguishes a missing object, a graph not
started, a running one and a failed one. What happens inside is the subject of the
modules after `TopScores`.

**GameLoop** gives the order of the calls of a frame (`phase`) and a window that a
poll may resize.

**Player** writes both axes with the same operators: `Dir` (cut to whole pixels),
`Steered` (dead zone, full speed outside it), `Pushed` (keys), `Capped`, `Slowed`,
`Confined` (borders). `Update` is the whole of `Player::update`, in the code's
order: movement, physics, borders, cooldown, bullets. Floats are integers in units
of 1/`Px` pixel and products are truncated to the unit. The member `state` is not
set by the constructor, so it starts with either value.

**MonsterCluster** keeps rows of monsters and the two edges as the code does, with
`Move` the whole of `MonsterCluster::move`: monsters, weapon, bullets, edges,
direction. **Collisions** composes player, cluster and score; `CheckCollisions` is
split into the four ways the function can return. `FirstContact` is the order of
its nested loops.

`Player` also has a specification of its own (`PlayerSpec`) in which
`checkCollisions` is reduced to its possible effects on the ship, so that steering
can be checked with more inputs than the composition allows.

**RateLimiter** is the abstract promise of every cooldown in the game: at least
`Period` ticks between two shots. The weapon of the player implements it with
`Period = FireCooldown + 1`, the deaths of the player with
`Period = DeathCooldown + 1`.

**TopScores** plays, saves and lists games in any order. `saveTop10` is three steps
on the file. `main` calls none of it.

**Timestamp**, **InputStreamManager** and **OutputStreamManager** are operators on
records: the special timestamps around a short range, and each method of a stream
as a function from the stream to the stream, a result, and whether to notify.

**OutputStreamPoller** has three actors: the application in `Next` (`app`), the
writer that adds packets or bounds and then notifies, and a thread that records an
error. `NextTest` to `NextPop` are the steps of `Next` between its locks. Whether
bounds are observed is a variable chosen at the start.

**CalculatorNode** has one thread per input stream, which feeds it, and the workers.
`pc[t]` says where a thread is; the locals of the one thread that schedules are
`loop`, of the one that propagates `pr`. Every critical section (`status_mutex_`,
`timestamp_mutex_`, one stream's lock) is one action: `ReadStream` reads one stream.
`failed` collects the CHECKs of the code and the errors of streams. **InOrderFilter**
is what a node with one input promises: packets go in, and come out, or not, in
their order.

**Scheduler** counts the items of a queue by kind: to open, to work on, sources to
run. What a node does when it runs is arbitrary (`Emit`, `ProduceSidePacket`,
`UpdateThrottledNodes`, `Stop`, `Fail`). `owes[t]` is where a thread is in
`AddItemToQueue`, or the idle report it has still to make; `hi` where the thread in
`HandleIdle` is. Setting all queues running, or submitting their waiting tasks, is
one step.

**Throttling** has a feeding thread per graph input stream, a node that joins its
input streams, its workers and a reader of the outputs. `calls[t]` is the stream
whose callback a thread is in: the callback runs without the stream's lock. Claiming
the node and adding it to its queue, steps of their own in `CalculatorNode` and
`Scheduler`, are one step here.

**HandGraph** is the graph of the .pbtxt. A stream is its packets and its bound; a
chain of calculators that work time by time is one node (`Detect`, `Associate`,
`Body`); `BeginLoop` and `EndLoop` keep the time of their own that the calculators
keep; `RunLoopback` is PreviousLoopback (module **PreviousLoopback**) behind its
ImmediateInputStreamHandler, which latches a time per stream. What the neural
networks find is any vector of rectangles; of rectangles only matters which two
overlap (**Association**). Images come at even times, so that bounds can lie between
them. The loop over the palms inside `Detect` is its result, a vector of the same
time; the loop over the hands is modelled step by step.

## 3. Runs

| Run | Shows |
|---|---|
| `tracker` | both threads in every interleaving with a hand that comes and goes, a camera that may stop and a graph that may fail: `TypeOK`, `ReadsOneHand`, `PublishesCurrentImage`, `JoinedBeforeDestruction`, `NoShotWithoutHand`; `ClosingEnds`, `LoopKeepsPolling` |
| `ship` | keys, mouse and hand in a window that is resized: `ShipInWindow`, `NeverOvershoots`; `Arrives`: a destination that stays brings the ship to rest |
| `game` | the loop with shots, kills, deaths and resizes, contacts computed from the bounding boxes: `KillsAddUp`, `EdgesTrackMonsters`; `WeaponKeepsItsRate`, `DeathsKeepTheirDistance` (refinements of RateLimiter) |
| `march` | the loop in a window of fixed size with frames of uneven length: `TurnsRound`, `SweepsBothWays`, `Revives` |
| `poller` | `DeliversInOrder`, `AskedNeverWaits`, `NextReturns`, `BoundsAreReported` |
| `node` | `NoCheckFails`, `InputSetsComplete`, `NothingStranded`; `FiltersInOrder` (refinement of InOrderFilter); `Closes` |
| `scheduler` | `CountIsRight`, `QuitsAtRest`, `LayersInTurn`, `LeavesNothingBehind`, `IdleWhenTold`, `Terminates` |
| `throttling` | `BooksAreRight`, `QueuesBounded`, `CallsReturn` |
| `hand_graph` | `PreviousHands`, `NoOverlaps`, `BatchesComplete`, `EveryImageAnswered`, `GraphCloses` |
| `fist_comment` (violation) | the comment on `isFistClosed` does not hold |
| `top_ten_kept` (violation) | `saveTop10` loses the earlier scores |
| `sched_late_work` (violation) | a node can run after the scheduler has quit |

For every property of a passing run there is a seeded fault: an operator
"Mutant of X" before the definition X, with a plausible bug in it. Replacing
X by it makes TLC report the property.

### Findings

* `fist_comment`. The comment at `HandTracker.cpp:183-188` says that the fist is
  closed if the thumb is farther from the wrist than the other fingers,
  "otherwise not". The code tests whether the thumb's distance is the *first
  maximum*, so equal distances count as closed. As the size and each landmark are
  read under separate locks, the hand can vanish after the size was checked; the
  remaining reads give (-1,-1), all distances are equal, and the game shoots.
* `top_ten_kept`. `saveTop10` opens `top10.txt` for writing before it reads the
  old scores from it. Opening truncates, so the file only ever holds the score
  saved last, although `loadTop10` prints it as "Top 10 Scores:".
* `sched_late_work`. `AddNode` reads `has_error` before it pushes. If a node fails
  and finishes in between, HandleIdle finds the count at zero and quits, and the
  node that is then pushed runs in a terminated scheduler, against the comment in
  `Quit` (`scheduler.cc:184-185`). The `scheduler` run therefore keeps failing nodes
  away from applications that feed the graph.

### Observations without a run

Met while modelling; the runs above stay clear of them as stated.

* A node with parallel invocations *and* an offset: `ScheduleInvocations`
  (`input_stream_handler.cc:205`) prepares Close as soon as there is no active
  context, while the last invocation's thread may still be propagating a bound; the
  bound is then sent on a stream that has been closed. `MCNodes` has parallel
  invocations only without an offset, and offsets only without parallel invocations.
* `scheduler_queue.h:88-94` says that a count of zero guarantees an idle queue.
  Reports of "active" can be late, so the count can be zero while an item has just
  been pushed; `CountIsRight` states the exact relation, and `IdleWhenTold` is checked
  and proved with one application thread.
* The late report. `AddItemToQueue` pushes under the queue's lock and reports
  "active" after releasing it (`scheduler_queue.cc:133-152`). In a paused graph the item is
  not submitted by whoever pushes it, so `Resume` can hand it to the executor before the
  report, and the queue reports "idle" first, which `scheduler_queue.h:89-91` excludes. That
  "idle" takes back the "active" of the other queue, on which the node that made this one
  ready is still running: the count is zero, and if the inputs are closed the scheduler quits,
  without any failure. With `Graphs <- MCLateReport` in `MCSchedLateWork.cfg` TLC finds it
  in a behaviour of 18 states. It came out of the proof of `QuitsAtRest`: with one queue a worker that adds
  an item keeps that queue active itself, with several it does not.
  `TryToScheduleNextSourceLayer` stops and restarts the queues, too
  (`scheduler.cc:417-424`), and TLC finds the same where an application feeds a graph with
  sources on two queues. The `scheduler` run has neither.
* `HandleIdle` goes round its loop with `state_mutex_` held when a source of a lower
  layer is not open and the inputs are not closed (`scheduler.cc:144-151`): nobody
  else can then open it or close the inputs. In `MCGraphs` the late source is in the
  upper layer.
* `UnthrottleSources` sets the limit to the size it has read before plus one
  (`calculator_graph.cc:1237`), so that a limit can also shrink.
* With `num_hands` hands found already no palm is looked for, but with fewer the
  palms are added to the known hands: with two hands wanted, one known and two palms
  found there are three rectangles.

### Bounds

* Tracker: one hand, which appears, vanishes and is read halfway. It is an open hand, so
  that a shot can only come of a vector rewritten between two reads or of a lost
  camera, and any other violates `NoShotWithoutHand`. The safety properties are proved
  for any set of hands (section 4); the run of `fist_comment` has a fist, too. No counter is bounded. Time is not modelled.
* Lengths are scaled down and keep their order: the step at full speed stays below
  the margin (9.5 of 10 pixels in the code), the ship is larger than a step, a
  gap is as wide as a monster. In `ship` positions fall between pixels (`Px = 2`), so
  that truncation matters, and one hand point lies beyond the top border.
* `FarUp` and `FarDown` are where the flight of a bullet, which in the code goes on
  for ever, and the descent of the cluster are no longer followed. They lie beyond
  everything that can be hit. `MaxBullets` bounds the player's shots in a behaviour;
  two suffice for two bullets that reach one monster, and for a bullet that would go
  on through its target to the row behind it.
* `game` uses two monsters in a column, `march` a row of one and a row of two, so that
  the longest row is not the first. The cooldowns are 1 to 2 frames (10 and 50 in the
  code), enough for every branch of the counters.
* `poller` has three ordinary timestamps with all special ones around them, so that a
  packet can come before, between and after others, and at PreStream and PostStream;
  `node` is fed at two ordinary timestamps, and its bounds go up to Done. It has the three
  kinds of nodes at once: two streams with and without bounds processed, one stream with
  two invocations in flight.
* `scheduler`: two workers and one application thread, one or two queues, two layers
  of sources; `maxEmits` bounds packets, pauses and nodes made ready. Four graphs
  share the operations, since all of them in one graph are too many.
* `throttling`: queues of one packet; two feeders that wait for each other need two
  packets against one, a mirrored stream one more.
* `hand_graph`: three images, each on its way while the others are (one hand wanted),
  or two images and two hands; two rectangles that overlap and a third.
* `TopScores`: a list of two places; `MaxScore`, `MaxSaved` bound scores and saves.

Where a run covers several configurations (nodes, graphs, settings), the
configuration is a variable chosen in `Init` and never changed.

### Fairness

* The threads of the tracker and of the graph are weakly fair: the operating system
  runs them. Strong fairness of the main thread stands for the mutex: it is not a
  fair lock, but the tracking thread holds it only for the refill and spends a whole
  camera image outside it, so a reader that waits gets it. `SeeFlag` is weakly fair: a
  store to `isTracking` becomes visible, since the compiler cannot keep the flag in a
  register across the opaque calls of the loop body. Loss of the camera and errors of
  the graph are never forced.
* The game loop is weakly fair: it runs while the window is open. The input is not
  assumed fair; `Arrives` has the still hand as its premise.
* Framework: a thread goes on with a call it has begun, and workers take tasks (weak
  fairness). Nothing obliges the application to feed, close or cancel. In `Scheduler`
  closing a source is strongly fair: a source has finitely much to give. In
  `Throttling` fairness is strong because HandleIdle takes `state_mutex_` again and
  again, and absl's mutex lets a waiting thread have it one day; the application reads
  its outputs.
* `HandGraph`: every node that can run does (the scheduler's promise); the last
  conjunct of its `FairSpec` is weak fairness of `RunLoopback` with its enabling
  condition written out.

## 4. Proofs

### The tracker

`HandTrackerProofs` proves, for every set of hands, landmarks and sizes:

| Theorem | States |
|---|---|
| `TypeCorrect` | `Spec => []TypeOK` |
| `IInvHolds` | the inductive invariant |
| `ReadsOneHandHolds` | the reader never sees half a hand, and reads one hand unless another was published meanwhile |
| `PublishesCurrentImageHolds` | what is published belongs to the image of that iteration |
| `JoinedBeforeDestructionHolds` | the thread has left and the mutex is free when the tracker is destroyed |
| `NoShotWithoutHandHolds` | a frame shoots only if the image published last, when `isFistClosed` asked for the size, showed a hand; that hand was a fist, unless another was published meanwhile or the camera was lost |

Assumptions: `NoHand` is not a hand, landmarks are pairs of integers, sizes are
positive (`LibMPAssumption`, `HandTrackerAssumption`).

The safety properties are not inductive. `IInv` adds what they rest on:

* `InFlight` and `Answered`: outside `idle` nothing is in the graph, outside `idle` and
  `parse` the queue is empty, and in `parse` the queue holds exactly the answer to the
  image of this iteration (or nothing, from a failed graph). Without it a packet of an
  older image could be waiting when `parse` takes the head.
* `Threads`: the mutex is the tracker's exactly in `fill`; there is no thread before
  `open`; `done` implies the thread's exit.
* `Refill`: in `fill` the vector is a prefix of the hand being published.
* `Reading`: outside the mutex the vector is empty or whole, and unless rewritten it is
  still what the size was taken of; `reads` is a proper prefix in `tips`.
* `Sighted`: outside the mutex the vector shows the image tracked last (`Shows`), the
  size `isFistClosed` takes is that of the image it asked about, and it judges six points.
  With `ReadsOneHand` they are that image's points unless the vector was rewritten.

Each part has a lemma that a step preserves it (`TypeStep`, `ThreadsStep`,
`InFlightStep`, `RefillStep`, `PublishStep`, `ReadingStep`, `ReadsStep`,
`SightedStep`), with one case per action.

### The game

`GameProofs`, for ships, windows, rows, speeds and cooldowns of
any size:

| Theorem | States |
|---|---|
| `PlayerTypeCorrect` | `PlayerSpec => []PlayerTypeOK` |
| `ShipStaysInWindow`, `GameKeepsShipInWindow` | `ShipInWindow`, of the ship alone and in the whole game |
| `ShipNeverOvershoots` | `NeverOvershoots` (an action property) |
| `WeaponImplementsRate`, `GameImplementsRate` | the weapon implements `RateLimiter` |
| `DeathsAreRateLimited` | the deaths implement `RateLimiter` |
| `EdgesAlwaysTrack` | `EdgesTrackMonsters` |
| `MarchTurnsRound` | `TurnsRound`, in windows of steady width |
| `KillsAlwaysAddUp` | `KillsAddUp` |

Assumptions: those of the modules (`PlayerAssumption`, `MonsterClusterAssumption` ...: sizes
are positive, the step at full speed is below the margin), and for `MarchTurnsRound`
`SteadyWidth`, the premise of the `march` run: a cluster can be caught on both sides of a
window that has been made narrower than it. `ShipInWindow` speaks of each axis on which
the ship fits into the window; in a window narrower than the ship the two border checks
of the code contradict each other, and nothing is claimed.

The invariants. A frame sees the ship after `update`, so `ShipInWindow` follows from what
`Confined` does, the last change of the position, given the types. The refinements need
`WeaponInv` (the counter runs only while the weapon fires) and `DeathInv` (the counter of a
death stays within its cooldown): the abstract clock is computed from the counters and must
not run backwards when a trigger changes them. `EdgesTrackMonsters` needs `EdgeInv`: each edge
is reached by a monster and none is beyond it, dead ones included. `TurnsRound` needs how
far one frame can carry an edge beyond a border. `KillsAddUp` needs that every contact that
`FirstContact` can choose is of a living monster and a living bullet, and sums over cells
(`TotalUpdate`).

### The framework

| Module, theorem | States |
|---|---|
| `PollerProofs`: `PollerDeliversInOrder`, `PollerAskedNeverWaits` | `DeliversInOrder`, `AskedNeverWaits`, for every time line and every batch of packets |
| `ThrottlingProofs`: `BooksStayRight`, `QueuesStayBounded` | `BooksAreRight`, `QueuesBounded`, for every graph, limit and number of feeders |
| `SchedulerProofs`: `LayersStayInTurn` | `LayersInTurn`, for every graph and any number of workers and applications |
| `SchedulerProofs`: `CountStaysRight` | `CountIsRight` until `CleanupAfterRun` |
| `SchedulerProofs`: `QuitsAtRestUnraced` | `QuitsAtRest`, given `OneApp` and `Unraced` |
| `SchedulerProofs`: `RunsLeaveNothingBehind` | `LeavesNothingBehind`, given the same |
| `SchedulerProofs`: `CleanupFindsNothingPending` | `CountIsRight` to the end, given the same: the CHECKs of `CleanupAfterRun` hold |
| `SchedulerProofs`: `WaitsUntilIdle` | `IdleWhenTold`, given the same and no sources |
| `CalculatorNodeProofs`: `InputSetsAreComplete` | `InputSetsComplete`, for any number of streams, workers and invocations in flight, and packets at any timestamp a stream allows |
| `CalculatorNodeProofs`: `NodeInvariant` | the inductive invariant of a node |
| `CalculatorNodeProofs`: `NoWakeUpIsLost` | `NothingStranded`, in the same generality |
| `CalculatorNodeProofs`: `NoCheckEverFails` | `NoCheckFails`, for any number of streams, workers and invocations in flight, under the premise `Ordinary` |

Assumptions: threads, streams and queues are finite sets, and names of streams differ from
the names of the other threads (`SchedulerAssumption`, `ThrottlingAssumption`,
`TimestampAssumption`, `PollerAssumption`, `CalculatorNodeAssumption`). `NoCheckEverFails` has a
premise of its own, `Ordinary`, which every node of the game's graph and every one of `MCNodes`
meets. It asks that packets come at ordinary timestamps, as the frames do: LibMP counts them
up from one. It also asks that no node has both parallel invocations and an
offset: of such a node the property is false (see the observation in section 3).

The last four theorems on the scheduler have premises, too, which constrain the graph and
the application and no step of the scheduler. `OneApp`: one thread of the application drives
the graph. `Unraced` excludes the two races of section 3: nodes that
fail while the application feeds (`sched_late_work`), and a graph with several queues that is
paused, or fed while it has sources (the late report). In each of these cases TLC finds
`QuitsAtRest` violated. A graph on one queue, as the game's is, may be paused, fed and
cancelled and have sources in any number of layers. `WaitsUntilIdle` asks for what `scheduler.cc:273-279` asks of
the caller: no sources, and no other thread that adds packets. Every graph of
`MCGraphs` meets `OneApp` and `Unraced`, so the `scheduler` run checks what is proved.

The invariants:

* Poller: the queue ascends and ends before its bound (`Ascends`); what `Next` has seen at
  the head stays there until it pops, because nobody else pops. The lemmas of `StreamLemmas`
  on `AddPackets`, `SetNextTimestampBound`, `PopPacketAtTimestamp` and `CloseStream` say what
  each method of a stream does to an ascending queue; the node's proofs use them, too.
* Throttling: `BookInv` says of every stream that it is listed exactly when it is full, or
  that a thread still owes the report (`Listed`, `Truthful`), that the scheduler's count is
  the number of throttled input streams (`Counted`), and that the thread that grows a queue
  reports it (`GrowerReported`). `FeedInv` says that between asking and adding, the
  feeder's stream has room (`RoomLeft`) and that a full stream has been reported before its feeder
  asks again (`FeederReports`).
* Scheduler: `LayersInv` relates the layer being run to the sources that are queued, running,
  about to be queued (`RunInv`, `NamesInv`) and to the thread in HandleIdle (`HandlingInv`).
  `Ledger` counts: the items of a queue are those waiting for a task, the
  tasks submitted, and the tasks in threads' hands; `CountIsRight` then follows from who
  still owes a report. After `CleanupAfterRun` the ledger does not hold for every graph,
  because of the late work of finding `sched_late_work`, so `CountStaysRight` stops there;
  `CleanupFindsNothingPending` goes on, for graphs without the races.
* Scheduler at rest. That the count is zero does not by itself mean that the queues are idle:
  reports may be under way. `RestInv` says why it does when it matters. A worker adds
  items only while it runs a task, so that its own queue is active (`Callers`, with the
  ledger); the workers that owe the report "active" hold the tasks that keep the queue from
  being run before, owe it for different queues (`Apart`), and not in a ring, each for the
  queue that the next one works on (`Grounded`). So fewer reports are owed than queues are
  active, and `ZeroIsIdle` follows: if the count is zero, and neither the thread
  in HandleIdle nor the application is about to report, every queue is idle. The rest of it
  says when queues run (`RunningRight`), where the thread in HandleIdle can be
  (`Entered`), and that nothing is pending before the run, after it, and, with several queues,
  while a layer is activated (`AtRest`). `Finished` takes its place after
  `CleanupAfterRun`. TLC has checked the whole, `RestsInv`, on `MCGraphs`. The late report
  breaks `Apart`: whoever pushes into a paused queue owes the report, but somebody else
  submits the task.
* Node. `NodeInv` is the conjunction of seven parts, each with a lemma that a step keeps it:
  * `InputInv`: what was sent to a stream is queued there or has a context (`Received`); what
    the scheduler has read of a stream in its round still holds (`Seen`); queues, bounds and
    what was read lie above the times already taken (`Floor`, `TimeInv`). A set is filled only at a timestamp below
    every bound read, and bounds only grow: that is `InputSetsComplete`.
  * `RolesInv`: at most one thread schedules, and `sched` says whether one does.
  * `CountInv`: `inFlight` is the number of tasks queued and in hand, within its limit.
  * `CloseInv`: CloseNode is prepared once, when no other invocation is left.
  * `BooksInv`, `PropInv`: a context is queued, running or finished, and active until it is
    recycled; one thread at most propagates; if the earliest context has finished, somebody is
    there to send it. `CloseInv` rests on them: Close is prepared when no context is active.
  * `WakeInv`: unless somebody is about to look (`Looking`), the scheduler has seen the streams
    as they are, and once it has finished there is nothing to be run or an invocation is in
    flight, whose end is a notification. At rest nobody is about to look, so `NothingStranded`
    follows with `CountInv` and `CloseInv`.

  `CheckInv` adds what the outputs rest on, inductive together with `NodeInv`:
  * `IdleInv`: the scheduler tells a bound only while there is room for an invocation, and
    once Close is prepared no context is active. A node without parallel invocations therefore has nothing
    in flight while it propagates a bound (`NothingBeside`).
  * `OrdInv`: every time read, queued or run is an ordinary one.
  * `BoundInv`: a bound that is, or is about to be, propagated is a promise the inputs keep (`Told`: no
    earlier packet will be read and no earlier time run); the bound kept by the
    handler only grows, and whoever marks the propagation "pending" has brought a later bound or a
    finished invocation.
  * `OutInv`: until Close is prepared, the reader of the output has the manager's bound, that bound is
    a promise, and no result still to come (`Unsent`) lies before it.

  Every CHECK follows from one of these: a stream refuses only what lies before its bound, and
  what is sent is the earliest unsent result or a promise.

### The hand tracking graph

`HandGraphProofs`, for any number of images and hands, any finite set of rectangles,
any relation of overlapping, whatever the networks find, and every interleaving of the
nodes:

| Theorem | States |
|---|---|
| `HandGraphTypeCorrect` | `Spec => []TypeOK`: what each stream carries, and at which times |
| `HandsNeverOverlap` | `NoOverlaps` |
| `BatchesStayComplete` | `BatchesComplete` |
| `PreviousHandsHold` | `PreviousHands` |

Assumption (`HandGraphAssumption`): the rectangles are a finite set (in the code they are
made of floats), and `NoPacket` is neither a rectangle nor a vector.

The calculators are folds and filters of sequences, and the proof rules for induction
take an operator as a parameter. A fold is therefore reduced to its run, a function from
the step to the value so far (`FoldExists`, `FoldRuns`): it exists because the numbers up
to which there is a run have no greatest one below the length, and an invariant of the
run holds because a least step that breaks it would have a predecessor that does not.
Only the well-foundedness of the naturals is used (`LeastElement`). What
`AddElementToList`, `Collected` and `SendAll` give is proved on those runs.

The invariants:

* `NoOverlaps` is inductive with the types: `Apart` keeps what does not overlap with the new
  element, so appending it keeps a list without overlaps. It is also what bounds the
  length of a vector by the number of rectangles, and thereby the loop's clock: each
  rectangle overlaps with itself (`AssociationAssumption`).
* `LoopInv`, for `BatchesComplete`. The time inside the loop has nothing to do with that of
  the images, so the invariant says how the two meet. `ClocksRight`: the clock of
  `BeginLoop` is behind no time in the loop and never reaches Done. `Owned`: an item
  belongs to the vector whose end is the first at or after it. `InOrder`: what `EndLoop`
  has collected and what is still in `body` before the end of a vector are exactly what the
  body kept of that vector; the order of the packets in `body` is given by a rank.
  `Answers`: a vector whose end is gone has its answer, one whose end is pending has
  neither a packet nor a bound that denies it.
* `LoopbackInv`, for `PreviousHands`. The two inputs are latched separately, so the
  calculator may know an image long before the answer to the one before it, or the other
  way round. `HandlerRight`: what the handler has latched or given is final (`Fixed`: below
  the stream's bound). `MainRead`: between the image noted last and the time read there is
  no other. `SpecsRight`: the specs ascend, each waits for the image before its own (or for
  nothing), and nothing was sent at or after the first of them. `CandsRight`: a candidate
  is what LOOP says of its time, and ascends. `PacketsKept`: a packet that was read and
  is no candidate is older than everything any spec waits for. `Matched`: what has been
  answered was answered with the hands of the image before. Then a match takes the right
  packet, and dropping a candidate or giving up a spec loses nothing.

### Only model-checked

* Liveness (`ClosingEnds`, `LoopKeepsPolling`, `Arrives`, `SweepsBothWays`, `Revives`,
  `NextReturns`, `BoundsAreReported`, `Closes`, `Terminates`, `CallsReturn`,
  `EveryImageAnswered`, `GraphCloses`): needs fairness.
* `FiltersInOrder` of the node: its mapping sorts a set into a sequence
  (`SetToSortSeq`), and what that gives needs induction over data.

## 5. Not modelled

* Of MediaPipe's 220 000 lines most are numerics on images and tensors, motion
  tracking, GPU contexts, template and proto parsers, validators, tools, and solutions
  for faces, poses and objects. The game's graph runs little of it, and what it runs of
  the numerics is pure computation whose results the models leave arbitrary: there is
  no control, interleaving or failure in it for TLC to explore. The share of lines
  this project covers is therefore small and cannot become large; what it covers is
  what the game's frames go through.
* Of the framework: the set-up and validation of graphs, side packet generators, the
  executors (`ThreadPool`), `WaitForObservedOutput`, the executor on the application's
  thread, batching and late preparation in nodes, the other input stream handlers
  (fixed size, early close, barrier), flow limiters, which the game's graph does not
  have, profiling and counters.
* The destructor of `LibMPImpl`, image outputs and `SetOutputStreamMaxQueueSize`, which
  the game does not use.
* Drawing, textures, fonts.
* `MonsterCluster::removeMonster`, which nothing calls and which erases from a copy.
* The tracker captures the size of the window once; its `convert` therefore keeps the
  old scale after a resize. In the model the destination points of the hand are an
  arbitrary set, which includes those.
* Rounding of floats below the unit `1/Px`.

## 6. Plan

Done: the game (`LibMP`, `HandTracker` with proofs, `GameLoop`, `Bullet`, `Player`,
`MonsterCluster`, `Score`, `Collisions`, `RateLimiter`, `TopScores`) and the core of
MediaPipe under it (`Timestamp`, `InputStreamManager`, `OutputStreamManager`,
`OutputStreamPoller`, `CalculatorNode`, `InOrderFilter`, `Scheduler`, `Throttling`,
`PreviousLoopback`, `Association`, `LoopCalculators`, `HandGraph`), each with a run.

Proved: the tracker, the game, the poller, throttling, of the scheduler what holds of
every graph, the inputs, the wake-ups and the CHECKs of the calculator node, and every
invariant of the hand tracking graph (section 4).

Next: `NoCheckEverFails` for packets at PreStream and PostStream too.

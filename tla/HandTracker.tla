---------------------------- MODULE HandTracker ----------------------------
(***************************************************************************)
(* src/HandTracking/HandTracker.cpp and its caller in src/main.cpp: two    *)
(* threads over one mutex.                                                 *)
(*                                                                         *)
(* The tracking thread reads the camera, runs the MediaPipe graph on the   *)
(* image and refills frameHandLandmarks while it holds handMutex.  The     *)
(* main thread runs the game loop; each frame it reads the wrist and then  *)
(* asks isFistClosed, which takes and releases the mutex once per landmark *)
(* it reads.  The rest of the frame (main.cpp:87-91) does not touch the    *)
(* tracker and is a single step here.                                      *)
(*                                                                         *)
(* Of the 21 landmarks of a hand the game reads six (wrist and the five    *)
(* finger tips: indices 0, 4, 8, 12, 16 and 20); a published hand is the   *)
(* sequence of those six points, in pixels.                                *)
(***************************************************************************)
EXTENDS LibMP, Integers

CONSTANTS
  Landmarks,   \* Landmarks[h][k]: point k of hand h, scaled to the image
  Width,       \* cameraSize.x, the width of a camera image
  Height,      \* cameraSize.y
  WindowX,     \* windowSize.x, the width of the game's view
  WindowY,     \* windowSize.y
  CameraMayFail  \* whether the camera may stop delivering images

LandmarkCount == 6
Wrist == 1
Thumb == 2
OtherTips == 3 .. LandmarkCount

(* The value getHandLandmark returns when there is no such landmark.       *)
NoPoint == <<-1, -1>>

Points == Int \X Int

ASSUME HandTrackerAssumption ==
  /\ Landmarks \in [Hands -> [1 .. LandmarkCount -> Points]]
  /\ {Width, Height, WindowX, WindowY} \subseteq Nat \ {0}
  /\ CameraMayFail \in BOOLEAN

VARIABLES
  mpc,                 \* where the main thread is
  windowOpen,          \* window.isOpen()
  destination,         \* the point handed to Player::setDestination
  reads,               \* landmarks isFistClosed has read so far in this call
  shooting,            \* this frame's detectHandMovement called player.shoot()
  tpc,                 \* where the tracking thread is
  isTracking,          \* HandTracker::isTracking as the main thread wrote it
  trackingSeen,        \* the value of isTracking the tracking thread's core sees
  camera,              \* "closed", "open", or "lost" (open, but reads fail)
  image,               \* the image of the current iteration of the tracking loop
  handLandmarks,       \* what parseLandmarksFromPacket returned
  frameEmpty,          \* the second camera.read of the iteration failed
  handMutex,           \* the thread that holds handMutex
  frameHandLandmarks,  \* the published landmarks
  snapshot,            \* history: frameHandLandmarks when isFistClosed took its size
  raced,               \* history: frameHandLandmarks was rewritten since then
  tracked,             \* history: the image of the last iteration that has published
  asked                \* history: tracked, when isFistClosed took the size

mainVars == <<mpc, windowOpen, destination, reads, shooting>>
trackerVars == <<tpc, image, handLandmarks, frameEmpty>>
flagVars == <<isTracking, trackingSeen>>
sharedVars == <<handMutex, frameHandLandmarks>>
historyVars == <<snapshot, raced, tracked, asked>>
vars == <<libmpVars, mainVars, trackerVars, flagVars, sharedVars, historyVars, camera>>

Free == "free"

MainSteps == {"create", "start", "open", "poll", "wrist", "size", "tips", "judge",
              "frame", "close", "join", "done", "exited", "crashed"}
TrackerSteps == {"none", "check", "process", "idle", "parse", "read", "lock", "fill",
                 "exit", "crashed"}

-----------------------------------------------------------------------------
(* Pure parts of the code.                                                 *)

(* startHandTrackingThread: the point pushed for a landmark; an image that *)
(* could not be read has no columns and no rows, which scales every        *)
(* landmark to the origin.                                                 *)
ScaledLandmark(h, k) == IF frameEmpty THEN <<0, 0>> ELSE Landmarks[h][k]

(* getHandLandmark                                                         *)
HandLandmark(k) == IF k > Len(frameHandLandmarks) THEN NoPoint ELSE frameHandLandmarks[k]

(* The int conversion of setDestination truncates towards zero.            *)
Truncated(a, b) == IF a >= 0 THEN a \div b ELSE -((-a) \div b)

(* convert (mirror, then scale the camera to the window), and the          *)
(* conversion to int in setDestination.                                    *)
Convert(p) ==
  IF p = NoPoint THEN NoPoint
  ELSE <<Truncated((Width - p[1]) * WindowX, Width), Truncated(p[2] * WindowY, Height)>>

(* euclideanDistance, squared: the square root does not change the order.  *)
Distance(p, q) == (q[1] - p[1]) * (q[1] - p[1]) + (q[2] - p[2]) * (q[2] - p[2])

(* The end of isFistClosed: max_element returns the first maximum, and the *)
(* thumb's distance is the first.                                          *)
FistClosed(s) == \A k \in OtherTips :
                   Distance(s[Wrist], s[Thumb]) >= Distance(s[Wrist], s[k])

-----------------------------------------------------------------------------
Init ==
  /\ LibMPInit
  /\ mpc = "create"
  /\ windowOpen = TRUE
  /\ destination = NoPoint
  /\ reads = << >>
  /\ shooting = FALSE
  /\ tpc = "none"
  /\ isTracking = FALSE
  /\ trackingSeen = FALSE
  /\ camera = "closed"
  /\ image = NoHand
  /\ handLandmarks = NoHand
  /\ frameEmpty = FALSE
  /\ handMutex = Free
  /\ frameHandLandmarks = << >>
  /\ snapshot = << >>
  /\ raced = FALSE
  /\ tracked = NoHand
  /\ asked = NoHand

(* The process dies: an exception leaves a thread, or a null pointer is    *)
(* dereferenced.                                                           *)
Crash == mpc' = "crashed" /\ tpc' = "crashed"

-----------------------------------------------------------------------------
(* The main thread: construction of the tracker.                           *)

(* init: libmp.reset(LibMP::Create(..)), then libmp->AddOutputStream,      *)
(* which dereferences a null pointer when Create failed.                   *)
CreateGraph ==
  /\ mpc = "create"
  /\ \E ok \in BOOLEAN :
       /\ Create(ok)
       /\ IF ok THEN mpc' = "start" /\ UNCHANGED tpc ELSE Crash
  /\ UNCHANGED <<windowOpen, destination, reads, shooting, image, handLandmarks,
                 frameEmpty, flagVars, sharedVars, historyVars, camera>>

(* init: libmp->Start(), whose result is ignored.                          *)
StartGraph ==
  /\ mpc = "start"
  /\ \E ok \in BOOLEAN : Start(ok)
  /\ mpc' = "open"
  /\ UNCHANGED <<windowOpen, destination, reads, shooting, trackerVars, flagVars,
                 sharedVars, historyVars, camera>>

(* init: camera.open(0).  A camera that does not open ends the program;    *)
(* otherwise the tracking thread is created.                               *)
OpenCamera ==
  /\ mpc = "open"
  /\ \/ /\ mpc' = "exited"
        /\ UNCHANGED <<camera, isTracking, trackingSeen, tpc>>
     \/ /\ mpc' = "poll"
        /\ camera' = "open"
        /\ isTracking' = TRUE
        /\ trackingSeen' = TRUE
        /\ tpc' = "check"
  /\ UNCHANGED <<libmpVars, windowOpen, destination, reads, shooting, image,
                 handLandmarks, frameEmpty, sharedVars, historyVars>>

-----------------------------------------------------------------------------
(* The main thread: one iteration of the game loop.                        *)

(* pollEvent until no event is left; any of them may close the window.     *)
PollEvents ==
  /\ mpc = "poll"
  /\ windowOpen' \in {windowOpen, FALSE}
  /\ shooting' = FALSE
  /\ mpc' = "wrist"
  /\ UNCHANGED <<libmpVars, destination, reads, trackerVars, flagVars, sharedVars,
                 historyVars, camera>>

(* Mutant of ReadWrist: getHandLandmark returns and keeps the mutex.       *)
ReadWristKeepsLock ==
  /\ mpc = "wrist"
  /\ handMutex = Free
  /\ destination' = Convert(HandLandmark(Wrist))
  /\ handMutex' = "main"
  /\ mpc' = "size"
  /\ UNCHANGED <<libmpVars, windowOpen, reads, shooting, trackerVars, flagVars,
                 frameHandLandmarks, historyVars, camera>>

(* detectHandMovement: getWrist under the mutex, convert, setDestination.  *)
ReadWrist ==
  /\ mpc = "wrist"
  /\ handMutex = Free
  /\ destination' = Convert(HandLandmark(Wrist))
  /\ mpc' = "size"
  /\ UNCHANGED <<libmpVars, windowOpen, reads, shooting, trackerVars, flagVars,
                 sharedVars, historyVars, camera>>

(* Mutant of ReadSize: the vector is read without the mutex.               *)
ReadSizeUnlocked ==
  /\ mpc = "size"
  /\ mpc' = IF Len(frameHandLandmarks) = 0 THEN "frame" ELSE "tips"
  /\ reads' = << >>
  /\ snapshot' = frameHandLandmarks
  /\ raced' = FALSE
  /\ asked' = tracked
  /\ UNCHANGED <<libmpVars, windowOpen, destination, shooting, trackerVars, flagVars,
                 sharedVars, tracked, camera>>

(* Mutant of ReadSize: the early return for an empty vector is missing.    *)
ReadSizeUnchecked ==
  /\ mpc = "size"
  /\ handMutex = Free
  /\ mpc' = "tips"
  /\ reads' = << >>
  /\ snapshot' = frameHandLandmarks
  /\ raced' = FALSE
  /\ asked' = tracked
  /\ UNCHANGED <<libmpVars, windowOpen, destination, shooting, trackerVars, flagVars,
                 sharedVars, tracked, camera>>

(* isFistClosed: getHandLandmarks().size() under the mutex.                *)
ReadSize ==
  /\ mpc = "size"
  /\ handMutex = Free
  /\ mpc' = IF Len(frameHandLandmarks) = 0 THEN "frame" ELSE "tips"
  /\ reads' = << >>
  /\ snapshot' = frameHandLandmarks
  /\ raced' = FALSE
  /\ asked' = tracked
  /\ UNCHANGED <<libmpVars, windowOpen, destination, shooting, trackerVars, flagVars,
                 sharedVars, tracked, camera>>

(* isFistClosed: getWrist, getThumbTip, ..., getPinkyTip, each under a     *)
(* lock of its own.                                                        *)
ReadLandmark ==
  /\ mpc = "tips"
  /\ handMutex = Free
  /\ reads' = Append(reads, HandLandmark(Len(reads) + 1))
  /\ mpc' = IF Len(reads') = LandmarkCount THEN "judge" ELSE "tips"
  /\ UNCHANGED <<libmpVars, windowOpen, destination, shooting, trackerVars, flagVars,
                 sharedVars, historyVars, camera>>

(* isFistClosed returns; detectHandMovement shoots when it is true.        *)
JudgeFist ==
  /\ mpc = "judge"
  /\ shooting' = FistClosed(reads)
  /\ reads' = << >>
  /\ snapshot' = << >>
  /\ mpc' = "frame"
  /\ UNCHANGED <<libmpVars, windowOpen, destination, trackerVars, flagVars,
                 sharedVars, raced, tracked, asked, camera>>

(* Mutant of EndFrame: the events are polled once, before the loop.        *)
EndFrameWithoutPoll ==
  /\ mpc = "frame"
  /\ mpc' = IF windowOpen THEN "wrist" ELSE "close"
  /\ UNCHANGED <<libmpVars, windowOpen, destination, reads, shooting, trackerVars,
                 flagVars, sharedVars, historyVars, camera>>

(* The rest of the frame, and the loop condition.                          *)
EndFrame ==
  /\ mpc = "frame"
  /\ mpc' = IF windowOpen THEN "poll" ELSE "close"
  /\ UNCHANGED <<libmpVars, windowOpen, destination, reads, shooting, trackerVars,
                 flagVars, sharedVars, historyVars, camera>>

(* Mutant of StopTracking: close joins without clearing the flag.          *)
StopTrackingForgotten ==
  /\ mpc = "close"
  /\ mpc' = "join"
  /\ UNCHANGED <<libmpVars, windowOpen, destination, reads, shooting, trackerVars,
                 flagVars, sharedVars, historyVars, camera>>

(* HandTracker::close: the flag is cleared, then the thread is joined.     *)
StopTracking ==
  /\ mpc = "close"
  /\ isTracking' = FALSE
  /\ mpc' = "join"
  /\ UNCHANGED <<libmpVars, windowOpen, destination, reads, shooting, trackerVars,
                 trackingSeen, sharedVars, historyVars, camera>>

(* Mutant of Join: close detaches the thread instead of joining it.        *)
JoinForgotten ==
  /\ mpc = "join"
  /\ mpc' = "done"
  /\ UNCHANGED <<libmpVars, windowOpen, destination, reads, shooting, trackerVars,
                 flagVars, sharedVars, historyVars, camera>>

(* join returns and main destroys the tracker with everything it owns.     *)
Join ==
  /\ mpc = "join"
  /\ tpc = "exit"
  /\ mpc' = "done"
  /\ UNCHANGED <<libmpVars, windowOpen, destination, reads, shooting, trackerVars,
                 flagVars, sharedVars, historyVars, camera>>

-----------------------------------------------------------------------------
(* The tracking thread: startHandTrackingThread.                           *)

(* The loop condition.  isTracking is a plain bool that the main thread    *)
(* writes without the mutex: the thread reads what its core sees of it.    *)
CheckTracking ==
  /\ tpc = "check"
  /\ tpc' = IF trackingSeen THEN "process" ELSE "exit"
  /\ UNCHANGED <<libmpVars, mainVars, image, handLandmarks, frameEmpty, flagVars,
                 sharedVars, historyVars, camera>>

(* process: camera.read, cvtColor, libmp->Process.  cvtColor throws on the *)
(* empty image of a failed read and nothing catches it.  A refused image   *)
(* skips WaitUntilIdle; the result of process is ignored.                  *)
ProcessImage ==
  /\ tpc = "process"
  /\ \/ /\ camera = "open"
        /\ \E i \in Images :
             /\ image' = i
             /\ Process(i)
        /\ tpc' = IF ProcessSucceeds THEN "idle" ELSE "parse"
        /\ UNCHANGED mpc
     \/ /\ camera = "lost"
        /\ Crash
        /\ UNCHANGED <<libmpVars, image>>
  /\ UNCHANGED <<windowOpen, destination, reads, shooting, handLandmarks, frameEmpty,
                 flagVars, sharedVars, historyVars, camera>>

(* Mutant of AwaitIdle: process does not wait for the graph.               *)
AwaitIdleSkipped ==
  /\ tpc = "idle"
  /\ tpc' = "parse"
  /\ UNCHANGED <<libmpVars, mainVars, image, handLandmarks, frameEmpty, flagVars,
                 sharedVars, historyVars, camera>>

(* process: libmp->WaitUntilIdle().                                        *)
AwaitIdle ==
  /\ tpc = "idle"
  /\ Idle
  /\ tpc' = "parse"
  /\ UNCHANGED <<libmpVars, mainVars, image, handLandmarks, frameEmpty, flagVars,
                 sharedVars, historyVars, camera>>

(* parseLandmarksFromPacket: at most one packet is taken from the queue.   *)
ParseLandmarks ==
  /\ tpc = "parse"
  /\ \/ /\ queue # << >>
        /\ GetOutputPacket
        /\ handLandmarks' = Head(queue)
     \/ /\ queue = << >>
        /\ handLandmarks' = NoHand
        /\ UNCHANGED libmpVars
  /\ tpc' = "read"
  /\ UNCHANGED <<mainVars, image, frameEmpty, flagVars, sharedVars, historyVars, camera>>

(* The second camera.read of the iteration, for its size only.             *)
ReadImageSize ==
  /\ tpc = "read"
  /\ frameEmpty' = (camera = "lost")
  /\ tpc' = "lock"
  /\ UNCHANGED <<libmpVars, mainVars, image, handLandmarks, flagVars, sharedVars,
                 historyVars, camera>>

(* lock_guard on handMutex, then frameHandLandmarks.clear().               *)
ClearLandmarks ==
  /\ tpc = "lock"
  /\ handMutex = Free
  /\ handMutex' = "tracker"
  /\ frameHandLandmarks' = << >>
  /\ raced' = TRUE
  /\ tpc' = "fill"
  /\ UNCHANGED <<libmpVars, mainVars, image, handLandmarks, frameEmpty, flagVars,
                 snapshot, tracked, asked, camera>>

(* frameHandLandmarks.push_back, once per landmark.                        *)
PushLandmark ==
  /\ tpc = "fill"
  /\ handLandmarks # NoHand
  /\ Len(frameHandLandmarks) < LandmarkCount
  /\ frameHandLandmarks' = Append(frameHandLandmarks,
                                  ScaledLandmark(handLandmarks, Len(frameHandLandmarks) + 1))
  /\ UNCHANGED <<libmpVars, mainVars, trackerVars, flagVars, handMutex, historyVars, camera>>

(* The end of the loop body releases handMutex.                            *)
UnlockLandmarks ==
  /\ tpc = "fill"
  /\ handLandmarks = NoHand \/ Len(frameHandLandmarks) = LandmarkCount
  /\ handMutex' = Free
  /\ tracked' = image
  /\ tpc' = "check"
  /\ UNCHANGED <<libmpVars, mainVars, image, handLandmarks, frameEmpty, flagVars,
                 frameHandLandmarks, snapshot, raced, asked, camera>>

-----------------------------------------------------------------------------
(* The environment.                                                        *)

Running == mpc \notin {"done", "exited", "crashed"}

(* The threads of the MediaPipe graph.                                     *)
GraphWorks ==
  /\ Running
  /\ RunCalculators
  /\ UNCHANGED <<mainVars, trackerVars, flagVars, sharedVars, historyVars, camera>>

GraphFails ==
  /\ Running
  /\ GraphError
  /\ UNCHANGED <<mainVars, trackerVars, flagVars, sharedVars, historyVars, camera>>

(* The camera stops delivering images.                                     *)
LoseCamera ==
  /\ CameraMayFail
  /\ Running
  /\ camera = "open"
  /\ camera' = "lost"
  /\ UNCHANGED <<libmpVars, mainVars, trackerVars, flagVars, sharedVars, historyVars>>

(* The write to isTracking reaches the tracking thread's core.             *)
SeeFlag ==
  /\ Running
  /\ trackingSeen # isTracking
  /\ trackingSeen' = isTracking
  /\ UNCHANGED <<libmpVars, mainVars, trackerVars, isTracking, sharedVars, historyVars, camera>>

(* The program has ended.                                                  *)
Ended == ~Running /\ UNCHANGED vars

MainNext ==
  \/ CreateGraph \/ StartGraph \/ OpenCamera
  \/ PollEvents \/ ReadWrist \/ ReadSize \/ ReadLandmark \/ JudgeFist \/ EndFrame
  \/ StopTracking \/ Join

TrackerNext ==
  \/ CheckTracking \/ ProcessImage \/ AwaitIdle \/ ParseLandmarks \/ ReadImageSize
  \/ ClearLandmarks \/ PushLandmark \/ UnlockLandmarks

Next ==
  \/ MainNext
  \/ TrackerNext
  \/ GraphWorks \/ GraphFails \/ LoseCamera \/ SeeFlag
  \/ Ended

Spec == Init /\ [][Next]_vars

(* The operating system runs both threads and the graph's threads; a store *)
(* becomes visible; the mutex is not fair, but the tracking thread spends  *)
(* a whole camera image outside it, so a reader that waits gets it.        *)
Fairness ==
  /\ SF_vars(MainNext)
  /\ WF_vars(TrackerNext)
  /\ WF_vars(GraphWorks)
  /\ WF_vars(SeeFlag)

FairSpec == Spec /\ Fairness

-----------------------------------------------------------------------------
(* Properties.                                                             *)

(* Every variable stays in its type.                                       *)
TypeOK ==
  /\ LibMPTypeOK
  /\ mpc \in MainSteps
  /\ windowOpen \in BOOLEAN
  /\ destination \in Points
  /\ reads \in Seq(Points)
  /\ shooting \in BOOLEAN
  /\ tpc \in TrackerSteps
  /\ isTracking \in BOOLEAN
  /\ trackingSeen \in BOOLEAN
  /\ camera \in {"closed", "open", "lost"}
  /\ image \in Images
  /\ handLandmarks \in Images
  /\ frameEmpty \in BOOLEAN
  /\ handMutex \in {Free, "tracker"}
  /\ frameHandLandmarks \in Seq(Points)
  /\ snapshot \in Seq(Points)
  /\ raced \in BOOLEAN
  /\ tracked \in Images
  /\ asked \in Images

(* The points frameHandLandmarks holds once hand h is published.           *)
Publication(h) ==
  IF h = NoHand THEN << >> ELSE [k \in 1 .. LandmarkCount |-> ScaledLandmark(h, k)]

(* getHandLandmarks and getHandLandmark never see a half refilled vector:  *)
(* isFistClosed is told the size of no hand or of a whole hand, and unless *)
(* the tracking thread published between two of its reads, the landmarks   *)
(* it reads are, one by one, those of that hand.                           *)
ReadsOneHand ==
  /\ Len(snapshot) \in {0, LandmarkCount}
  /\ ~raced => /\ Len(reads) <= Len(snapshot)
               /\ \A k \in 1 .. Len(reads) : reads[k] = snapshot[k]

(* One image in, at most one packet out, and WaitUntilIdle in between: the *)
(* landmarks that an iteration of startHandTrackingThread publishes belong *)
(* to the image of that iteration, never to an older one left in the       *)
(* poller's queue.  They are missing only when the graph is not running.   *)
PublishesCurrentImage ==
  /\ tpc \in {"read", "lock", "fill", "check"} =>
       \/ handLandmarks = image
       \/ graph # "running" /\ handLandmarks = NoHand
  /\ tpc \in {"check", "process", "idle", "parse"} =>
       frameHandLandmarks = Publication(handLandmarks)

(* HandTracker::close joins before main destroys the tracker: when the     *)
(* mutex, the vector and the camera are gone, the thread that uses them    *)
(* has left its loop and does not hold the mutex.                          *)
JoinedBeforeDestruction ==
  mpc = "done" => tpc = "exit" /\ handMutex = Free

(* detectHandMovement shoots for a hand that was there when isFistClosed   *)
(* asked for the size: the image that the tracking thread had published    *)
(* last showed one.  That hand was a fist, unless the thread published     *)
(* again before the last landmark was read (the hand may then have gone,   *)
(* and its points be (-1,-1)), or the camera was lost, whose empty image   *)
(* puts every landmark at the origin.                                      *)
NoShotWithoutHand ==
  shooting => /\ asked \in Hands
              /\ raced \/ camera = "lost" \/ FistClosed(Landmarks[asked])

(* The comment on isFistClosed (HandTracker.cpp:183-188): a fist is closed *)
(* if the thumb is farther from the wrist than the other fingers,          *)
(* "otherwise not".                                                        *)
FistMeansThumbFarthest ==
  (mpc = "judge" /\ FistClosed(reads)) =>
    \A k \in OtherTips :
      Distance(reads[Wrist], reads[Thumb]) > Distance(reads[Wrist], reads[k])

(* Closing the window ends the program: the main thread finishes its frame *)
(* and the join returns, whatever the tracking thread was doing, unless    *)
(* the process dies first.                                                 *)
ClosingEnds == ~windowOpen ~> ~Running

(* The game loop is never starved by the tracking thread: it polls the     *)
(* window's events again and again until the program ends.                 *)
LoopKeepsPolling == []<>(mpc = "poll" \/ ~Running)

-----------------------------------------------------------------------------
(* The parts of an inductive invariant that carries the safety properties. *)

(* The answer of the graph to the image of this iteration, or none from a  *)
(* graph that does not run.                                                *)
Answered ==
  \/ queue = IF image = NoHand THEN << >> ELSE <<image>>
  \/ graph # "running" /\ queue = << >>

(* What is under way in the graph depends on the tracking thread's step.   *)
InFlight ==
  /\ tpc # "idle" => pending = << >>
  /\ tpc \notin {"idle", "parse"} => queue = << >>
  /\ tpc = "idle" => \/ pending = <<image>> /\ queue = << >>
                     \/ pending = << >> /\ Answered
  /\ tpc = "parse" => Answered

(* The tracking thread exists once the camera is open, has published       *)
(* nothing before, and holds the mutex while it refills the landmarks.     *)
Threads ==
  /\ mpc \in {"create", "start", "open"} => tpc = "none"
  /\ tpc = "none" => /\ image = NoHand /\ handLandmarks = NoHand
                     /\ frameHandLandmarks = << >>
  /\ handMutex = "tracker" <=> tpc = "fill"
  /\ mpc = "done" => tpc = "exit"

(* While it is refilled, frameHandLandmarks is a prefix of the hand.       *)
Refill ==
  tpc = "fill" =>
    /\ Len(frameHandLandmarks) <= LandmarkCount
    /\ handLandmarks = NoHand => frameHandLandmarks = << >>
    /\ handLandmarks # NoHand =>
         \A k \in 1 .. Len(frameHandLandmarks) :
           frameHandLandmarks[k] = ScaledLandmark(handLandmarks, k)

(* Outside the mutex frameHandLandmarks is no hand or a whole one; unless  *)
(* it was refilled in between it is what isFistClosed took the size of.    *)
Reading ==
  /\ handMutex = Free => Len(frameHandLandmarks) \in {0, LandmarkCount}
  /\ tpc = "fill" => raced
  /\ mpc \notin {"tips", "judge", "crashed"} => reads = << >>
  /\ mpc = "tips" => Len(snapshot) = LandmarkCount /\ Len(reads) < LandmarkCount
  /\ mpc = "tips" /\ ~raced => snapshot = frameHandLandmarks

(* Points read from the vector are no hand, or that of the image.          *)
Shows(points, i) ==
  points # << >> =>
    /\ i \in Hands
    /\ camera = "lost" \/ \A k \in 1 .. LandmarkCount : points[k] = Landmarks[i][k]

(* Outside the mutex the vector shows the image tracked last, isFistClosed *)
(* judges what the one it asked about showed, and has read all of it when  *)
(* it does; what it has shot at stays as it was judged.                    *)
Sighted ==
  /\ tpc = "none" => camera = "closed"
  /\ frameEmpty => camera = "lost"
  /\ tpc # "fill" => Shows(frameHandLandmarks, tracked)
  /\ mpc \in {"tips", "judge"} => Len(snapshot) = LandmarkCount /\ Shows(snapshot, asked)
  /\ mpc = "judge" => Len(reads) = LandmarkCount
  /\ mpc \in {"wrist", "size", "tips", "judge"} => ~shooting
  /\ NoShotWithoutHand
=============================================================================

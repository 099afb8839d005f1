------------------------- MODULE HandTrackerProofs -------------------------
(***************************************************************************)
(* Proofs of the safety properties of HandTracker, for any hands, any      *)
(* landmarks and any image and window sizes.                               *)
(***************************************************************************)
EXTENDS HandTracker, TLAPS

(* A queue that took at most one element keeps its type.                   *)
LEMMA AtMostAppended ==
  ASSUME NEW S, NEW s \in Seq(S), NEW t,
         t = s \/ \E e \in S : t = Append(s, e)
  PROVE  t \in Seq(S)
<1>1. CASE t = s
  BY <1>1
<1>2. ASSUME NEW e \in S, t = Append(s, e) PROVE t \in Seq(S)
  BY <1>2
<1>3. QED
  BY <1>1, <1>2

(* Cutting a quotient to an integer gives an integer.                      *)
LEMMA TruncatedInt ==
  ASSUME NEW a \in Int, NEW b \in Nat \ {0}
  PROVE  Truncated(a, b) \in Int
BY DEF Truncated

(* convert maps points to points.                                          *)
LEMMA ConvertPoint == ASSUME NEW p \in Points PROVE Convert(p) \in Points
<1>1. NoPoint \in Points
  BY DEF NoPoint, Points
<1>2. /\ Width \in Nat \ {0} /\ Height \in Nat \ {0}
      /\ WindowX \in Int /\ WindowY \in Int
  BY HandTrackerAssumption
<1>3. p[1] \in Int /\ p[2] \in Int
  BY DEF Points
<1>4. (Width - p[1]) * WindowX \in Int /\ p[2] * WindowY \in Int
  BY <1>2, <1>3
<1>5. /\ Truncated((Width - p[1]) * WindowX, Width) \in Int
      /\ Truncated(p[2] * WindowY, Height) \in Int
  BY <1>2, <1>4, TruncatedInt
<1>6. QED
  BY <1>1, <1>5 DEF Convert, Points

(* getHandLandmark answers with a point, whatever index it is asked for.   *)
LEMMA HandLandmarkPoint ==
  ASSUME frameHandLandmarks \in Seq(Points), NEW k \in Nat \ {0}
  PROVE  HandLandmark(k) \in Points
<1>1. NoPoint \in Points
  BY DEF NoPoint, Points
<1>2. QED
  BY <1>1 DEF HandLandmark

(* A published landmark is a point.                                        *)
LEMMA ScaledLandmarkPoint ==
  ASSUME NEW h \in Hands, NEW k \in 1 .. LandmarkCount
  PROVE  ScaledLandmark(h, k) \in Points
<1>1. <<0, 0>> \in Points
  BY DEF Points
<1>2. Landmarks[h][k] \in Points
  BY HandTrackerAssumption
<1>3. QED
  BY <1>1, <1>2 DEF ScaledLandmark

(* Every step of Next keeps every variable in its type.                     *)
LEMMA TypeStep == TypeOK /\ [Next]_vars => TypeOK'
<1> SUFFICES ASSUME TypeOK, [Next]_vars PROVE TypeOK'
  OBVIOUS
<1> USE DEF TypeOK, LibMPTypeOK, vars, libmpVars, mainVars, trackerVars,
           flagVars, sharedVars, historyVars, MainSteps, TrackerSteps,
           GraphStates, Free
<1>1. CASE CreateGraph
  BY <1>1 DEF CreateGraph, Create, Crash
<1>2. CASE StartGraph
  BY <1>2 DEF StartGraph, Start
<1>3. CASE OpenCamera
  <2>1. mpc' \in MainSteps /\ tpc' \in TrackerSteps
    BY <1>3 DEF OpenCamera
  <2>2. isTracking' \in BOOLEAN /\ trackingSeen' \in BOOLEAN
    BY <1>3 DEF OpenCamera
  <2>3. camera' \in {"closed", "open", "lost"}
    BY <1>3 DEF OpenCamera
  <2>4. UNCHANGED <<graph, pending, queue, windowOpen, destination, reads,
                    shooting, image, handLandmarks, frameEmpty, handMutex,
                    frameHandLandmarks, snapshot, raced, tracked, asked>>
    BY <1>3 DEF OpenCamera
  <2>5. QED
    BY <2>1, <2>2, <2>3, <2>4
<1>4. CASE PollEvents
  <2>1. mpc' \in MainSteps
    BY <1>4 DEF PollEvents
  <2>2. windowOpen' \in BOOLEAN /\ shooting' \in BOOLEAN
    BY <1>4 DEF PollEvents
  <2>3. UNCHANGED <<graph, pending, queue, destination, reads, tpc, isTracking,
                    trackingSeen, camera, image, handLandmarks, frameEmpty,
                    handMutex, frameHandLandmarks, snapshot, raced, tracked, asked>>
    BY <1>4 DEF PollEvents
  <2>4. QED
    BY <2>1, <2>2, <2>3
<1>5. CASE ReadWrist
  <2>1. mpc' \in MainSteps
    BY <1>5 DEF ReadWrist
  <2>2. HandLandmark(Wrist) \in Points
    BY <1>5, HandLandmarkPoint DEF ReadWrist, Wrist
  <2>3. destination' \in Points
    BY <1>5, <2>2, ConvertPoint DEF ReadWrist
  <2>4. UNCHANGED <<graph, pending, queue, windowOpen, reads, shooting, tpc,
                    isTracking, trackingSeen, camera, image, handLandmarks,
                    frameEmpty, handMutex, frameHandLandmarks, snapshot, raced,
                    tracked, asked>>
    BY <1>5 DEF ReadWrist
  <2>5. QED
    BY <2>1, <2>2, <2>3, <2>4
<1>6. CASE ReadSize
  <2>1. mpc' \in MainSteps
    BY <1>6 DEF ReadSize
  <2>2. reads' \in Seq(Points) /\ snapshot' \in Seq(Points)
    BY <1>6 DEF ReadSize
  <2>3. raced' \in BOOLEAN /\ asked' \in Images
    BY <1>6 DEF ReadSize
  <2>4. UNCHANGED <<graph, pending, queue, windowOpen, destination, shooting,
                    tpc, isTracking, trackingSeen, camera, image,
                    handLandmarks, frameEmpty, handMutex, frameHandLandmarks,
                    tracked>>
    BY <1>6 DEF ReadSize
  <2>5. QED
    BY <2>1, <2>2, <2>3, <2>4
<1>7. CASE ReadLandmark
  <2>1. mpc' \in MainSteps
    BY <1>7 DEF ReadLandmark
  <2>2. HandLandmark(Len(reads) + 1) \in Points
    BY <1>7, HandLandmarkPoint DEF ReadLandmark
  <2>3. reads' \in Seq(Points)
    BY <1>7, <2>2 DEF ReadLandmark
  <2>4. UNCHANGED <<graph, pending, queue, windowOpen, destination, shooting,
                    tpc, isTracking, trackingSeen, camera, image,
                    handLandmarks, frameEmpty, handMutex, frameHandLandmarks,
                    snapshot, raced, tracked, asked>>
    BY <1>7 DEF ReadLandmark
  <2>5. QED
    BY <2>1, <2>2, <2>3, <2>4
<1>8. CASE JudgeFist
  <2>1. mpc' \in MainSteps
    BY <1>8 DEF JudgeFist
  <2>2. shooting' \in BOOLEAN
    BY <1>8 DEF JudgeFist, FistClosed
  <2>3. reads' \in Seq(Points) /\ snapshot' \in Seq(Points)
    BY <1>8 DEF JudgeFist
  <2>4. UNCHANGED <<graph, pending, queue, windowOpen, destination, tpc,
                    isTracking, trackingSeen, camera, image, handLandmarks,
                    frameEmpty, handMutex, frameHandLandmarks, raced, tracked, asked>>
    BY <1>8 DEF JudgeFist
  <2>5. QED
    BY <2>1, <2>2, <2>3, <2>4
<1>9. CASE EndFrame
  BY <1>9 DEF EndFrame
<1>10. CASE StopTracking
  <2>1. mpc' \in MainSteps
    BY <1>10 DEF StopTracking
  <2>2. isTracking' \in BOOLEAN
    BY <1>10 DEF StopTracking
  <2>3. UNCHANGED <<graph, pending, queue, windowOpen, destination, reads,
                    shooting, tpc, trackingSeen, camera, image, handLandmarks,
                    frameEmpty, handMutex, frameHandLandmarks, snapshot, raced,
                    tracked, asked>>
    BY <1>10 DEF StopTracking
  <2>4. QED
    BY <2>1, <2>2, <2>3
<1>11. CASE Join
  BY <1>11 DEF Join
<1>12. CASE CheckTracking
  BY <1>12 DEF CheckTracking
<1>13. CASE ProcessImage
  <2>1. mpc' \in MainSteps /\ tpc' \in TrackerSteps
    BY <1>13 DEF ProcessImage, Process, ProcessSucceeds, Crash
  <2>2. image' \in Images
    BY <1>13 DEF ProcessImage, Process, ProcessSucceeds, Crash
  <2>3. pending' = pending \/ \E i \in Images : pending' = Append(pending, i)
    BY <1>13 DEF ProcessImage, Process, ProcessSucceeds, Crash
  <2>4. pending \in Seq(Images)
    BY <1>13 DEF ProcessImage, Process, ProcessSucceeds, Crash
  <2>5. pending' \in Seq(Images)
    BY <2>3, <2>4, AtMostAppended
  <2>6. UNCHANGED <<graph, queue, windowOpen, destination, reads, shooting,
                    isTracking, trackingSeen, camera, handLandmarks,
                    frameEmpty, handMutex, frameHandLandmarks, snapshot, raced,
                    tracked, asked>>
    BY <1>13 DEF ProcessImage, Process, ProcessSucceeds, Crash
  <2>7. QED
    BY <2>1, <2>2, <2>3, <2>4, <2>5, <2>6
<1>14. CASE AwaitIdle
  BY <1>14 DEF AwaitIdle, Idle
<1>15. CASE ParseLandmarks
  <2>1. tpc' \in TrackerSteps
    BY <1>15 DEF ParseLandmarks, GetOutputPacket
  <2>2. queue # << >> => Head(queue) \in Hands /\ Tail(queue) \in Seq(Hands)
    BY <1>15 DEF ParseLandmarks, GetOutputPacket
  <2>3. handLandmarks' \in Images
    BY <1>15, <2>2 DEF ParseLandmarks, GetOutputPacket, Images
  <2>4. queue' \in Seq(Hands)
    BY <1>15, <2>2 DEF ParseLandmarks, GetOutputPacket
  <2>5. UNCHANGED <<graph, pending, mpc, windowOpen, destination, reads,
                    shooting, isTracking, trackingSeen, camera, image,
                    frameEmpty, handMutex, frameHandLandmarks, snapshot, raced,
                    tracked, asked>>
    BY <1>15 DEF ParseLandmarks, GetOutputPacket
  <2>6. QED
    BY <2>1, <2>2, <2>3, <2>4, <2>5
<1>16. CASE ReadImageSize
  BY <1>16 DEF ReadImageSize
<1>17. CASE ClearLandmarks
  BY <1>17 DEF ClearLandmarks
<1>18. CASE PushLandmark
  <2>1. Len(frameHandLandmarks) + 1 \in 1 .. LandmarkCount
    BY <1>18 DEF PushLandmark, LandmarkCount
  <2>2. handLandmarks \in Hands
    BY <1>18 DEF PushLandmark, Images
  <2>3. frameHandLandmarks' \in Seq(Points)
    BY <1>18, <2>1, <2>2, ScaledLandmarkPoint DEF PushLandmark
  <2>4. UNCHANGED <<graph, pending, queue, mpc, windowOpen, destination, reads,
                    shooting, tpc, isTracking, trackingSeen, camera, image,
                    handLandmarks, frameEmpty, handMutex, snapshot, raced,
                    tracked, asked>>
    BY <1>18 DEF PushLandmark
  <2>5. QED
    BY <2>1, <2>2, <2>3, <2>4
<1>19. CASE UnlockLandmarks
  BY <1>19 DEF UnlockLandmarks
<1>20. CASE GraphWorks
  BY <1>20 DEF GraphWorks, RunCalculators, Images
<1>21. CASE GraphFails
  BY <1>21 DEF GraphFails, GraphError
<1>22. CASE LoseCamera
  BY <1>22 DEF LoseCamera
<1>23. CASE SeeFlag
  BY <1>23 DEF SeeFlag
<1>24. CASE Ended
  BY <1>24 DEF Ended
<1>25. CASE UNCHANGED vars
  BY <1>25
<1>26. QED
  BY <1>1, <1>2, <1>3, <1>4, <1>5, <1>6, <1>7, <1>8, <1>9, <1>10, <1>11, <1>12,
     <1>13, <1>14, <1>15, <1>16, <1>17, <1>18, <1>19, <1>20, <1>21, <1>22,
     <1>23, <1>24, <1>25
     DEF Next, MainNext, TrackerNext


(* The initial values are in their types.                                  *)
LEMMA InitTypeOK == Init => TypeOK
<1> SUFFICES ASSUME Init PROVE TypeOK
  OBVIOUS
<1> USE DEF Init
<1>1. LibMPTypeOK /\ image \in Images /\ handLandmarks \in Images
  BY DEF LibMPInit, LibMPTypeOK, GraphStates, Images
<1>2. /\ mpc \in MainSteps /\ tpc \in TrackerSteps
      /\ camera \in {"closed", "open", "lost"} /\ handMutex \in {Free, "tracker"}
  BY DEF MainSteps, TrackerSteps, Free
<1>3. /\ windowOpen \in BOOLEAN /\ shooting \in BOOLEAN /\ isTracking \in BOOLEAN
      /\ trackingSeen \in BOOLEAN /\ frameEmpty \in BOOLEAN
      /\ raced \in BOOLEAN /\ tracked \in Images /\ asked \in Images
  BY DEF Images
<1>4. destination \in Points
  BY DEF NoPoint, Points
<1>5. /\ reads \in Seq(Points) /\ frameHandLandmarks \in Seq(Points)
      /\ snapshot \in Seq(Points)
  OBVIOUS
<1>6. QED
  BY <1>1, <1>2, <1>3, <1>4, <1>5 DEF TypeOK

(* Every variable stays in its type, for all hands, images and windows.    *)
THEOREM TypeCorrect == Spec => []TypeOK
BY InitTypeOK, TypeStep, PTL DEF Spec

-----------------------------------------------------------------------------
(* Every step keeps the threads and the mutex in step with each other.      *)
LEMMA ThreadsStep == TypeOK /\ Threads /\ [Next]_vars => Threads'
<1> SUFFICES ASSUME TypeOK, Threads, [Next]_vars PROVE Threads'
  OBVIOUS
<1> USE DEF vars, libmpVars, mainVars, trackerVars, flagVars, sharedVars,
           historyVars, Threads, Free
<1>1. CASE CreateGraph
  BY <1>1 DEF CreateGraph, Create, Crash
<1>2. CASE StartGraph
  BY <1>2 DEF StartGraph, Start
<1>3. CASE OpenCamera
  BY <1>3 DEF OpenCamera
<1>4. CASE PollEvents
  BY <1>4 DEF PollEvents
<1>5. CASE ReadWrist
  BY <1>5 DEF ReadWrist
<1>6. CASE ReadSize
  BY <1>6 DEF ReadSize
<1>7. CASE ReadLandmark
  BY <1>7 DEF ReadLandmark
<1>8. CASE JudgeFist
  BY <1>8 DEF JudgeFist
<1>9. CASE EndFrame
  BY <1>9 DEF EndFrame
<1>10. CASE StopTracking
  BY <1>10 DEF StopTracking
<1>11. CASE Join
  BY <1>11 DEF Join
<1>12. CASE CheckTracking
  BY <1>12 DEF CheckTracking
<1>13. CASE ProcessImage
  BY <1>13 DEF ProcessImage, Process, ProcessSucceeds, Crash
<1>14. CASE AwaitIdle
  BY <1>14 DEF AwaitIdle, Idle
<1>15. CASE ParseLandmarks
  BY <1>15 DEF ParseLandmarks, GetOutputPacket
<1>16. CASE ReadImageSize
  BY <1>16 DEF ReadImageSize
<1>17. CASE ClearLandmarks
  BY <1>17 DEF ClearLandmarks
<1>18. CASE PushLandmark
  BY <1>18 DEF PushLandmark
<1>19. CASE UnlockLandmarks
  BY <1>19 DEF UnlockLandmarks
<1>20. CASE GraphWorks
  BY <1>20 DEF GraphWorks, RunCalculators
<1>21. CASE GraphFails
  BY <1>21 DEF GraphFails, GraphError
<1>22. CASE LoseCamera
  BY <1>22 DEF LoseCamera
<1>23. CASE SeeFlag
  BY <1>23 DEF SeeFlag
<1>24. CASE Ended
  BY <1>24 DEF Ended
<1>25. CASE UNCHANGED vars
  BY <1>25
<1>26. QED
  BY <1>1, <1>2, <1>3, <1>4, <1>5, <1>6, <1>7, <1>8, <1>9, <1>10, <1>11, <1>12,
     <1>13, <1>14, <1>15, <1>16, <1>17, <1>18, <1>19, <1>20, <1>21, <1>22,
     <1>23, <1>24, <1>25
     DEF Next, MainNext, TrackerNext

(* Every step keeps what is under way in the graph as InFlight says.        *)
LEMMA InFlightStep == TypeOK /\ Threads /\ InFlight /\ [Next]_vars => InFlight'
<1> SUFFICES ASSUME TypeOK, Threads, InFlight, [Next]_vars PROVE InFlight'
  OBVIOUS
<1> USE DEF vars, libmpVars, mainVars, trackerVars, flagVars, sharedVars,
           historyVars, InFlight, Answered
<1>1. CASE CreateGraph
  BY <1>1 DEF CreateGraph, Create, Crash, Threads
<1>2. CASE StartGraph
  BY <1>2 DEF StartGraph, Start, Threads
<1>3. CASE OpenCamera
  BY <1>3 DEF OpenCamera, Threads
<1>4. CASE PollEvents
  BY <1>4 DEF PollEvents
<1>5. CASE ReadWrist
  BY <1>5 DEF ReadWrist
<1>6. CASE ReadSize
  BY <1>6 DEF ReadSize
<1>7. CASE ReadLandmark
  BY <1>7 DEF ReadLandmark
<1>8. CASE JudgeFist
  BY <1>8 DEF JudgeFist
<1>9. CASE EndFrame
  BY <1>9 DEF EndFrame
<1>10. CASE StopTracking
  BY <1>10 DEF StopTracking
<1>11. CASE Join
  BY <1>11 DEF Join
<1>12. CASE CheckTracking
  BY <1>12 DEF CheckTracking
<1>13. CASE ProcessImage
  BY <1>13 DEF ProcessImage, Process, ProcessSucceeds, Crash, TypeOK, LibMPTypeOK
<1>14. CASE AwaitIdle
  BY <1>14 DEF AwaitIdle, Idle
<1>15. CASE ParseLandmarks
  BY <1>15 DEF ParseLandmarks, GetOutputPacket
<1>16. CASE ReadImageSize
  BY <1>16 DEF ReadImageSize
<1>17. CASE ClearLandmarks
  BY <1>17 DEF ClearLandmarks
<1>18. CASE PushLandmark
  BY <1>18 DEF PushLandmark
<1>19. CASE UnlockLandmarks
  BY <1>19 DEF UnlockLandmarks
<1>20. CASE GraphWorks
  <2>1. pending # << >> /\ pending' = Tail(pending)
        /\ queue' = IF Head(pending) = NoHand THEN queue ELSE Append(queue, Head(pending))
    BY <1>20 DEF GraphWorks, RunCalculators
  <2>2. tpc = "idle" /\ pending = <<image>> /\ queue = << >>
    BY <2>1
  <2>3. Head(pending) = image /\ Tail(pending) = << >>
    BY <2>2
  <2>4. pending' = << >> /\ queue' = IF image = NoHand THEN << >> ELSE <<image>>
    BY <2>1, <2>2, <2>3
  <2>5. tpc' = "idle" /\ image' = image
    BY <1>20, <2>2 DEF GraphWorks, RunCalculators
  <2>6. QED
    BY <2>4, <2>5
<1>21. CASE GraphFails
  BY <1>21 DEF GraphFails, GraphError
<1>22. CASE LoseCamera
  BY <1>22 DEF LoseCamera
<1>23. CASE SeeFlag
  BY <1>23 DEF SeeFlag
<1>24. CASE Ended
  BY <1>24 DEF Ended
<1>25. CASE UNCHANGED vars
  BY <1>25
<1>26. QED
  BY <1>1, <1>2, <1>3, <1>4, <1>5, <1>6, <1>7, <1>8, <1>9, <1>10, <1>11, <1>12,
     <1>13, <1>14, <1>15, <1>16, <1>17, <1>18, <1>19, <1>20, <1>21, <1>22,
     <1>23, <1>24, <1>25
     DEF Next, MainNext, TrackerNext

(* Every step keeps a refill of frameHandLandmarks a prefix of the hand.    *)
LEMMA RefillStep == TypeOK /\ Refill /\ [Next]_vars => Refill'
<1> SUFFICES ASSUME TypeOK, Refill, [Next]_vars PROVE Refill'
  OBVIOUS
<1> USE DEF vars, libmpVars, mainVars, trackerVars, flagVars, sharedVars,
           historyVars, Refill, ScaledLandmark
<1>1. CASE CreateGraph
  BY <1>1 DEF CreateGraph, Create, Crash
<1>2. CASE StartGraph
  BY <1>2 DEF StartGraph, Start
<1>3. CASE OpenCamera
  BY <1>3 DEF OpenCamera
<1>4. CASE PollEvents
  BY <1>4 DEF PollEvents
<1>5. CASE ReadWrist
  BY <1>5 DEF ReadWrist
<1>6. CASE ReadSize
  BY <1>6 DEF ReadSize
<1>7. CASE ReadLandmark
  BY <1>7 DEF ReadLandmark
<1>8. CASE JudgeFist
  BY <1>8 DEF JudgeFist
<1>9. CASE EndFrame
  BY <1>9 DEF EndFrame
<1>10. CASE StopTracking
  BY <1>10 DEF StopTracking
<1>11. CASE Join
  BY <1>11 DEF Join
<1>12. CASE CheckTracking
  BY <1>12 DEF CheckTracking
<1>13. CASE ProcessImage
  BY <1>13 DEF ProcessImage, Process, ProcessSucceeds, Crash
<1>14. CASE AwaitIdle
  BY <1>14 DEF AwaitIdle, Idle
<1>15. CASE ParseLandmarks
  BY <1>15 DEF ParseLandmarks, GetOutputPacket
<1>16. CASE ReadImageSize
  BY <1>16 DEF ReadImageSize
<1>17. CASE ClearLandmarks
  BY <1>17 DEF ClearLandmarks, LandmarkCount
<1>18. CASE PushLandmark
  <2> DEFINE n == Len(frameHandLandmarks)
  <2>1. /\ frameHandLandmarks \in Seq(Points) /\ n \in Nat /\ n < LandmarkCount
        /\ tpc = "fill" /\ handLandmarks # NoHand
        /\ UNCHANGED <<tpc, handLandmarks, frameEmpty>>
    BY <1>18 DEF PushLandmark, TypeOK
  <2>2. frameHandLandmarks' = Append(frameHandLandmarks, ScaledLandmark(handLandmarks, n + 1))
    BY <1>18 DEF PushLandmark
  <2>3. /\ Len(frameHandLandmarks') = n + 1
        /\ frameHandLandmarks'[n + 1] = ScaledLandmark(handLandmarks, n + 1)
        /\ \A k \in 1 .. n : frameHandLandmarks'[k] = frameHandLandmarks[k]
    BY <2>1, <2>2
  <2>4. \A k \in 1 .. n + 1 : frameHandLandmarks'[k] = ScaledLandmark(handLandmarks, k)'
    BY <2>1, <2>3
  <2>5. n + 1 <= LandmarkCount
    BY <2>1 DEF LandmarkCount
  <2>6. QED
    BY <2>1, <2>3, <2>4, <2>5
<1>19. CASE UnlockLandmarks
  BY <1>19 DEF UnlockLandmarks
<1>20. CASE GraphWorks
  BY <1>20 DEF GraphWorks, RunCalculators
<1>21. CASE GraphFails
  BY <1>21 DEF GraphFails, GraphError
<1>22. CASE LoseCamera
  BY <1>22 DEF LoseCamera
<1>23. CASE SeeFlag
  BY <1>23 DEF SeeFlag
<1>24. CASE Ended
  BY <1>24 DEF Ended
<1>25. CASE UNCHANGED vars
  BY <1>25
<1>26. QED
  BY <1>1, <1>2, <1>3, <1>4, <1>5, <1>6, <1>7, <1>8, <1>9, <1>10, <1>11, <1>12,
     <1>13, <1>14, <1>15, <1>16, <1>17, <1>18, <1>19, <1>20, <1>21, <1>22,
     <1>23, <1>24, <1>25
     DEF Next, MainNext, TrackerNext

(* What is published belongs to the current image after every step.        *)
LEMMA PublishStep == TypeOK /\ Threads /\ InFlight /\ Refill /\ PublishesCurrentImage /\ [Next]_vars => PublishesCurrentImage'
<1> SUFFICES ASSUME TypeOK, Threads, InFlight, Refill, PublishesCurrentImage, [Next]_vars PROVE PublishesCurrentImage'
  OBVIOUS
<1> USE DEF vars, libmpVars, mainVars, trackerVars, flagVars, sharedVars,
           historyVars, PublishesCurrentImage, Publication, ScaledLandmark
<1>1. CASE CreateGraph
  BY <1>1 DEF CreateGraph, Create, Crash
<1>2. CASE StartGraph
  BY <1>2 DEF StartGraph, Start, Threads
<1>3. CASE OpenCamera
  BY <1>3 DEF OpenCamera, Threads
<1>4. CASE PollEvents
  BY <1>4 DEF PollEvents
<1>5. CASE ReadWrist
  BY <1>5 DEF ReadWrist
<1>6. CASE ReadSize
  BY <1>6 DEF ReadSize
<1>7. CASE ReadLandmark
  BY <1>7 DEF ReadLandmark
<1>8. CASE JudgeFist
  BY <1>8 DEF JudgeFist
<1>9. CASE EndFrame
  BY <1>9 DEF EndFrame
<1>10. CASE StopTracking
  BY <1>10 DEF StopTracking
<1>11. CASE Join
  BY <1>11 DEF Join
<1>12. CASE CheckTracking
  BY <1>12 DEF CheckTracking
<1>13. CASE ProcessImage
  BY <1>13 DEF ProcessImage, Process, ProcessSucceeds, Crash
<1>14. CASE AwaitIdle
  BY <1>14 DEF AwaitIdle, Idle
<1>15. CASE ParseLandmarks
  BY <1>15 DEF ParseLandmarks, GetOutputPacket, InFlight, Answered
<1>16. CASE ReadImageSize
  BY <1>16 DEF ReadImageSize
<1>17. CASE ClearLandmarks
  BY <1>17 DEF ClearLandmarks
<1>18. CASE PushLandmark
  BY <1>18 DEF PushLandmark
<1>19. CASE UnlockLandmarks
  BY <1>19 DEF UnlockLandmarks, Refill, TypeOK
<1>20. CASE GraphWorks
  BY <1>20 DEF GraphWorks, RunCalculators
<1>21. CASE GraphFails
  BY <1>21 DEF GraphFails, GraphError
<1>22. CASE LoseCamera
  BY <1>22 DEF LoseCamera
<1>23. CASE SeeFlag
  BY <1>23 DEF SeeFlag
<1>24. CASE Ended
  BY <1>24 DEF Ended
<1>25. CASE UNCHANGED vars
  BY <1>25
<1>26. QED
  BY <1>1, <1>2, <1>3, <1>4, <1>5, <1>6, <1>7, <1>8, <1>9, <1>10, <1>11, <1>12,
     <1>13, <1>14, <1>15, <1>16, <1>17, <1>18, <1>19, <1>20, <1>21, <1>22,
     <1>23, <1>24, <1>25
     DEF Next, MainNext, TrackerNext

(* Every step keeps what the main thread may read a whole hand.            *)
LEMMA ReadingStep == TypeOK /\ Threads /\ Refill /\ Reading /\ [Next]_vars => Reading'
<1> SUFFICES ASSUME TypeOK, Threads, Refill, Reading, [Next]_vars PROVE Reading'
  OBVIOUS
<1> USE DEF vars, libmpVars, mainVars, trackerVars, flagVars, sharedVars,
           historyVars, Reading, Free, LandmarkCount
<1>1. CASE CreateGraph
  BY <1>1 DEF CreateGraph, Create, Crash
<1>2. CASE StartGraph
  BY <1>2 DEF StartGraph, Start
<1>3. CASE OpenCamera
  BY <1>3 DEF OpenCamera
<1>4. CASE PollEvents
  BY <1>4 DEF PollEvents
<1>5. CASE ReadWrist
  BY <1>5 DEF ReadWrist
<1>6. CASE ReadSize
  BY <1>6 DEF ReadSize, Threads, TypeOK
<1>7. CASE ReadLandmark
  BY <1>7 DEF ReadLandmark, TypeOK
<1>8. CASE JudgeFist
  BY <1>8 DEF JudgeFist
<1>9. CASE EndFrame
  BY <1>9 DEF EndFrame
<1>10. CASE StopTracking
  BY <1>10 DEF StopTracking
<1>11. CASE Join
  BY <1>11 DEF Join
<1>12. CASE CheckTracking
  BY <1>12 DEF CheckTracking
<1>13. CASE ProcessImage
  BY <1>13 DEF ProcessImage, Process, ProcessSucceeds, Crash
<1>14. CASE AwaitIdle
  BY <1>14 DEF AwaitIdle, Idle
<1>15. CASE ParseLandmarks
  BY <1>15 DEF ParseLandmarks, GetOutputPacket
<1>16. CASE ReadImageSize
  BY <1>16 DEF ReadImageSize
<1>17. CASE ClearLandmarks
  BY <1>17 DEF ClearLandmarks, TypeOK
<1>18. CASE PushLandmark
  BY <1>18 DEF PushLandmark, Threads
<1>19. CASE UnlockLandmarks
  BY <1>19 DEF UnlockLandmarks, Refill, TypeOK
<1>20. CASE GraphWorks
  BY <1>20 DEF GraphWorks, RunCalculators
<1>21. CASE GraphFails
  BY <1>21 DEF GraphFails, GraphError
<1>22. CASE LoseCamera
  BY <1>22 DEF LoseCamera
<1>23. CASE SeeFlag
  BY <1>23 DEF SeeFlag
<1>24. CASE Ended
  BY <1>24 DEF Ended
<1>25. CASE UNCHANGED vars
  BY <1>25
<1>26. QED
  BY <1>1, <1>2, <1>3, <1>4, <1>5, <1>6, <1>7, <1>8, <1>9, <1>10, <1>11, <1>12,
     <1>13, <1>14, <1>15, <1>16, <1>17, <1>18, <1>19, <1>20, <1>21, <1>22,
     <1>23, <1>24, <1>25
     DEF Next, MainNext, TrackerNext

(* isFistClosed reads one hand, unless it is refilled meanwhile.            *)
LEMMA ReadsStep == TypeOK /\ Threads /\ Reading /\ ReadsOneHand /\ [Next]_vars => ReadsOneHand'
<1> SUFFICES ASSUME TypeOK, Threads, Reading, ReadsOneHand, [Next]_vars PROVE ReadsOneHand'
  OBVIOUS
<1> USE DEF vars, libmpVars, mainVars, trackerVars, flagVars, sharedVars,
           historyVars, ReadsOneHand, LandmarkCount
<1>1. CASE CreateGraph
  BY <1>1 DEF CreateGraph, Create, Crash
<1>2. CASE StartGraph
  BY <1>2 DEF StartGraph, Start
<1>3. CASE OpenCamera
  BY <1>3 DEF OpenCamera
<1>4. CASE PollEvents
  BY <1>4 DEF PollEvents
<1>5. CASE ReadWrist
  BY <1>5 DEF ReadWrist
<1>6. CASE ReadSize
  BY <1>6 DEF ReadSize, Reading, TypeOK
<1>7. CASE ReadLandmark
  BY <1>7 DEF ReadLandmark, Reading, TypeOK, HandLandmark
<1>8. CASE JudgeFist
  BY <1>8 DEF JudgeFist
<1>9. CASE EndFrame
  BY <1>9 DEF EndFrame
<1>10. CASE StopTracking
  BY <1>10 DEF StopTracking
<1>11. CASE Join
  BY <1>11 DEF Join
<1>12. CASE CheckTracking
  BY <1>12 DEF CheckTracking
<1>13. CASE ProcessImage
  BY <1>13 DEF ProcessImage, Process, ProcessSucceeds, Crash
<1>14. CASE AwaitIdle
  BY <1>14 DEF AwaitIdle, Idle
<1>15. CASE ParseLandmarks
  BY <1>15 DEF ParseLandmarks, GetOutputPacket
<1>16. CASE ReadImageSize
  BY <1>16 DEF ReadImageSize
<1>17. CASE ClearLandmarks
  BY <1>17 DEF ClearLandmarks
<1>18. CASE PushLandmark
  BY <1>18 DEF PushLandmark
<1>19. CASE UnlockLandmarks
  BY <1>19 DEF UnlockLandmarks
<1>20. CASE GraphWorks
  BY <1>20 DEF GraphWorks, RunCalculators
<1>21. CASE GraphFails
  BY <1>21 DEF GraphFails, GraphError
<1>22. CASE LoseCamera
  BY <1>22 DEF LoseCamera
<1>23. CASE SeeFlag
  BY <1>23 DEF SeeFlag
<1>24. CASE Ended
  BY <1>24 DEF Ended
<1>25. CASE UNCHANGED vars
  BY <1>25
<1>26. QED
  BY <1>1, <1>2, <1>3, <1>4, <1>5, <1>6, <1>7, <1>8, <1>9, <1>10, <1>11, <1>12,
     <1>13, <1>14, <1>15, <1>16, <1>17, <1>18, <1>19, <1>20, <1>21, <1>22,
     <1>23, <1>24, <1>25
     DEF Next, MainNext, TrackerNext

(* After every step the game sees, asks about and judges the image that    *)
(* the tracking thread has published last.                                 *)
LEMMA SightedStep ==
  /\ TypeOK /\ Threads /\ Refill /\ Reading /\ PublishesCurrentImage /\ ReadsOneHand
  /\ Sighted /\ [Next]_vars
  => Sighted'
<1> SUFFICES ASSUME TypeOK, Threads, Refill, Reading, PublishesCurrentImage, ReadsOneHand,
                    Sighted, [Next]_vars
             PROVE  Sighted'
  OBVIOUS
<1> USE DEF vars, libmpVars, mainVars, trackerVars, flagVars, sharedVars,
           historyVars, Sighted, NoShotWithoutHand, Shows
<1>1. CASE CreateGraph
  BY <1>1 DEF CreateGraph, Create, Crash, Threads
<1>2. CASE StartGraph
  BY <1>2 DEF StartGraph, Start
<1>3. CASE OpenCamera
  BY <1>3 DEF OpenCamera, Threads
<1>4. CASE PollEvents
  BY <1>4 DEF PollEvents
<1>5. CASE ReadWrist
  BY <1>5 DEF ReadWrist
<1>6. CASE ReadSize
  <2>1. /\ tpc # "fill" /\ asked' = tracked /\ snapshot' = frameHandLandmarks
        /\ Len(frameHandLandmarks) \in {0, LandmarkCount}
    BY <1>6 DEF ReadSize, Reading, Threads, Free
  <2>2. mpc' \in {"tips", "judge"} => Len(snapshot') = LandmarkCount
    BY <1>6, <2>1 DEF ReadSize
  <2>3. /\ mpc' # "judge"
        /\ UNCHANGED <<tpc, camera, frameEmpty, frameHandLandmarks, tracked>>
    BY <1>6 DEF ReadSize
  <2>4. ~shooting'
    BY <1>6 DEF ReadSize
  <2>5. QED
    BY <2>1, <2>2, <2>3, <2>4
<1>7. CASE ReadLandmark
  BY <1>7 DEF ReadLandmark
<1>8. CASE JudgeFist
  <2>1. Len(snapshot) = LandmarkCount /\ Len(reads) = LandmarkCount /\ mpc = "judge"
    BY <1>8 DEF JudgeFist
  <2>2. asked \in Hands /\ snapshot # << >>
    <3>1. Len(snapshot) # 0
      BY <2>1 DEF LandmarkCount
    <3>2. snapshot # << >>
      BY <3>1
    <3>3. QED
      BY <2>1, <3>2
  <2>3. ASSUME ~raced, camera # "lost" PROVE FistClosed(reads) <=> FistClosed(Landmarks[asked])
    <3>1. \A k \in 1 .. LandmarkCount : reads[k] = Landmarks[asked][k]
      BY <2>1, <2>2, <2>3 DEF ReadsOneHand
    <3>2. reads[Wrist] = Landmarks[asked][Wrist] /\ reads[Thumb] = Landmarks[asked][Thumb]
      BY <3>1 DEF Wrist, Thumb, LandmarkCount
    <3>3. \A k \in OtherTips : reads[k] = Landmarks[asked][k]
      BY <3>1 DEF OtherTips, LandmarkCount
    <3>4. QED
      BY <3>2, <3>3 DEF FistClosed
  <2>4. /\ mpc' = "frame" /\ shooting' = FistClosed(reads)
        /\ UNCHANGED <<tpc, camera, frameEmpty, frameHandLandmarks, tracked, asked, raced>>
    BY <1>8 DEF JudgeFist
  <2>5. NoShotWithoutHand'
    BY <2>2, <2>3, <2>4
  <2>6. QED
    BY <2>4, <2>5
<1>9. CASE EndFrame
  BY <1>9 DEF EndFrame
<1>10. CASE StopTracking
  BY <1>10 DEF StopTracking
<1>11. CASE Join
  BY <1>11 DEF Join
<1>12. CASE CheckTracking
  BY <1>12 DEF CheckTracking
<1>13. CASE ProcessImage
  BY <1>13 DEF ProcessImage, Process, ProcessSucceeds, Crash
<1>14. CASE AwaitIdle
  BY <1>14 DEF AwaitIdle, Idle
<1>15. CASE ParseLandmarks
  BY <1>15 DEF ParseLandmarks, GetOutputPacket
<1>16. CASE ReadImageSize
  BY <1>16 DEF ReadImageSize
<1>17. CASE ClearLandmarks
  BY <1>17 DEF ClearLandmarks
<1>18. CASE PushLandmark
  BY <1>18 DEF PushLandmark
<1>19. CASE UnlockLandmarks
  <2>1. /\ tracked' = image /\ tpc' = "check" /\ tpc = "fill"
        /\ UNCHANGED <<mpc, camera, frameEmpty, frameHandLandmarks, snapshot, reads, asked, raced, shooting>>
    BY <1>19 DEF UnlockLandmarks
  <2>2. Shows(frameHandLandmarks, image)
    <3>1. CASE handLandmarks = NoHand
      BY <2>1, <3>1 DEF Refill
    <3>2. CASE handLandmarks # NoHand
      <4>1. handLandmarks = image /\ image \in Hands
        BY <2>1, <3>2 DEF PublishesCurrentImage, TypeOK, Images
      <4>2. Len(frameHandLandmarks) = LandmarkCount
        BY <1>19, <3>2 DEF UnlockLandmarks
      <4>3. \A k \in 1 .. LandmarkCount : frameHandLandmarks[k] = ScaledLandmark(image, k)
        BY <2>1, <3>2, <4>1, <4>2 DEF Refill
      <4>4. QED
        BY <4>1, <4>3 DEF ScaledLandmark
    <3>3. QED
      BY <3>1, <3>2
  <2>3. QED
    BY <2>1, <2>2
<1>20. CASE GraphWorks
  BY <1>20 DEF GraphWorks, RunCalculators
<1>21. CASE GraphFails
  BY <1>21 DEF GraphFails, GraphError
<1>22. CASE LoseCamera
  BY <1>22 DEF LoseCamera
<1>23. CASE SeeFlag
  BY <1>23 DEF SeeFlag
<1>24. CASE Ended
  BY <1>24 DEF Ended
<1>25. CASE UNCHANGED vars
  BY <1>25
<1>26. QED
  BY <1>1, <1>2, <1>3, <1>4, <1>5, <1>6, <1>7, <1>8, <1>9, <1>10, <1>11, <1>12,
     <1>13, <1>14, <1>15, <1>16, <1>17, <1>18, <1>19, <1>20, <1>21, <1>22,
     <1>23, <1>24, <1>25
     DEF Next, MainNext, TrackerNext

-----------------------------------------------------------------------------
(* The inductive invariant.                                                *)
IInv ==
  /\ TypeOK
  /\ Threads /\ InFlight /\ Refill /\ Reading /\ Sighted
  /\ PublishesCurrentImage
  /\ ReadsOneHand

(* The program starts in a state of the inductive invariant.               *)
LEMMA InitIInv == Init => IInv
<1> SUFFICES ASSUME Init PROVE IInv
  OBVIOUS
<1>1. TypeOK
  BY InitTypeOK
<1>2. Threads
  BY DEF Init, Threads, Free
<1>3. InFlight /\ Refill
  BY DEF Init, LibMPInit, InFlight, Answered, Refill
<1>4. Reading /\ ReadsOneHand
  BY DEF Init, Reading, ReadsOneHand, LandmarkCount
<1>5. Sighted /\ PublishesCurrentImage
  BY DEF Init, Sighted, PublishesCurrentImage, NoShotWithoutHand, Shows, Publication
<1>6. QED
  BY <1>1, <1>2, <1>3, <1>4, <1>5 DEF IInv

(* The inductive invariant holds in every reachable state.                 *)
THEOREM IInvHolds == Spec => []IInv
<1>1. IInv /\ [Next]_vars => IInv'
  BY TypeStep, ThreadsStep, InFlightStep, RefillStep, PublishStep, ReadingStep,
     ReadsStep, SightedStep DEF IInv
<1>2. QED
  BY <1>1, InitIInv, PTL DEF Spec

(* isFistClosed never sees a half refilled hand, and reads one hand unless *)
(* the tracking thread publishes another one in between.                   *)
THEOREM ReadsOneHandHolds == Spec => []ReadsOneHand
<1>1. IInv => ReadsOneHand
  BY DEF IInv
<1>2. QED
  BY <1>1, IInvHolds, PTL

(* An iteration of startHandTrackingThread publishes the hand of its own   *)
(* image, or none when the graph has failed.                               *)
THEOREM PublishesCurrentImageHolds == Spec => []PublishesCurrentImage
<1>1. IInv => PublishesCurrentImage
  BY DEF IInv
<1>2. QED
  BY <1>1, IInvHolds, PTL

(* When close has joined and main destroys the tracker, the tracking       *)
(* thread has left its loop and the mutex is free.                         *)
THEOREM JoinedBeforeDestructionHolds == Spec => []JoinedBeforeDestruction
<1>1. IInv => JoinedBeforeDestruction
  BY DEF IInv, TypeOK, Threads, JoinedBeforeDestruction, Free
<1>2. QED
  BY <1>1, IInvHolds, PTL

(* The game shoots only if the image that was published last when          *)
(* isFistClosed asked for the size showed a hand, and unless another was   *)
(* published meanwhile or the camera was lost, that hand was a fist.       *)
THEOREM NoShotWithoutHandHolds == Spec => []NoShotWithoutHand
<1>1. IInv => NoShotWithoutHand
  BY DEF IInv, Sighted, NoShotWithoutHand
<1>2. QED
  BY <1>1, IInvHolds, PTL
=============================================================================

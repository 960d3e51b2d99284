------------------------------ MODULE Exchange ------------------------------
(***************************************************************************)
(* The life of the exchange process (src/exchange_main.cpp): main builds a *)
(* Logger and a MatchingEngine, each with a thread of its own, starts the  *)
(* engine's thread and logs for ever; SIGINT runs signal_handler on top of *)
(* whatever main was doing, and the handler takes everything down while    *)
(* the other threads run.                                                  *)
(*                                                                         *)
(* A Logger's queue is kept as two numbers, the elements between its two   *)
(* indices and num_elements_; SPSC has the detail.  Both queues are taken  *)
(* to be large enough, as there.  Nothing under src/ writes requests; they *)
(* come from an order gateway (note.md:55) and are external.               *)
(***************************************************************************)
EXTENDS Integers

CONSTANTS
  LogLength,     \* how many elements one call of log() pushes
  LogRoom,       \* how many elements a logger's queue has room for
  MaxRequests,   \* bound: requests the gateway has waiting
  GraceSteps,    \* steps a thread that can run takes in ~MatchingEngine's second
  LateCalls      \* outcomes of a thread calling what it was given too late

ASSUME ExchangeAssumption ==
  /\ LogLength \in Nat \ {0} /\ LogRoom \in Nat \ {0}
  /\ MaxRequests \in Nat
  /\ GraceSteps \in Nat
  /\ LateCalls \in (SUBSET {"runs", "crashes"}) \ {{}}

(* The most steps the engine's thread takes before it looks at run_ again:  *)
(* find a request, log it (two steps an element), process and pop it, look. *)
LongestTurn == 2 * LogLength + 4

ASSUME GraceAssumption == GraceSteps >= LongestTurn

Logs == {"exchange_main", "matching_engine"}   \* the two Logger objects
Threads == Logs \cup {"run"}                   \* each has a thread; run is the engine's
Loggings == {"main", "handler", "run"}         \* where log() is called from

VARIABLES
  main,          \* where main is, or was interrupted
  handler,       \* where signal_handler is
  thread,        \* where each thread is
  logging,       \* atomic steps left of the log() in progress
  unread,        \* elements between the indices of each logger's queue
  num_elements_, \* and how many are counted
  running_,      \* Logger::running_
  run_,          \* MatchingEngine::run_
  requests,      \* elements in the incoming request queue
  grace,         \* steps run has taken since ~MatchingEngine began to sleep
  process        \* "up", or how it ended

threadVars == <<thread, logging, unread, num_elements_, requests, grace>>
vars == <<main, handler, threadVars, running_, run_, process>>

Up == process = "up"
Interrupted == handler # "none"

Init ==
  /\ main = "new_logger"
  /\ handler = "none"
  /\ thread = [t \in Threads |-> "none"]
  /\ logging = [c \in Loggings |-> 0]
  /\ unread = [g \in Logs |-> 0]
  /\ num_elements_ = [g \in Logs |-> 0]
  /\ running_ = [g \in Logs |-> TRUE]
  /\ run_ = FALSE
  /\ requests = 0
  /\ grace = 0
  /\ process = "up"

-----------------------------------------------------------------------------
(* log(): each element is made visible, then counted (lf_queue.h:20-23).   *)

LogOf(caller) == IF caller = "main" THEN "exchange_main" ELSE "matching_engine"

Logged(caller) == [logging EXCEPT ![caller] = 2 * LogLength]

(* The call stands between the two statements of updateWriteIndex.         *)
HalfPushed(caller) == logging[caller] % 2 = 1

Push(caller) ==
  /\ logging[caller] # 0
  /\ logging' = [logging EXCEPT ![caller] = @ - 1]
  /\ \/ /\ ~ HalfPushed(caller)
        /\ unread[LogOf(caller)] < LogRoom
        /\ unread' = [unread EXCEPT ![LogOf(caller)] = @ + 1]
        /\ UNCHANGED num_elements_
     \/ /\ HalfPushed(caller)
        /\ num_elements_' = [num_elements_ EXCEPT ![LogOf(caller)] = @ + 1]
        /\ UNCHANGED unread

-----------------------------------------------------------------------------
(* main.                                                                   *)

MainGoes(from, to) ==
  /\ ~ Interrupted /\ logging["main"] = 0
  /\ main = from /\ main' = to
  /\ UNCHANGED <<handler, unread, num_elements_, running_, requests, grace, process>>

(* createAndStartThread: the thread is made, and its creator waits until   *)
(* it has said that it is running.                                         *)
Creates(t, from, to) ==
  /\ MainGoes(from, to)
  /\ thread' = [thread EXCEPT ![t] = "created"]
  /\ UNCHANGED <<logging, run_>>

SeesRunning(t, from, to) ==
  /\ MainGoes(from, to)
  /\ thread[t] # "created"
  /\ UNCHANGED <<thread, logging, run_>>

MainLogs(from, to) ==
  /\ MainGoes(from, to)
  /\ logging' = Logged("main")
  /\ UNCHANGED <<thread, run_>>

StartEngine ==
  /\ MainGoes("start", "new_thread")
  /\ run_' = TRUE
  /\ UNCHANGED <<thread, logging>>

MainPushes ==
  /\ ~ Interrupted
  /\ Push("main")
  /\ UNCHANGED <<main, handler, thread, running_, run_, requests, grace, process>>

Main ==
  \/ Creates("exchange_main", "new_logger", "await_logger")
  \/ SeesRunning("exchange_main", "await_logger", "starting")
  \/ MainLogs("starting", "new_engine")
  \/ Creates("matching_engine", "new_engine", "await_engine")
  \/ SeesRunning("matching_engine", "await_engine", "start")
  \/ StartEngine
  \/ Creates("run", "new_thread", "await_thread")
  \/ SeesRunning("run", "await_thread", "sleeping")
  \/ MainLogs("sleeping", "sleeping")
  \/ MainPushes

-----------------------------------------------------------------------------
(* Every new thread.                                                       *)

Goes(t, from, to) ==
  /\ thread[t] = from
  /\ thread' = [thread EXCEPT ![t] = to]

Announces(t) ==
  /\ Goes(t, "created", "announced")
  /\ UNCHANGED <<main, handler, logging, unread, num_elements_, running_, run_, requests, process>>

(* func and args are temporaries of the expression that called             *)
(* createAndStartThread, captured by reference: the call is good only      *)
(* while that expression is still being evaluated.                         *)
Creating(t) ==
  main = CASE t = "exchange_main"   -> "await_logger"
           [] t = "matching_engine" -> "await_engine"
           [] t = "run"             -> "await_thread"

CallsFunc(t) ==
  /\ thread[t] = "announced"
  /\ \E outcome \in IF Creating(t) THEN {"runs"} ELSE LateCalls :
       \/ /\ outcome = "runs"
          /\ Goes(t, "announced", "check")
          /\ logging' = IF t = "run" THEN Logged("run") ELSE logging
          /\ UNCHANGED process
       \/ /\ outcome = "crashes"
          /\ process' = "crashed"
          /\ UNCHANGED <<thread, logging>>
  /\ UNCHANGED <<main, handler, unread, num_elements_, running_, run_, requests>>

ThreadStarts(t) == Announces(t) \/ CallsFunc(t)

-----------------------------------------------------------------------------
(* Logger::flushQueue.                                                     *)

flushUnchanged == <<main, handler, logging, running_, run_, requests, grace, process>>

(* The outer loop.                                                         *)
ChecksRunning(g) ==
  /\ Goes(g, "check", IF running_[g] THEN "scan" ELSE "done")
  /\ UNCHANGED <<unread, num_elements_>>

(* A seeded fault: the inner loop does not ask for the size.               *)
ScansUncounted(g) ==
  /\ Goes(g, "scan", IF unread[g] # 0 THEN "retire" ELSE "check")
  /\ UNCHANGED <<unread, num_elements_>>

(* The inner loop's condition; where it holds, the element is written.     *)
Scans(g) ==
  /\ Goes(g, "scan", IF unread[g] # 0 /\ num_elements_[g] # 0 THEN "retire" ELSE "check")
  /\ UNCHANGED <<unread, num_elements_>>

Retires(g) ==
  /\ Goes(g, "retire", "uncount")
  /\ unread' = [unread EXCEPT ![g] = @ - 1]
  /\ UNCHANGED num_elements_

Uncounts(g) ==
  /\ Goes(g, "uncount", "scan")
  /\ num_elements_' = [num_elements_ EXCEPT ![g] = @ - 1]
  /\ UNCHANGED unread

FlushQueue(g) ==
  /\ ChecksRunning(g) \/ Scans(g) \/ Retires(g) \/ Uncounts(g)
  /\ UNCHANGED flushUnchanged

-----------------------------------------------------------------------------
(* MatchingEngine::run.  It begins, and every request begins, with a log().*)

runUnchanged == <<main, handler, running_, run_>>

(* run_ is read; it is written by start, and by ~MatchingEngine.           *)
ChecksRun ==
  /\ logging["run"] = 0
  /\ Goes("run", "check", IF run_ THEN "next" ELSE "done")
  /\ UNCHANGED <<logging, unread, num_elements_, requests, process>>

LooksForRequest ==
  /\ \/ requests = 0 /\ Goes("run", "next", "check") /\ UNCHANGED logging
     \/ requests # 0 /\ Goes("run", "next", "process") /\ logging' = Logged("run")
  /\ UNCHANGED <<unread, num_elements_, requests, process>>

(* processClientRequest does nothing with an order, and ends the process   *)
(* at a type it does not know.                                             *)
ProcessesRequest ==
  /\ logging["run"] = 0
  /\ \E type \in {"NEW", "CANCEL", "INVALID"} :
       \/ type # "INVALID" /\ Goes("run", "process", "pop") /\ UNCHANGED process
       \/ type = "INVALID" /\ thread["run"] = "process" /\ process' = "fatal" /\ UNCHANGED thread
  /\ UNCHANGED <<logging, unread, num_elements_, requests>>

(* A seeded fault: the request is not taken from the queue.                *)
ForgetsRequest ==
  /\ Goes("run", "pop", "check")
  /\ UNCHANGED <<logging, unread, num_elements_, requests, process>>

PopsRequest ==
  /\ Goes("run", "pop", "check")
  /\ requests' = requests - 1
  /\ UNCHANGED <<logging, unread, num_elements_, process>>

RunPushes ==
  /\ Push("run")
  /\ UNCHANGED <<thread, requests, process>>

RunLoop ==
  /\ ChecksRun \/ LooksForRequest \/ ProcessesRequest \/ PopsRequest \/ RunPushes
  /\ UNCHANGED runUnchanged

(* What the engine's thread does while ~MatchingEngine sleeps is counted.  *)
EngineThread ==
  /\ ThreadStarts("run") \/ RunLoop
  /\ grace' = IF handler = "grace" /\ grace < GraceSteps THEN grace + 1 ELSE grace

LoggerThread(g) ==
  \/ ThreadStarts(g) /\ UNCHANGED grace
  \/ FlushQueue(g)

(* External: the order gateway's thread.                                   *)
Request ==
  /\ requests < MaxRequests
  /\ requests' = requests + 1
  /\ UNCHANGED <<main, handler, thread, logging, unread, num_elements_, running_, run_, grace, process>>

-----------------------------------------------------------------------------
(* signal_handler.                                                         *)

(* SIGINT, once std::signal has run; the kernel delivers it to main.  The  *)
(* handler begins with a sleep.                                            *)
Interrupt ==
  /\ ~ Interrupted /\ main \notin {"new_logger", "await_logger"}
  /\ handler' = "delete_logger"
  /\ UNCHANGED <<main, threadVars, running_, run_, process>>

HandlerGoes(from, to) == handler = from /\ handler' = to /\ UNCHANGED main

(* A seeded fault: ~Logger does not wait for its queue to become empty.    *)
FlushSkipped(g, from, to) ==
  /\ HandlerGoes(from, to)
  /\ UNCHANGED <<threadVars, running_, run_, process>>

(* ~Logger: it waits for size() to be zero,                                *)
Flushed(g, from, to) ==
  /\ HandlerGoes(from, to)
  /\ num_elements_[g] = 0
  /\ UNCHANGED <<threadVars, running_, run_, process>>

(* A seeded fault: running_ stays set.                                     *)
RunningKept(g, from, to) ==
  /\ HandlerGoes(from, to)
  /\ UNCHANGED <<running_, threadVars, run_, process>>

(* then stops its thread,                                                  *)
RunningCleared(g, from, to) ==
  /\ HandlerGoes(from, to)
  /\ running_' = [running_ EXCEPT ![g] = FALSE]
  /\ UNCHANGED <<threadVars, run_, process>>

(* joins it and closes the file.                                           *)
Joined(g, from, to) ==
  /\ HandlerGoes(from, to)
  /\ thread[g] = "done"
  /\ UNCHANGED <<threadVars, running_, run_, process>>

DeletesLogger ==
  \/ Flushed("exchange_main", "delete_logger", "stop_logger")
  \/ RunningCleared("exchange_main", "stop_logger", "join_logger")
  \/ Joined("exchange_main", "join_logger", "delete_engine")

(* matching_engine is set once the constructor has returned.               *)
EngineBuilt == main \notin {"new_logger", "await_logger", "starting", "new_engine", "await_engine"}

(* delete of a null pointer.                                               *)
HasNoEngine ==
  /\ ~ EngineBuilt
  /\ HandlerGoes("delete_engine", "exit")
  /\ UNCHANGED <<threadVars, running_, run_, process>>

(* A seeded fault: ~MatchingEngine does not clear run_.                    *)
RunKept ==
  /\ EngineBuilt
  /\ HandlerGoes("delete_engine", "grace")
  /\ UNCHANGED <<run_, threadVars, running_, process>>

RunCleared ==
  /\ EngineBuilt
  /\ HandlerGoes("delete_engine", "grace")
  /\ run_' = FALSE
  /\ UNCHANGED <<threadVars, running_, process>>

(* The second is over: its thread has had time for GraceSteps steps.  Then *)
(* the queues are set to null and the first order book logs itself away.   *)
(* (One book stands for the ME_MAX_TICKERS that follow each other.)        *)
GraceEnds ==
  /\ HandlerGoes("grace", "delete_engine_logger")
  /\ grace = GraceSteps \/ thread["run"] \in {"none", "done"}
  /\ logging' = Logged("handler")
  /\ UNCHANGED <<thread, unread, num_elements_, requests, grace, running_, run_, process>>

BookPushes ==
  /\ Push("handler")
  /\ UNCHANGED <<main, handler, thread, requests, grace, running_, run_, process>>

DeletesEngineLogger ==
  \/ /\ logging["handler"] = 0
     /\ Flushed("matching_engine", "delete_engine_logger", "stop_engine_logger")
  \/ RunningCleared("matching_engine", "stop_engine_logger", "join_engine_logger")
  \/ Joined("matching_engine", "join_engine_logger", "exit")

Exits ==
  /\ handler = "exit"
  /\ process' = "exited"
  /\ UNCHANGED <<main, handler, threadVars, running_, run_>>

Handler ==
  \/ DeletesLogger \/ HasNoEngine \/ RunCleared \/ GraceEnds
  \/ BookPushes \/ DeletesEngineLogger \/ Exits

-----------------------------------------------------------------------------
Ended == ~ Up /\ UNCHANGED vars

Next ==
  \/ Up /\ (Main \/ Handler \/ EngineThread \/ Request \/ Interrupt)
  \/ Up /\ \E g \in Logs : LoggerThread(g)
  \/ Ended

(* The scheduler runs every thread; the handler is part of main's.  Nobody *)
(* has to send requests or a signal.                                       *)
Fairness ==
  /\ WF_vars(Up /\ Main) /\ WF_vars(Up /\ Handler) /\ WF_vars(Up /\ EngineThread)
  /\ \A g \in Logs : WF_vars(Up /\ LoggerThread(g))

Spec == Init /\ [][Next]_vars /\ Fairness

-----------------------------------------------------------------------------
(* Every variable stays in its type; no count goes below zero.             *)
TypeOK ==
  /\ main \in {"new_logger", "await_logger", "starting", "new_engine", "await_engine",
               "start", "new_thread", "await_thread", "sleeping"}
  /\ handler \in {"none", "delete_logger", "stop_logger", "join_logger", "delete_engine",
                  "grace", "delete_engine_logger", "stop_engine_logger",
                  "join_engine_logger", "exit"}
  /\ thread \in [Threads -> {"none", "created", "announced", "check", "scan", "retire",
                             "uncount", "next", "process", "pop", "done"}]
  /\ logging \in [Loggings -> 0 .. 2 * LogLength]
  /\ unread \in [Logs -> 0 .. LogRoom]
  /\ num_elements_ \in [Logs -> 0 .. LogRoom + 1]
  /\ running_ \in [Logs -> BOOLEAN]
  /\ run_ \in BOOLEAN
  /\ requests \in 0 .. MaxRequests
  /\ grace \in 0 .. GraceSteps
  /\ process \in {"up", "crashed", "fatal", "exited"}

(* When the file of a logger is closed nothing that was logged is missing  *)
(* from it: its thread wrote every element, except the one whose           *)
(* updateWriteIndex the signal interrupted half way (logger.cpp:50-56).    *)
ClosedLogIsComplete ==
  \A g \in Logs :
    thread[g] = "done" =>
      unread[g] = IF g = "exchange_main" /\ HalfPushed("main") THEN 1 ELSE 0

(* ~MatchingEngine does not join the engine's thread, it sleeps            *)
(* (matching_engine.cpp:15-24).  If the second is long enough for one turn *)
(* of the loop, the thread is gone before the queues, the books and the    *)
(* logger it uses, wherever in main the signal came.                       *)
NothingUsedAfterFree ==
  handler \in {"delete_engine_logger", "stop_engine_logger", "join_engine_logger", "exit"} =>
    thread["run"] \in {"none", "done"}

(* After SIGINT the process ends, whatever its threads were doing.         *)
ShutdownCompletes == Interrupted ~> ~ Up

(* The engine gets round to every request that waits in its queue, unless  *)
(* the process is taken down first.                                        *)
RequestsAreTaken ==
  \A n \in 1 .. MaxRequests : requests = n ~> (requests # n \/ Interrupted \/ ~ Up)
=============================================================================

--------------------------- MODULE ExchangeProofs ---------------------------
(***************************************************************************)
(* Safety of Exchange for log calls, queues and request numbers of every   *)
(* size, from GraceAssumption: one second is enough for one turn of the    *)
(* engine's loop.                                                          *)
(***************************************************************************)
EXTENDS Exchange, TLAPS

FlushPlaces == {"none", "created", "announced", "check", "scan", "retire", "uncount", "done"}
RunPlaces == {"none", "created", "announced", "check", "next", "process", "pop", "done"}

(* Each thread is in its own loop, and is made once, by main.  The request *)
(* that the engine's thread works on is still in the queue.                *)
Places ==
  /\ thread["run"] \in RunPlaces
  /\ \A g \in Logs : thread[g] \in FlushPlaces
  /\ main = "new_logger" => thread["exchange_main"] = "none"
  /\ main \in {"new_logger", "await_logger", "starting", "new_engine"} =>
       thread["matching_engine"] = "none"
  /\ main \notin {"await_thread", "sleeping"} => thread["run"] = "none"
  /\ thread["run"] \in {"process", "pop"} => requests > 0

(* Where log() may be in progress.                                         *)
LoggingInv ==
  /\ thread["run"] \notin {"check", "process"} => logging["run"] = 0
  /\ handler # "delete_engine_logger" => logging["handler"] = 0

(* The steps that the engine's thread still takes once run_ is clear.      *)
Remaining ==
  CASE thread["run"] = "created"   -> 2 * LogLength + 3
    [] thread["run"] = "announced" -> 2 * LogLength + 2
    [] thread["run"] = "check"     -> logging["run"] + 1
    [] thread["run"] = "next"      -> 2 * LogLength + 4
    [] thread["run"] = "process"   -> logging["run"] + 3
    [] thread["run"] = "pop"       -> 2
    [] OTHER                       -> 0

(* The second that ~MatchingEngine sleeps is never shorter than they are.  *)
GraceInv ==
  /\ handler \in {"none", "delete_logger", "stop_logger", "join_logger", "delete_engine"} =>
       grace = 0
  /\ handler = "grace" /\ Up => ~ run_ /\ grace + Remaining <= GraceSteps
  /\ NothingUsedAfterFree

Half(caller) == logging[caller] % 2

(* Elements of a log that are visible and not yet counted.                 *)
Uncounted(g) == IF g = "exchange_main" THEN Half("main") ELSE Half("handler") + Half("run")

(* What size() is, and why its decrement never goes below zero.            *)
CountInv ==
  \A g \in Logs :
    /\ num_elements_[g] = IF thread[g] = "uncount" THEN unread[g] - Uncounted(g) + 1
                          ELSE unread[g] - Uncounted(g)
    /\ thread[g] \in {"retire", "uncount"} => num_elements_[g] > 0
    /\ thread[g] = "retire" => unread[g] > 0

(* Once a destructor has seen an empty queue it stays empty.               *)
DownInv ==
  /\ \A g \in Logs : thread[g] = "done" => running_[g] = FALSE
  /\ running_["exchange_main"] = FALSE => handler \notin {"none", "delete_logger"}
  /\ handler \notin {"none", "delete_logger"} => num_elements_["exchange_main"] = 0
  /\ handler \in {"stop_engine_logger", "join_engine_logger"} =>
       num_elements_["matching_engine"] = 0
  /\ running_["matching_engine"] = FALSE =>
       /\ handler \in {"join_engine_logger", "exit"}
       /\ num_elements_["matching_engine"] = 0

IInv == TypeOK /\ Places /\ LoggingInv /\ GraceInv /\ CountInv /\ DownInv

-----------------------------------------------------------------------------
(* The steps of log() come in pairs.                                       *)
LEMMA Parity ==
  /\ (2 * LogLength) % 2 = 0
  /\ \A n \in Nat \ {0} : (n - 1) % 2 = 1 - (n % 2) /\ n % 2 \in {0, 1}
  /\ 0 % 2 = 0
BY ExchangeAssumption

LEMMA InitIInv == Init => IInv
<1> SUFFICES ASSUME Init PROVE IInv
  OBVIOUS
<1> USE ExchangeAssumption DEF Init, Logs, Threads, Loggings
<1>1. TypeOK
  <2>1. 0 \in 0 .. LogRoom /\ 0 \in 0 .. LogRoom + 1 /\ 0 \in 0 .. 2 * LogLength
        /\ 0 \in 0 .. MaxRequests /\ 0 \in 0 .. GraceSteps
    OBVIOUS
  <2> QED
    BY <2>1 DEF TypeOK
<1>2. Places /\ LoggingInv /\ DownInv
  BY DEF Places, LoggingInv, DownInv, RunPlaces, FlushPlaces
<1>3. GraceInv
  BY DEF GraceInv, NothingUsedAfterFree
<1>4. CountInv
  BY Parity DEF CountInv, Uncounted, Half
<1> QED
  BY <1>1, <1>2, <1>3, <1>4 DEF IInv

-----------------------------------------------------------------------------
(* main, when it makes a thread.                                           *)
LEMMA CreatesStep ==
  ASSUME IInv, NEW t \in Threads, NEW from, NEW to, Creates(t, from, to),
         \/ t = "exchange_main" /\ from = "new_logger" /\ to = "await_logger"
         \/ t = "matching_engine" /\ from = "new_engine" /\ to = "await_engine"
         \/ t = "run" /\ from = "new_thread" /\ to = "await_thread"
  PROVE  IInv'
<1> USE ExchangeAssumption DEF IInv, Creates, MainGoes, Interrupted
<1>0. thread = [u \in Threads |-> thread[u]] /\ thread[t] = "none"
  BY DEF TypeOK, Places
<1>1. \A u \in Threads : thread'[u] = IF u = t THEN "created" ELSE thread[u]
  BY <1>0
<1>2. TypeOK'
  BY DEF TypeOK
<1>3. Places'
  BY <1>1 DEF Places, RunPlaces, FlushPlaces, Threads, Logs
<1>4. LoggingInv'
  BY <1>0, <1>1 DEF LoggingInv, Threads
<1>5. GraceInv'
  BY DEF GraceInv, NothingUsedAfterFree
<1>6. CountInv'
  BY <1>0, <1>1 DEF CountInv, Uncounted, Half, Logs, Threads
<1>7. DownInv'
  BY <1>1 DEF DownInv, Logs, Threads
<1> QED
  BY <1>2, <1>3, <1>4, <1>5, <1>6, <1>7

(* main, when it goes on: no thread is touched.                            *)
LEMMA MainGoesStep ==
  ASSUME IInv, NEW from, NEW to, MainGoes(from, to), UNCHANGED thread,
         \/ UNCHANGED <<logging, run_>>
         \/ UNCHANGED run_ /\ logging' = Logged("main")
         \/ UNCHANGED logging /\ run_' = TRUE,
         <<from, to>> \in {<<"await_logger", "starting">>, <<"starting", "new_engine">>,
                          <<"await_engine", "start">>, <<"start", "new_thread">>,
                          <<"await_thread", "sleeping">>, <<"sleeping", "sleeping">>}
  PROVE  IInv'
<1> USE ExchangeAssumption DEF IInv, MainGoes, Interrupted
<1>0. logging \in [Loggings -> 0 .. 2 * LogLength] /\ logging["main"] = 0
  BY DEF TypeOK
<1>1. /\ logging' \in [Loggings -> 0 .. 2 * LogLength]
      /\ logging'["run"] = logging["run"] /\ logging'["handler"] = logging["handler"]
      /\ Half("main")' = Half("main") /\ Half("run")' = Half("run")
      /\ Half("handler")' = Half("handler")
  BY <1>0, Parity DEF Logged, Loggings, Half
<1>2. TypeOK'
  BY <1>1 DEF TypeOK
<1>3. Places'
  BY DEF Places
<1>4. LoggingInv'
  BY <1>1 DEF LoggingInv
<1>5. GraceInv'
  BY DEF GraceInv, NothingUsedAfterFree
<1>6. CountInv'
  BY <1>1 DEF CountInv, Uncounted
<1>7. DownInv'
  BY DEF DownInv
<1> QED
  BY <1>2, <1>3, <1>4, <1>5, <1>6, <1>7

(* One step of log(), by any caller.                                       *)
LEMMA PushStep ==
  ASSUME TypeOK, CountInv, NEW c \in Loggings, Push(c), UNCHANGED thread
  PROVE  /\ logging' \in [Loggings -> 0 .. 2 * LogLength]
         /\ \A d \in Loggings : logging'[d] = IF d = c THEN logging[d] - 1 ELSE logging[d]
         /\ unread' \in [Logs -> 0 .. LogRoom]
         /\ num_elements_' \in [Logs -> 0 .. LogRoom + 1]
         /\ \A g \in Logs \ {LogOf(c)} : num_elements_'[g] = num_elements_[g]
         /\ CountInv'
<1> USE ExchangeAssumption
<1>1. /\ logging \in [Loggings -> 0 .. 2 * LogLength] /\ logging[c] \in Nat \ {0}
      /\ unread \in [Logs -> 0 .. LogRoom] /\ num_elements_ \in [Logs -> 0 .. LogRoom + 1]
      /\ LogOf(c) \in Logs
      /\ logging' = [logging EXCEPT ![c] = @ - 1]
  BY DEF TypeOK, Push, LogOf, Logs
<1>2. \A d \in Loggings : logging'[d] = IF d = c THEN logging[d] - 1 ELSE logging[d]
  BY <1>1
<1>3. logging' \in [Loggings -> 0 .. 2 * LogLength]
  <2>1. logging[c] - 1 \in 0 .. 2 * LogLength
    BY <1>1
  <2> QED
    BY <1>1, <2>1
<1>4. CASE ~ HalfPushed(c)
  <2>1. /\ Half(c) = 0 /\ Half(c)' = 1 /\ \A d \in Loggings \ {c} : Half(d)' = Half(d)
    BY <1>1, <1>2, <1>4, Parity DEF HalfPushed, Half
  <2>2. /\ unread[LogOf(c)] < LogRoom /\ unread' = [unread EXCEPT ![LogOf(c)] = @ + 1]
        /\ UNCHANGED num_elements_
    BY <1>4 DEF Push
  <2>3. unread' \in [Logs -> 0 .. LogRoom]
    BY <1>1, <2>2
  <2>4. ASSUME NEW g \in Logs
        PROVE  /\ Uncounted(g)' = IF g = LogOf(c) THEN Uncounted(g) + 1 ELSE Uncounted(g)
               /\ unread'[g] = IF g = LogOf(c) THEN unread[g] + 1 ELSE unread[g]
               /\ Uncounted(g) \in Nat /\ unread[g] \in Nat
    <3>1. \A d \in Loggings : Half(d) \in Nat
      BY <1>1 DEF Half
    <3> QED
      BY <1>1, <2>1, <2>2, <3>1 DEF Uncounted, LogOf, Loggings, Logs
  <2>5. CountInv'
    BY <1>1, <2>2, <2>4 DEF CountInv
  <2> QED
    BY <1>1, <1>2, <1>3, <2>2, <2>3, <2>5
<1>5. CASE HalfPushed(c)
  <2>1. /\ Half(c) = 1 /\ Half(c)' = 0 /\ \A d \in Loggings \ {c} : Half(d)' = Half(d)
    BY <1>1, <1>2, <1>5, Parity DEF HalfPushed, Half
  <2>2. /\ UNCHANGED unread
        /\ num_elements_' = [num_elements_ EXCEPT ![LogOf(c)] = @ + 1]
    BY <1>5 DEF Push
  <2>3. ASSUME NEW g \in Logs
        PROVE  /\ Uncounted(g)' = IF g = LogOf(c) THEN Uncounted(g) - 1 ELSE Uncounted(g)
               /\ num_elements_'[g] = IF g = LogOf(c) THEN num_elements_[g] + 1
                                      ELSE num_elements_[g]
               /\ Uncounted(g) \in Nat /\ unread[g] \in Nat /\ num_elements_[g] \in Nat
               /\ Uncounted(g)' \in Nat
    <3>1. \A d \in Loggings : Half(d) \in Nat
      BY <1>1 DEF Half
    <3> QED
      BY <1>1, <2>1, <2>2, <3>1 DEF Uncounted, LogOf, Loggings, Logs
  <2>4. CountInv'
    BY <1>1, <2>2, <2>3 DEF CountInv
  <2>5. num_elements_' \in [Logs -> 0 .. LogRoom + 1]
    <3>1. ASSUME NEW g \in Logs PROVE num_elements_'[g] \in 0 .. LogRoom + 1
      <4>1. /\ num_elements_'[g] \in Nat /\ Uncounted(g)' \in Nat
            /\ unread'[g] \in 0 .. LogRoom
        BY <1>1, <2>2, <2>3
      <4>2. num_elements_[g] \in 0 .. LogRoom + 1
        BY <1>1
      <4> QED
        BY <2>3, <2>4, <4>1, <4>2 DEF CountInv
    <3> QED
      BY <1>1, <2>2, <3>1
  <2> QED
    BY <1>1, <1>2, <1>3, <2>2, <2>4, <2>5
<1> QED
  BY <1>4, <1>5

(* main.                                                                   *)
LEMMA MainStep == IInv /\ Up /\ Main => IInv'
<1> SUFFICES ASSUME IInv, Up, Main PROVE IInv'
  OBVIOUS
<1>1. CASE \/ Creates("exchange_main", "new_logger", "await_logger")
           \/ Creates("matching_engine", "new_engine", "await_engine")
           \/ Creates("run", "new_thread", "await_thread")
  BY <1>1, CreatesStep DEF Threads, Logs
<1>2. CASE \/ SeesRunning("exchange_main", "await_logger", "starting")
           \/ SeesRunning("matching_engine", "await_engine", "start")
           \/ SeesRunning("run", "await_thread", "sleeping")
  BY <1>2, MainGoesStep DEF SeesRunning
<1>3. CASE MainLogs("starting", "new_engine") \/ MainLogs("sleeping", "sleeping")
  BY <1>3, MainGoesStep DEF MainLogs
<1>4. CASE StartEngine
  BY <1>4, MainGoesStep DEF StartEngine
<1>5. CASE MainPushes
  <2> USE <1>5 DEF IInv, MainPushes, Interrupted
  <2>1. "main" \in Loggings /\ LogOf("main") = "exchange_main"
    BY DEF Loggings, LogOf
  <2>2. TypeOK'
    BY <2>1, PushStep DEF TypeOK
  <2>3. logging'["run"] = logging["run"] /\ logging'["handler"] = logging["handler"]
        /\ num_elements_'["matching_engine"] = num_elements_["matching_engine"]
    BY <2>1, PushStep DEF Loggings, Logs
  <2>4. Places' /\ LoggingInv' /\ GraceInv' /\ DownInv'
    BY <2>3 DEF Places, LoggingInv, GraceInv, NothingUsedAfterFree, DownInv
  <2>5. CountInv'
    BY <2>1, PushStep
  <2> QED
    BY <2>2, <2>4, <2>5
<1> QED
  BY <1>1, <1>2, <1>3, <1>4, <1>5 DEF Main

-----------------------------------------------------------------------------
(* A logger's thread changes nothing but itself and its queue.             *)
LEMMA LoggerFrame ==
  ASSUME IInv, NEW g \in Logs, NEW to \in FlushPlaces \ {"none", "created"},
         thread' = [thread EXCEPT ![g] = to], thread[g] # "none",
         UNCHANGED <<main, handler, logging, running_, run_, requests, grace>>,
         Up' => Up, process' \in {process, "crashed"},
         unread' \in [Logs -> 0 .. LogRoom],
         num_elements_' \in [Logs -> 0 .. LogRoom + 1]
  PROVE  /\ \A u \in Threads : thread'[u] = IF u = g THEN to ELSE thread[u]
         /\ TypeOK' /\ Places' /\ LoggingInv' /\ GraceInv'
         /\ \A h \in Logs : Uncounted(h)' = Uncounted(h)
<1> USE DEF IInv
<1>1. g \in Threads /\ g # "run" /\ thread = [u \in Threads |-> thread[u]]
  BY DEF Logs, Threads, TypeOK
<1>2. \A u \in Threads : thread'[u] = IF u = g THEN to ELSE thread[u]
  BY <1>1
<1>3. TypeOK'
  BY <1>1 DEF TypeOK, FlushPlaces
<1>4. Places'
  BY <1>1, <1>2 DEF Places, Logs, Threads
<1>5. LoggingInv' /\ GraceInv'
  BY <1>1, <1>2 DEF LoggingInv, GraceInv, NothingUsedAfterFree, Remaining, Threads
<1>6. \A h \in Logs : Uncounted(h)' = Uncounted(h)
  BY DEF Uncounted, Half
<1> QED
  BY <1>2, <1>3, <1>4, <1>5, <1>6

(* A logger's thread.                                                      *)
LEMMA LoggerStep ==
  ASSUME IInv, Up, NEW g \in Logs, LoggerThread(g)
  PROVE  IInv'
<1> USE ExchangeAssumption DEF IInv
<1>0. /\ g \in Threads /\ g # "run" /\ thread[g] \in FlushPlaces
      /\ unread \in [Logs -> 0 .. LogRoom] /\ num_elements_ \in [Logs -> 0 .. LogRoom + 1]
      /\ \A h \in Logs : Uncounted(h) \in Int
  BY DEF Logs, Threads, Loggings, TypeOK, Places, Uncounted, Half
<1>1. CASE ThreadStarts(g) /\ UNCHANGED grace
  <2>1. PICK to \in {"announced", "check"} : thread' = [thread EXCEPT ![g] = to]
    BY <1>1, <1>0 DEF ThreadStarts, Announces, CallsFunc, Goes, TypeOK
  <2>2. /\ thread[g] \in {"created", "announced"}
        /\ UNCHANGED <<main, handler, logging, unread, num_elements_, running_, run_,
                       requests, grace>>
        /\ process' \in {process, "crashed"}
    BY <1>0, <1>1 DEF ThreadStarts, Announces, CallsFunc, Goes
  <2>3. /\ \A u \in Threads : thread'[u] = IF u = g THEN to ELSE thread[u]
        /\ TypeOK' /\ Places' /\ LoggingInv' /\ GraceInv'
        /\ \A h \in Logs : Uncounted(h)' = Uncounted(h)
    BY <1>0, <2>1, <2>2, LoggerFrame DEF Up, FlushPlaces
  <2>4. CountInv' /\ DownInv'
    BY <2>2, <2>3 DEF CountInv, DownInv, Logs, Threads
  <2> QED
    BY <2>3, <2>4
<1>2. CASE FlushQueue(g) /\ ChecksRunning(g)
  <2> DEFINE to == IF running_[g] THEN "scan" ELSE "done"
  <2>1. to \in {"scan", "done"} /\ thread' = [thread EXCEPT ![g] = to]
    BY <1>2 DEF ChecksRunning, Goes
  <2>2. to = "done" => running_[g] = FALSE
    BY <1>0 DEF TypeOK
  <2>3. /\ thread[g] = "check"
        /\ UNCHANGED <<main, handler, logging, unread, num_elements_, running_, run_,
                       requests, grace, process>>
    BY <1>2 DEF FlushQueue, flushUnchanged, ChecksRunning, Goes
  <2> HIDE DEF to
  <2>4. /\ \A u \in Threads : thread'[u] = IF u = g THEN to ELSE thread[u]
        /\ TypeOK' /\ Places' /\ LoggingInv' /\ GraceInv'
        /\ \A h \in Logs : Uncounted(h)' = Uncounted(h)
    BY <1>0, <2>1, <2>3, LoggerFrame DEF Up, FlushPlaces
  <2>5. CountInv'
    BY <1>0, <2>1, <2>3, <2>4 DEF CountInv, Logs, Threads
  <2>6. DownInv'
    BY <1>0, <2>1, <2>2, <2>3, <2>4 DEF DownInv, Logs, Threads
  <2> QED
    BY <2>4, <2>5, <2>6
<1>3. CASE FlushQueue(g) /\ Scans(g)
  <2>1. PICK to \in {"retire", "check"} :
          /\ thread' = [thread EXCEPT ![g] = to]
          /\ to = "retire" => unread[g] # 0 /\ num_elements_[g] # 0
    BY <1>3 DEF Scans, Goes
  <2>2. /\ thread[g] = "scan"
        /\ UNCHANGED <<main, handler, logging, unread, num_elements_, running_, run_,
                       requests, grace, process>>
    BY <1>3 DEF FlushQueue, flushUnchanged, Scans, Goes
  <2>3. /\ \A u \in Threads : thread'[u] = IF u = g THEN to ELSE thread[u]
        /\ TypeOK' /\ Places' /\ LoggingInv' /\ GraceInv'
        /\ \A h \in Logs : Uncounted(h)' = Uncounted(h)
    BY <1>0, <2>1, <2>2, LoggerFrame DEF Up, FlushPlaces
  <2>4. CountInv' /\ DownInv'
    BY <1>0, <2>1, <2>2, <2>3 DEF CountInv, DownInv, Logs, Threads
  <2> QED
    BY <2>3, <2>4
<1>4. CASE FlushQueue(g) /\ Retires(g)
  <2>1. /\ thread[g] = "retire" /\ thread' = [thread EXCEPT ![g] = "uncount"]
        /\ unread' = [unread EXCEPT ![g] = @ - 1] /\ unread[g] > 0
        /\ UNCHANGED <<main, handler, logging, num_elements_, running_, run_,
                       requests, grace, process>>
    BY <1>4 DEF FlushQueue, flushUnchanged, Retires, Goes, CountInv
  <2>2. unread' \in [Logs -> 0 .. LogRoom]
    <3>1. unread[g] - 1 \in 0 .. LogRoom
      BY <1>0, <2>1
    <3> QED
      BY <1>0, <2>1, <3>1
  <2>3. /\ \A u \in Threads : thread'[u] = IF u = g THEN "uncount" ELSE thread[u]
        /\ TypeOK' /\ Places' /\ LoggingInv' /\ GraceInv'
        /\ \A h \in Logs : Uncounted(h)' = Uncounted(h)
    BY <1>0, <2>1, <2>2, LoggerFrame DEF Up, FlushPlaces
  <2>4. CountInv' /\ DownInv'
    BY <1>0, <2>1, <2>3 DEF CountInv, DownInv, Logs, Threads
  <2> QED
    BY <2>3, <2>4
<1>5. CASE FlushQueue(g) /\ Uncounts(g)
  <2>1. /\ thread[g] = "uncount" /\ thread' = [thread EXCEPT ![g] = "scan"]
        /\ num_elements_' = [num_elements_ EXCEPT ![g] = @ - 1] /\ num_elements_[g] > 0
        /\ UNCHANGED <<main, handler, logging, unread, running_, run_,
                       requests, grace, process>>
    BY <1>5 DEF FlushQueue, flushUnchanged, Uncounts, Goes, CountInv
  <2>2. num_elements_' \in [Logs -> 0 .. LogRoom + 1]
    <3>1. num_elements_[g] - 1 \in 0 .. LogRoom + 1
      BY <1>0, <2>1
    <3> QED
      BY <1>0, <2>1, <3>1
  <2>3. /\ \A u \in Threads : thread'[u] = IF u = g THEN "scan" ELSE thread[u]
        /\ TypeOK' /\ Places' /\ LoggingInv' /\ GraceInv'
        /\ \A h \in Logs : Uncounted(h)' = Uncounted(h)
    BY <1>0, <2>1, <2>2, LoggerFrame DEF Up, FlushPlaces
  <2>4. CountInv' /\ DownInv'
    BY <1>0, <2>1, <2>3 DEF CountInv, DownInv, Logs, Threads
  <2> QED
    BY <2>3, <2>4
<1> QED
  BY <1>1, <1>2, <1>3, <1>4, <1>5 DEF LoggerThread, FlushQueue
-----------------------------------------------------------------------------
(* Every step of the engine's thread uses up one of those that remain.     *)
LEMMA RemainingNat ==
  ASSUME TypeOK PROVE Remaining \in Nat
<1>1. logging["run"] \in Nat /\ LogLength \in Nat
  BY ExchangeAssumption DEF TypeOK, Loggings
<1> QED
  BY <1>1 DEF Remaining

(* One step of the second, against one that remains.                       *)
LEMMA StepsUsed ==
  ASSUME NEW used \in Nat, NEW left \in Nat, NEW after \in Nat,
         used + left <= GraceSteps, after + 1 <= left
  PROVE  used < GraceSteps /\ used + 1 + after <= GraceSteps
BY ExchangeAssumption

(* Hence GraceInv survives a step of the engine's thread.                  *)
LEMMA GraceStep ==
  ASSUME IInv, Up, UNCHANGED <<handler, run_>>, thread["run"] \notin {"none", "done"},
         grace' = IF handler = "grace" /\ grace < GraceSteps THEN grace + 1 ELSE grace,
         Remaining' \in Nat, Up' /\ ~ run_ => Remaining' + 1 <= Remaining
  PROVE  GraceInv' /\ grace' \in 0 .. GraceSteps
<1> USE ExchangeAssumption DEF IInv
<1>1. Remaining \in Nat /\ grace \in 0 .. GraceSteps /\ grace \in Nat
  BY RemainingNat DEF TypeOK
<1>2. grace' \in 0 .. GraceSteps
  BY <1>1
<1>3. handler \notin {"delete_engine_logger", "stop_engine_logger", "join_engine_logger", "exit"}
  BY DEF GraceInv, NothingUsedAfterFree
<1>4. handler = "grace" /\ Up' => ~ run_ /\ grace' + Remaining' <= GraceSteps
  <2> SUFFICES ASSUME handler = "grace", Up'
               PROVE  ~ run_ /\ grace' + Remaining' <= GraceSteps
    OBVIOUS
  <2>1. ~ run_
    BY DEF GraceInv
  <2>2. grace + Remaining <= GraceSteps
    BY DEF GraceInv
  <2>3. Remaining' + 1 <= Remaining
    BY <2>1
  <2>4. grace < GraceSteps /\ grace + 1 + Remaining' <= GraceSteps
    BY <1>1, <2>2, <2>3, StepsUsed
  <2>5. grace' = grace + 1
    BY <2>4
  <2> QED
    BY <2>1, <2>4, <2>5
<1> QED
  BY <1>2, <1>3, <1>4 DEF GraceInv, NothingUsedAfterFree

(* A step of the engine's thread that touches neither queue of elements.   *)
LEMMA RunFrame ==
  ASSUME IInv, Up, NEW to \in RunPlaces \ {"none"}, thread["run"] \notin {"none", "done"},
         thread' = [thread EXCEPT !["run"] = to],
         UNCHANGED <<main, handler, running_, run_, unread, num_elements_>>,
         logging' = logging \/ (logging' = Logged("run") /\ logging["run"] = 0),
         to \notin {"check", "process"} => logging'["run"] = 0,
         to \in {"process", "pop"} => requests' > 0,
         requests' \in 0 .. MaxRequests, process' \in {"up", "crashed", "fatal"},
         grace' = IF handler = "grace" /\ grace < GraceSteps THEN grace + 1 ELSE grace,
         Up' /\ ~ run_ => Remaining' + 1 <= Remaining
  PROVE  IInv'
<1> USE ExchangeAssumption DEF IInv
<1>1. /\ thread = [u \in Threads |-> thread[u]]
      /\ logging \in [Loggings -> 0 .. 2 * LogLength]
  BY DEF TypeOK
<1>2. \A u \in Threads : thread'[u] = IF u = "run" THEN to ELSE thread[u]
  BY <1>1 DEF Threads
<1>3. thread' \in [Threads -> RunPlaces \cup FlushPlaces]
  BY <1>1, <1>2 DEF Places, Threads
<1>4. /\ logging' \in [Loggings -> 0 .. 2 * LogLength]
      /\ logging'["main"] = logging["main"] /\ logging'["handler"] = logging["handler"]
      /\ Half("main")' = Half("main") /\ Half("run")' = Half("run")
      /\ Half("handler")' = Half("handler")
  <2>1. CASE logging' = logging
    BY <1>1, <2>1 DEF Loggings, Half
  <2>2. CASE logging' = Logged("run") /\ logging["run"] = 0
    BY <1>1, <2>2, Parity DEF Logged, Loggings, Half
  <2> QED
    BY <2>1, <2>2
<1>5. Remaining' \in Nat
  <2>1. logging'["run"] \in Nat /\ LogLength \in Nat
    BY <1>4 DEF Loggings
  <2> QED
    BY <2>1 DEF Remaining
<1>6. GraceInv' /\ grace' \in 0 .. GraceSteps
  BY <1>5, GraceStep
<1>7. TypeOK'
  BY <1>3, <1>4, <1>6 DEF TypeOK, RunPlaces, FlushPlaces
<1>8. Places'
  BY <1>2 DEF Places, Threads, Logs
<1>9. LoggingInv'
  BY <1>2, <1>4 DEF LoggingInv, Threads
<1>10. CountInv'
  BY <1>2, <1>4 DEF CountInv, Uncounted, Logs, Threads
<1>11. DownInv'
  BY <1>2 DEF DownInv, Logs, Threads
<1> QED
  BY <1>6, <1>7, <1>8, <1>9, <1>10, <1>11

(* The engine's thread.                                                    *)
LEMMA EngineStep == IInv /\ Up /\ EngineThread => IInv'
<1> SUFFICES ASSUME IInv, Up, EngineThread PROVE IInv'
  OBVIOUS
<1> USE ExchangeAssumption DEF IInv
<1>0. /\ grace' = IF handler = "grace" /\ grace < GraceSteps THEN grace + 1 ELSE grace
      /\ process = "up" /\ requests \in 0 .. MaxRequests
      /\ thread["run"] \notin {"check", "process"} => logging["run"] = 0
      /\ thread["run"] \in {"process", "pop"} => requests > 0
      /\ thread = [thread EXCEPT !["run"] = thread["run"]]
      /\ logging["run"] \in Nat /\ logging \in [Loggings -> 0 .. 2 * LogLength]
      /\ LogLength \in Nat \ {0} /\ "run" \in Threads
  BY DEF EngineThread, Up, TypeOK, LoggingInv, Places, Loggings, Threads
<1>a. ASSUME NEW to, thread' = [thread EXCEPT !["run"] = to] PROVE thread'["run"] = to
  BY <1>a DEF TypeOK, Threads
<1>1. CASE Announces("run")
  <2>1. /\ thread["run"] = "created" /\ thread' = [thread EXCEPT !["run"] = "announced"]
        /\ UNCHANGED <<main, handler, logging, unread, num_elements_, running_, run_,
                       requests, process>>
    BY <1>1 DEF Announces, Goes
  <2>2. Remaining = 2 * LogLength + 3 /\ Remaining' = 2 * LogLength + 2
    BY <1>a, <2>1 DEF Remaining
  <2>3. Remaining' + 1 <= Remaining
    BY <1>0, <2>2
  <2> QED
    BY <1>0, <2>1, <2>3, RunFrame DEF RunPlaces
<1>2. CASE CallsFunc("run")
  <2>0. /\ thread["run"] = "announced"
        /\ UNCHANGED <<main, handler, unread, num_elements_, running_, run_, requests>>
    BY <1>2 DEF CallsFunc
  <2>1. CASE process' = "crashed" /\ UNCHANGED <<thread, logging>>
    <3>1. ~ Up'
      BY <2>1 DEF Up
    <3> QED
      BY <1>0, <2>0, <2>1, <3>1, RunFrame DEF RunPlaces
  <2>2. CASE /\ thread' = [thread EXCEPT !["run"] = "check"] /\ logging' = Logged("run")
             /\ UNCHANGED process
    <3>1. logging'["run"] = 2 * LogLength
      BY <1>0, <2>2 DEF Logged, Loggings
    <3>2. Remaining = 2 * LogLength + 2 /\ Remaining' = 2 * LogLength + 1
      BY <1>a, <2>0, <2>2, <3>1 DEF Remaining
    <3>3. Remaining' + 1 <= Remaining
      BY <1>0, <3>2
    <3> QED
      BY <1>0, <2>0, <2>2, <3>3, RunFrame DEF RunPlaces
  <2> QED
    BY <1>2, <2>1, <2>2 DEF CallsFunc, Goes
<1>3. CASE RunLoop /\ ChecksRun
  <2> DEFINE to == IF run_ THEN "next" ELSE "done"
  <2>1. /\ thread["run"] = "check" /\ thread' = [thread EXCEPT !["run"] = to]
        /\ logging["run"] = 0
        /\ UNCHANGED <<main, handler, logging, unread, num_elements_, running_, run_,
                       requests, process>>
    BY <1>3 DEF RunLoop, runUnchanged, ChecksRun, Goes
  <2>2. to \in {"next", "done"} /\ (~ run_ => to = "done")
    OBVIOUS
  <2> HIDE DEF to
  <2>3. Remaining = logging["run"] + 1 /\ (to = "done" => Remaining' = 0)
    BY <1>a, <2>1 DEF Remaining
  <2>4. ~ run_ => Remaining' + 1 <= Remaining
    BY <2>1, <2>2, <2>3
  <2> QED
    BY <1>0, <2>1, <2>2, <2>4, RunFrame DEF RunPlaces
<1>4. CASE RunLoop /\ LooksForRequest
  <2>1. /\ thread["run"] = "next"
        /\ UNCHANGED <<main, handler, unread, num_elements_, running_, run_,
                       requests, process>>
    BY <1>4 DEF RunLoop, runUnchanged, LooksForRequest, Goes
  <2>2. CASE thread' = [thread EXCEPT !["run"] = "check"] /\ UNCHANGED logging
    <3>1. logging["run"] = 0
      BY <1>0, <2>1
    <3>2. Remaining = 2 * LogLength + 4 /\ Remaining' = logging["run"] + 1
      BY <1>a, <2>1, <2>2 DEF Remaining
    <3>3. Remaining' + 1 <= Remaining
      BY <1>0, <3>1, <3>2
    <3> QED
      BY <1>0, <2>1, <2>2, <3>1, <3>3, RunFrame DEF RunPlaces
  <2>3. CASE /\ requests # 0 /\ thread' = [thread EXCEPT !["run"] = "process"]
             /\ logging' = Logged("run")
    <3>1. logging'["run"] = 2 * LogLength
      BY <1>0, <2>3 DEF Logged, Loggings
    <3>2. Remaining = 2 * LogLength + 4 /\ Remaining' = 2 * LogLength + 3
      BY <1>a, <2>1, <2>3, <3>1 DEF Remaining
    <3>3. Remaining' + 1 <= Remaining /\ requests' > 0 /\ logging["run"] = 0
      BY <1>0, <2>1, <2>3, <3>2
    <3> QED
      BY <1>0, <2>1, <2>3, <3>3, RunFrame DEF RunPlaces
  <2> QED
    BY <1>4, <2>2, <2>3 DEF LooksForRequest, Goes
<1>5. CASE RunLoop /\ ProcessesRequest
  <2>1. /\ thread["run"] = "process" /\ logging["run"] = 0
        /\ UNCHANGED <<main, handler, logging, unread, num_elements_, running_, run_, requests>>
    BY <1>5 DEF RunLoop, runUnchanged, ProcessesRequest, Goes
  <2>2. CASE thread' = [thread EXCEPT !["run"] = "pop"] /\ UNCHANGED process
    <3>1. Remaining = logging["run"] + 3 /\ Remaining' = 2
      BY <1>a, <2>1, <2>2 DEF Remaining
    <3>2. Remaining' + 1 <= Remaining
      BY <2>1, <3>1
    <3> QED
      BY <1>0, <2>1, <2>2, <3>2, RunFrame DEF RunPlaces
  <2>3. CASE process' = "fatal" /\ UNCHANGED thread
    <3>1. ~ Up'
      BY <2>3 DEF Up
    <3> QED
      BY <1>0, <2>1, <2>3, <3>1, RunFrame DEF RunPlaces
  <2> QED
    BY <1>5, <2>2, <2>3 DEF ProcessesRequest, Goes
<1>6. CASE RunLoop /\ PopsRequest
  <2>1. /\ thread["run"] = "pop" /\ thread' = [thread EXCEPT !["run"] = "check"]
        /\ requests' = requests - 1
        /\ UNCHANGED <<main, handler, logging, unread, num_elements_, running_, run_, process>>
    BY <1>6 DEF RunLoop, runUnchanged, PopsRequest, Goes
  <2>2. Remaining = 2 /\ Remaining' = logging["run"] + 1 /\ logging["run"] = 0
    BY <1>0, <1>a, <2>1 DEF Remaining
  <2>3. Remaining' + 1 <= Remaining
    BY <2>2
  <2>4. requests' \in 0 .. MaxRequests
    BY <1>0, <2>1
  <2> QED
    BY <1>0, <2>1, <2>3, <2>4, RunFrame DEF RunPlaces
<1>7. CASE RunLoop /\ RunPushes
  <2>1. /\ Push("run") /\ logging["run"] # 0 /\ thread["run"] \in {"check", "process"}
        /\ UNCHANGED <<main, handler, thread, running_, run_, requests, process>>
    BY <1>0, <1>7 DEF RunLoop, runUnchanged, RunPushes, Push
  <2>2. "run" \in Loggings /\ LogOf("run") = "matching_engine"
    BY DEF Loggings, LogOf
  <2>3. /\ logging' \in [Loggings -> 0 .. 2 * LogLength]
        /\ logging'["run"] = logging["run"] - 1 /\ logging'["handler"] = logging["handler"]
        /\ num_elements_'["exchange_main"] = num_elements_["exchange_main"]
        /\ unread' \in [Logs -> 0 .. LogRoom]
        /\ num_elements_' \in [Logs -> 0 .. LogRoom + 1]
    BY <2>1, <2>2, PushStep DEF Loggings, Logs
  <2>4. CountInv'
    BY <2>1, <2>2, PushStep
  <2>5. Remaining' + 1 <= Remaining /\ Remaining' \in Nat
    BY <1>0, <2>1, <2>3 DEF Remaining
  <2>6. GraceInv' /\ grace' \in 0 .. GraceSteps
    BY <1>0, <2>1, <2>5, GraceStep
  <2>7. TypeOK'
    BY <2>1, <2>3, <2>6 DEF TypeOK
  <2>8. Places' /\ LoggingInv'
    BY <2>1, <2>3 DEF Places, LoggingInv
  <2>9. handler \notin {"delete_engine_logger", "stop_engine_logger", "join_engine_logger", "exit"}
    BY <2>1 DEF GraceInv, NothingUsedAfterFree
  <2>10. DownInv'
    BY <2>1, <2>3, <2>9 DEF DownInv
  <2> QED
    BY <2>4, <2>6, <2>7, <2>8, <2>10
<1> QED
  BY <1>1, <1>2, <1>3, <1>4, <1>5, <1>6, <1>7 DEF EngineThread, ThreadStarts, RunLoop

-----------------------------------------------------------------------------
(* The handler, but for its log() and its exit, touches running_ and run_. *)
LEMMA HandlerFrame ==
  ASSUME IInv, NEW from, NEW to, HandlerGoes(from, to),
         to \in {"stop_logger", "join_logger", "delete_engine", "grace",
                "stop_engine_logger", "join_engine_logger", "exit"},
         from = "delete_engine_logger" => logging["handler"] = 0,
         UNCHANGED <<threadVars, process>>,
         running_' \in [Logs -> BOOLEAN], run_' \in BOOLEAN
  PROVE  TypeOK' /\ Places' /\ LoggingInv' /\ CountInv' /\ Remaining' = Remaining
<1> USE DEF IInv, threadVars, HandlerGoes
<1>1. TypeOK'
  BY DEF TypeOK
<1>2. Places' /\ LoggingInv'
  BY DEF Places, LoggingInv
<1>3. CountInv' /\ Remaining' = Remaining
  BY DEF CountInv, Uncounted, Half, Remaining
<1> QED
  BY <1>1, <1>2, <1>3

(* ~Logger, for either logger: the frame of its three parts.               *)
LEMMA DeletesLoggerStep ==
  ASSUME IInv, NEW g \in Logs, NEW from, NEW to, HandlerGoes(from, to),
         UNCHANGED <<threadVars, run_, process>>,
         \/ UNCHANGED running_
         \/ /\ running_' = [running_ EXCEPT ![g] = FALSE]
            /\ <<g, from>> \in {<<"exchange_main", "stop_logger">>,
                               <<"matching_engine", "stop_engine_logger">>},
         \/ g = "exchange_main" /\ from = "delete_logger" /\ to = "stop_logger"
            /\ num_elements_[g] = 0
         \/ g = "exchange_main" /\ from = "stop_logger" /\ to = "join_logger"
         \/ g = "exchange_main" /\ from = "join_logger" /\ to = "delete_engine"
         \/ g = "matching_engine" /\ from = "delete_engine_logger" /\ to = "stop_engine_logger"
            /\ num_elements_[g] = 0 /\ logging["handler"] = 0
         \/ g = "matching_engine" /\ from = "stop_engine_logger" /\ to = "join_engine_logger"
         \/ g = "matching_engine" /\ from = "join_engine_logger" /\ to = "exit"
  PROVE  IInv'
<1> USE DEF IInv
<1>1. running_ \in [Logs -> BOOLEAN] /\ run_ \in BOOLEAN
  BY DEF TypeOK
<1>2. /\ running_' \in [Logs -> BOOLEAN]
      /\ \A h \in Logs : \/ running_'[h] = running_[h]
                         \/ h = g /\ running_' = [running_ EXCEPT ![g] = FALSE]
  <2>1. CASE running_' = running_
    <3>1. running_' \in [Logs -> BOOLEAN]
      BY <1>1, <2>1
    <3>2. \A h \in Logs : running_'[h] = running_[h]
      BY <2>1, Zenon
    <3> QED
      BY <3>1, <3>2, Zenon
  <2>2. CASE running_' = [running_ EXCEPT ![g] = FALSE]
    BY <1>1, <2>2
  <2> QED
    BY <2>1, <2>2
<1>3. TypeOK' /\ Places' /\ LoggingInv' /\ CountInv'
  BY <1>1, <1>2, HandlerFrame DEF HandlerGoes
<1>4. GraceInv'
  BY DEF GraceInv, NothingUsedAfterFree, HandlerGoes, threadVars
<1>5. \A h \in Logs : thread[h] = "done" => running_'[h] = FALSE
  BY <1>1, <1>2 DEF DownInv
<1>6. DownInv'
  BY <1>2, <1>5 DEF DownInv, HandlerGoes, threadVars, Logs
<1> QED
  BY <1>3, <1>4, <1>6

(* signal_handler.                                                         *)
LEMMA HandlerStep == IInv /\ Up /\ Handler => IInv'
<1> SUFFICES ASSUME IInv, Up, Handler PROVE IInv'
  OBVIOUS
<1> USE ExchangeAssumption DEF IInv
<1>0. /\ running_ \in [Logs -> BOOLEAN] /\ run_ \in BOOLEAN
      /\ logging \in [Loggings -> 0 .. 2 * LogLength] /\ "run" \in Loggings
      /\ LogLength \in Nat \ {0} /\ GraceSteps \in Nat
  BY DEF TypeOK, Loggings
<1>1. CASE DeletesLogger
  BY <1>1, DeletesLoggerStep DEF DeletesLogger, Flushed, RunningCleared, Joined, Logs, threadVars
<1>2. CASE DeletesEngineLogger
  BY <1>2, DeletesLoggerStep
     DEF DeletesEngineLogger, Flushed, RunningCleared, Joined, Logs, threadVars
<1>3. CASE HasNoEngine
  <2>1. TypeOK' /\ Places' /\ LoggingInv' /\ CountInv'
    BY <1>0, <1>3, HandlerFrame DEF HasNoEngine, HandlerGoes, threadVars
  <2>2. GraceInv'
    BY <1>3 DEF HasNoEngine, HandlerGoes, EngineBuilt, threadVars, Places, TypeOK, GraceInv,
                NothingUsedAfterFree
  <2>3. DownInv'
    BY <1>3 DEF HasNoEngine, HandlerGoes, threadVars, DownInv
  <2> QED
    BY <2>1, <2>2, <2>3
<1>4. CASE RunCleared
  <2>0. /\ HandlerGoes("delete_engine", "grace") /\ UNCHANGED <<threadVars, process>>
        /\ running_' \in [Logs -> BOOLEAN] /\ run_' \in BOOLEAN
    BY <1>0, <1>4 DEF RunCleared
  <2>1. TypeOK' /\ Places' /\ LoggingInv' /\ CountInv' /\ Remaining' = Remaining
    BY <2>0, HandlerFrame
  <2>2. handler = "delete_engine" /\ handler' = "grace" /\ grace = 0 /\ grace' = 0 /\ ~ run_'
    BY <1>4 DEF RunCleared, HandlerGoes, threadVars, GraceInv
  <2>3. Remaining <= 2 * LogLength + 4 /\ Remaining \in Nat
    <3>1. logging["run"] \in 0 .. 2 * LogLength
      BY <1>0
    <3>2. logging["run"] + 3 <= 2 * LogLength + 4 /\ logging["run"] + 1 <= 2 * LogLength + 4
      BY <1>0, <3>1
    <3> QED
      BY <1>0, <3>1, <3>2 DEF Remaining
  <2>4. grace' + Remaining' <= GraceSteps
    BY <1>0, <2>1, <2>2, <2>3, GraceAssumption DEF LongestTurn
  <2>5. GraceInv'
    BY <2>2, <2>4 DEF GraceInv, NothingUsedAfterFree
  <2>6. DownInv'
    BY <1>4, <2>2 DEF RunCleared, threadVars, DownInv
  <2> QED
    BY <2>1, <2>5, <2>6
<1>5. CASE GraceEnds
  <2>1. /\ handler = "grace" /\ handler' = "delete_engine_logger"
        /\ logging' = Logged("handler") /\ logging["handler"] = 0
        /\ UNCHANGED <<main, thread, unread, num_elements_, requests, grace, running_,
                       run_, process>>
    BY <1>5 DEF GraceEnds, HandlerGoes, LoggingInv
  <2>2. thread["run"] \in {"none", "done"}
    <3>1. CASE grace = GraceSteps
      <4>1. grace + Remaining <= GraceSteps
        BY <2>1 DEF GraceInv
      <4>2. Remaining \in Nat
        BY RemainingNat
      <4>3. Remaining = 0
        BY <1>0, <3>1, <4>1, <4>2
      <4>4. logging["run"] \in Nat /\ thread["run"] \in RunPlaces
        BY <1>0 DEF Places
      <4> QED
        BY <1>0, <4>3, <4>4 DEF Remaining, RunPlaces
    <3> QED
      BY <1>5, <3>1 DEF GraceEnds
  <2>3. /\ logging' \in [Loggings -> 0 .. 2 * LogLength]
        /\ logging'["run"] = logging["run"]
        /\ Half("main")' = Half("main") /\ Half("run")' = Half("run")
        /\ Half("handler")' = Half("handler")
    BY <1>0, <2>1, Parity DEF Logged, Loggings, Half
  <2>4. TypeOK'
    BY <2>1, <2>3 DEF TypeOK
  <2>5. Places' /\ LoggingInv' /\ DownInv'
    BY <2>1, <2>3 DEF Places, LoggingInv, DownInv
  <2>6. GraceInv'
    BY <2>1, <2>2 DEF GraceInv, NothingUsedAfterFree
  <2>7. CountInv'
    BY <2>1, <2>3 DEF CountInv, Uncounted
  <2> QED
    BY <2>4, <2>5, <2>6, <2>7
<1>6. CASE BookPushes
  <2>1. /\ Push("handler") /\ handler = "delete_engine_logger"
        /\ UNCHANGED <<main, handler, thread, requests, grace, running_, run_, process>>
    BY <1>6 DEF BookPushes, Push, LoggingInv
  <2>2. "handler" \in Loggings /\ LogOf("handler") = "matching_engine"
    BY DEF Loggings, LogOf
  <2>3. /\ logging' \in [Loggings -> 0 .. 2 * LogLength]
        /\ logging'["run"] = logging["run"]
        /\ num_elements_'["exchange_main"] = num_elements_["exchange_main"]
        /\ unread' \in [Logs -> 0 .. LogRoom]
        /\ num_elements_' \in [Logs -> 0 .. LogRoom + 1]
    BY <2>1, <2>2, PushStep DEF Loggings, Logs
  <2>4. CountInv'
    BY <2>1, <2>2, PushStep
  <2>5. TypeOK'
    BY <2>1, <2>3 DEF TypeOK
  <2>6. Places' /\ LoggingInv' /\ GraceInv' /\ DownInv'
    BY <2>1, <2>3 DEF Places, LoggingInv, GraceInv, NothingUsedAfterFree, DownInv
  <2> QED
    BY <2>4, <2>5, <2>6
<1>7. CASE Exits
  <2>1. handler = "exit" /\ process' = "exited"
        /\ UNCHANGED <<main, handler, threadVars, running_, run_>>
    BY <1>7 DEF Exits
  <2>2. TypeOK'
    BY <2>1 DEF TypeOK, threadVars
  <2>3. Places' /\ LoggingInv' /\ GraceInv' /\ DownInv'
    BY <2>1 DEF Places, LoggingInv, GraceInv, NothingUsedAfterFree, DownInv, threadVars
  <2>4. CountInv'
    BY <2>1 DEF CountInv, Uncounted, Half, threadVars
  <2> QED
    BY <2>2, <2>3, <2>4
<1> QED
  BY <1>1, <1>2, <1>3, <1>4, <1>5, <1>6, <1>7 DEF Handler

-----------------------------------------------------------------------------
LEMMA NextIInv == IInv /\ [Next]_vars => IInv'
<1> SUFFICES ASSUME IInv, [Next]_vars PROVE IInv'
  OBVIOUS
<1>1. CASE Up /\ Request
  <2> USE <1>1 DEF IInv, Request
  <2>1. requests' \in 0 .. MaxRequests /\ (requests > 0 => requests' > 0)
    BY ExchangeAssumption DEF TypeOK
  <2>2. TypeOK'
    BY <2>1 DEF TypeOK
  <2>3. Places' /\ LoggingInv' /\ DownInv'
    BY <2>1 DEF Places, LoggingInv, DownInv
  <2>4. GraceInv' /\ CountInv'
    BY DEF GraceInv, NothingUsedAfterFree, Remaining, Up, CountInv, Uncounted, Half
  <2> QED
    BY <2>2, <2>3, <2>4
<1>2. CASE Up /\ Interrupt
  <2> USE <1>2 DEF IInv, Interrupt, Interrupted, threadVars
  <2>1. TypeOK' /\ Places' /\ LoggingInv' /\ DownInv'
    BY DEF TypeOK, Places, LoggingInv, DownInv
  <2>2. GraceInv' /\ CountInv'
    BY DEF GraceInv, NothingUsedAfterFree, CountInv, Uncounted, Half
  <2> QED
    BY <2>1, <2>2
<1>3. CASE UNCHANGED vars
  <2> USE <1>3 DEF IInv, vars, threadVars
  <2>1. TypeOK' /\ Places' /\ LoggingInv' /\ DownInv'
    BY DEF TypeOK, Places, LoggingInv, DownInv
  <2>2. GraceInv' /\ CountInv'
    BY DEF GraceInv, NothingUsedAfterFree, Remaining, Up, CountInv, Uncounted, Half
  <2> QED
    BY <2>1, <2>2
<1> QED
  BY <1>1, <1>2, <1>3, MainStep, HandlerStep, EngineStep, LoggerStep DEF Next, Ended

LEMMA SpecIInv == Spec => []IInv
BY InitIInv, NextIInv, PTL DEF Spec

(* Every variable of the process keeps its type: the size of a logger's    *)
(* queue, a plain counter stepped by two threads (lf_queue.h:20-36), never *)
(* goes below zero or beyond the queue, wherever SIGINT cuts a log() short.*)
THEOREM TypeCorrect == Spec => []TypeOK
<1>1. IInv => TypeOK
  BY DEF IInv
<1> QED
  BY <1>1, SpecIInv, PTL

(* ~MatchingEngine's sleep does the work of a join (matching_engine.cpp:   *)
(* 15-24): with a second long enough for one turn of the loop, however     *)
(* much a call of log() writes, the engine's thread is gone before         *)
(* anything it uses is freed.                                              *)
THEOREM EngineGoneFirst == Spec => []NothingUsedAfterFree
<1>1. IInv => NothingUsedAfterFree
  BY DEF IInv, GraceInv
<1> QED
  BY <1>1, SpecIInv, PTL

(* ~Logger (logger.cpp:12-20) loses nothing: a log that has been closed    *)
(* holds everything that was pushed, except the element whose              *)
(* updateWriteIndex the signal cut in two.                                 *)
THEOREM LogsAreComplete == Spec => []ClosedLogIsComplete
<1>1. IInv => ClosedLogIsComplete
  <2> SUFFICES ASSUME IInv, NEW g \in Logs, thread[g] = "done"
               PROVE  unread[g] = IF g = "exchange_main" /\ HalfPushed("main") THEN 1 ELSE 0
    BY DEF ClosedLogIsComplete
  <2> USE DEF IInv
  <2>1. /\ logging \in [Loggings -> 0 .. 2 * LogLength] /\ unread[g] \in Nat
        /\ num_elements_[g] = unread[g] - Uncounted(g) /\ running_[g] = FALSE
    BY DEF TypeOK, CountInv, DownInv
  <2>2. num_elements_[g] = 0
    BY <2>1 DEF DownInv, Logs
  <2>3. CASE g = "exchange_main"
    <3>1. logging["main"] \in Nat
      BY <2>1 DEF Loggings
    <3>2. Half("main") \in {0, 1} /\ (HalfPushed("main") <=> Half("main") = 1)
      BY <3>1 DEF Half, HalfPushed
    <3>3. unread[g] = Half("main")
      BY <2>1, <2>2, <2>3, <3>2 DEF Uncounted
    <3> QED
      BY <2>3, <3>2, <3>3
  <2>4. CASE g = "matching_engine"
    <3>1. handler \in {"join_engine_logger", "exit"}
      BY <2>1, <2>4 DEF DownInv
    <3>2. logging["handler"] = 0 /\ logging["run"] = 0
      BY <3>1 DEF LoggingInv, GraceInv, NothingUsedAfterFree
    <3>3. Uncounted(g) = 0
      BY <2>4, <3>2, Parity DEF Uncounted, Half
    <3> QED
      BY <2>1, <2>2, <2>4, <3>3
  <2> QED
    BY <2>3, <2>4 DEF Logs
<1> QED
  BY <1>1, SpecIInv, PTL
=============================================================================

------------------------------ MODULE Parameters ------------------------------
(***************************************************************************)
(* The parameters of the tasks of one service and the output of the        *)
(* service (SMFW/iw_fw_microservices.c), and the requests that set and     *)
(* read them (SIFW/task_lwmsg_dist.c).  What else the requests and the     *)
(* threads do to a service is in Microservices.                            *)
(*                                                                         *)
(* A handler does not block and runs above the threads, so that it is one  *)
(* step; but it may run while a thread is half way through giving the      *)
(* output a new value.                                                     *)
(*                                                                         *)
(* A request carries a number as its digits; the numbers of the model are  *)
(* whole.  Until an answer is sent a number is converted twice: by the     *)
(* handler that sets it, and by the functions that write it as text again. *)
(***************************************************************************)
EXTENDS Integers, Sequences, FiniteSets, Functions

CONSTANTS
    Service, NoService,     \* the service, and an identifier no service has
    Task, NoTask,           \* its tasks, and an index no task has
    Flexible, Static,       \* of each task, the aliases of its parameters
    TypeOf,                 \* of each alias, the type of the parameter
    Listening,              \* the tasks with a queue for messages
    Counted,                \* the tasks of type 1 and 2, whose state makes a service busy
    Offloadable,            \* the tasks that can be switched off
    QueueLength,            \* mainQUEUE_LENGTH
    Half,                   \* 2^31, half of the numbers a long can be
    Exact,                  \* 2^24: so far a float holds every whole number
    Least,                  \* -999999999: below it a text is cut
    Output,                 \* the values a task gives the output
    Dri,                    \* what output reads are asked with
    Missing,                \* an object that is not in the body
    None,                   \* NULL: no output, no request, no dri
    Freed,                  \* what the output points to between free and malloc
    Garbage                 \* the bytes of a pointer or of freed memory, or
                            \* digits that are another number

ASSUME ParametersAssumption ==
    /\ Flexible \in [Task -> SUBSET DOMAIN TypeOf] /\ Static \in [Task -> SUBSET DOMAIN TypeOf]
    /\ Listening \subseteq Task /\ QueueLength \in Nat
    /\ Counted \subseteq Task /\ Offloadable \subseteq Task
    /\ NoTask \notin Task /\ Service # NoService

\* The numbers of the narrower types fit a long, and their texts are not cut.
ASSUME NumberAssumption ==
    /\ Half \in Nat /\ Half > 65536
    /\ Exact \in Nat /\ Exact < Half
    /\ Least \in Int /\ -Half <= Least /\ Least <= -32768

VARIABLES
    state,      \* of the service, as in Microservices
    marked,     \* the counted tasks that say they are running
    param,      \* the values of the parameters, of each task by alias
    output,     \* output_param.value
    latest,     \* latest_dri
    queued,     \* of each task, how many messages its queue holds
    request,    \* the request that was served last
    answers,    \* the answers to it, in the order they were sent
    acked,      \* history: the numbers that were set, with 200 as the answer
    halted      \* the device has stopped in a fault

serviceVars == <<state, marked, param, output, latest, queued>>
vars == <<serviceVars, request, answers, acked, halted>>

-----------------------------------------------------------------------------
(* Parameters. *)

Aliases(t) == Flexible[t] \cup Static[t]
Initial == 0

\* add_task_param for every parameter of every task.
Fresh == [t \in Task |-> [a \in Aliases(t) |-> Initial]]

\* The numbers of a width, half of which are negative or none is, and what is
\* left in it of any number.
SignedRange(half) == -half .. half - 1
UnsignedRange(size) == 0 .. size - 1

Signed(half, n) == ((n + half) % (2 * half)) - half
Unsigned(size, n) == n % size

\* atol of newlib: what a long cannot be becomes the nearest number that it can.
Long(n) == IF n < -Half THEN -Half ELSE IF n >= Half THEN Half - 1 ELSE n

\* The multiple of u that is nearest to a positive number, and of two the even one.
Nearest(n, u) ==
    LET q == n \div u
        r == n % u
    IN  u * (q + IF 2 * r > u \/ (2 * r = u /\ q % 2 = 1) THEN 1 ELSE 0)

\* What lies between two floats of the size of a number beyond Exact.
Step(n) == CHOOSE u \in {2 ^ k : k \in 1 .. 30} :
              (n - 1) \div u < Exact /\ (n - 1) \div (u \div 2) >= Exact

\* The float of a whole number.
Single(n) == IF n \in -Exact .. Exact THEN n
             ELSE IF n > 0 THEN Nearest(n, Step(n)) ELSE -Nearest(-n, Step(-n))

\* _parameter_set_by_string.  No number is read for a DOUBLE, and a STRING is
\* given the pointer to the text.
Converted(type, n) ==
    CASE type = "INT8"   -> Signed(128, Long(n))
      [] type = "UINT8"  -> Unsigned(256, Long(n))
      [] type = "INT16"  -> Signed(32768, Long(n))
      [] type = "UINT16" -> Unsigned(65536, Long(n))
      [] type = "INT32"  -> Signed(Half, Long(n))
      [] type = "UINT32" -> Unsigned(2 * Half, Long(n))
      [] type = "FLOAT"  -> Single(n)
      [] type = "DOUBLE" -> 0
      [] type = "STRING" -> Garbage

\* The text of a number of 32 bits, in which a sign and ten digits have no room.
Decimal(n) == IF n < Least THEN -((-n) \div 10) ELSE n

\* What an answer says of a value: every integer is sent as one of 32 bits, and
\* a float, which a DOUBLE becomes, as its whole part and its hundredths, which
\* are counted in a float and in an int as well.
Sent(type, value) ==
    CASE type \in {"FLOAT", "DOUBLE"} ->
            IF 100 * value \in SignedRange(Half) /\ Single(100 * value) = 100 * value
            THEN value ELSE Garbage
      [] type = "STRING" -> value
      [] OTHER -> Decimal(Signed(Half, value))

\* The whole numbers that a value of a type can be; for the floating types, so
\* far as there are no gaps between them.
Holds(type) ==
    CASE type = "INT8"   -> SignedRange(128)
      [] type = "UINT8"  -> UnsignedRange(256)
      [] type = "INT16"  -> SignedRange(32768)
      [] type = "UINT16" -> UnsignedRange(65536)
      [] type \in {"INT32", "DOUBLE"} -> SignedRange(Half)
      [] type = "UINT32" -> UnsignedRange(2 * Half)
      [] type = "FLOAT"  -> -Exact .. Exact
      [] OTHER -> {}

\* Of those, the ones that both conversions can carry.  They are not all: of
\* INT32, one digit is cut off the least numbers; of UINT32, the upper half is
\* out of reach of atol and of the answer; of FLOAT, the hundredths are floats
\* as well; of DOUBLE nothing arrives (SetIsStored).
Carries(type) ==
    CASE type = "INT32"  -> Least .. Half - 1
      [] type = "UINT32" -> 0 .. Half - 1
      [] type = "FLOAT"  -> -(Exact \div 100) .. Exact \div 100
      [] type = "DOUBLE" -> {}
      [] OTHER -> Holds(type)

\* get_task_info_by_idx: a service that was not created has no tasks.
Known(t) == t \in Task /\ state # "NOT_READY"

\* What a request for a task that is not there does with the missing task:
\* a fault, or whatever lies at low addresses holds no parameter.
Faults(ts) == IF \A t \in ts : Known(t) THEN {FALSE} ELSE BOOLEAN

-----------------------------------------------------------------------------
(* The dispatcher: what a handler returns is sent as the answer, unless it *)
(* returns 300.                                                            *)

Answer(rsc, values) == [rsc |-> rsc, values |-> values]
NoValues == <<>>
Reply(rsc) == <<Answer(rsc, NoValues)>>

\* Mutant: what a handler returns is always sent as an answer.
Answered_Always(sent, rsc) == sent \o Reply(rsc)

Answered(sent, rsc) == IF rsc = 300 THEN sent ELSE sent \o Reply(rsc)

OneService(r) == r.mis # Missing /\ Len(r.mis) = 1

\* The parameters a set request names, of the tasks that have them.
Targets(r) == {ta \in (Task \X DOMAIN TypeOf) :
                  /\ \E i \in DOMAIN r.tis : r.tis[i] = ta[1] /\ Known(ta[1])
                  /\ ta[2] \in DOMAIN r.fp \cap Flexible[ta[1]]}

With(values, ts, F(_)) ==
    [t \in Task |-> [a \in Aliases(t) |-> IF <<t, a>> \in ts THEN F(a) ELSE values[t][a]]]

\* A set request is executed when it names the service, tasks and parameters.
Executes(r) == /\ OneService(r) /\ r.mis[1] = Service
               /\ r.tis # Missing /\ r.tis # <<>> /\ r.fp # Missing

\* _lwmsg_param_set, in any state of the service: every listed task is given
\* the parameters it has; 404 when none of them has any.
Set(r) ==
    LET ts == Targets(r)
    IN  /\ param' = IF Executes(r) THEN With(param, ts, LAMBDA a : Converted(TypeOf[a], r.fp[a]))
                                   ELSE param
        /\ answers' = Answered(<<>>, IF ~Executes(r) THEN 400
                                     ELSE IF ts = {} THEN 404 ELSE 200)
        /\ halted' \in IF Executes(r) THEN Faults(Range(r.tis)) ELSE {FALSE}

ServeSet(r) ==
    /\ r.op = "set"
    /\ Set(r)
    /\ acked' = IF answers'[1].rsc = 200 THEN With(acked, Targets(r), LAMBDA a : r.fp[a])
                                         ELSE acked
    /\ UNCHANGED <<state, marked, output, latest, queued>>

\* The values of some parameters of the task t, as they are sent.
ValuesOf(t, as) == [a \in as |-> Sent(TypeOf[a], param[t][a])]

\* Asking for nothing takes the missing sps for a list.
ReadNames(r) == IF r.fps # Missing THEN r.fps ELSE r.sps
Having(r, t) == IF r.fps # Missing THEN Flexible[t] ELSE Static[t]

\* _lwmsg_param_read.  Only the last of the names decides whether the answer
\* is 404; the parameters are those that were found.
Read(r) ==
    LET t     == r.tis[1]
        names == ReadNames(r)
        found == IF Known(t) THEN Having(r, t) \cap Range(names) ELSE {}
        last  == IF names = <<>> THEN FALSE ELSE names[Len(names)] \in found
        code  == CASE ~OneService(r)       -> 400
                   [] OneService(r) /\ r.mis[1] # Service -> 404
                   [] OneService(r) /\ r.mis[1] = Service /\ state # "RUNNING" -> 403
                   [] OTHER -> IF r.tis = Missing \/ Len(r.tis) # 1
                                  \/ (r.fps # Missing /\ r.sps # Missing) THEN 400
                               ELSE 300
        all   == IF Known(t) THEN ValuesOf(t, Aliases(t)) ELSE NoValues
    IN  IF code # 300
        THEN answers' = Answered(<<>>, code) /\ halted' = FALSE
        ELSE IF r.op = "readAll"
        THEN answers' = Answered(<<Answer(200, all)>>, 300) /\ halted' \in Faults({t})
        ELSE IF names = Missing
        THEN answers' = Answered(<<>>, 404) /\ halted' \in BOOLEAN
        ELSE /\ answers' = IF last THEN Answered(<<Answer(200, ValuesOf(t, found))>>, 300)
                                   ELSE Answered(<<>>, 404)
             /\ halted' \in Faults({t})

ServeRead(r) ==
    /\ r.op \in {"read", "readAll"}
    /\ Read(r)
    /\ UNCHANGED <<serviceVars, acked>>

\* Whether the service answers an output read with this dri: unless its tasks
\* are busy with another one (is_tasks_running).
Busy == marked # {}
Answers(dri) == Busy => latest = dri

\* Mutant: a queue is never full.
Offered_Unbounded(length, n) == length + n

\* What n more messages make of the length of a queue.
Offered(length, n) == IF length + n <= QueueLength THEN length + n ELSE QueueLength

\* _lwmsg_output_param_read, for each of the services that are listed.  The
\* tasks with a queue are sent the request, which is lost when the queue is
\* full; a service whose output has no value does not answer.
ServeOutputRead(r) ==
    /\ r.op = "output"
    /\ LET listed  == IF r.mis = Missing THEN <<>> ELSE r.mis
           asked   == Service \in Range(listed) /\ state = "RUNNING"
           Code(s) == CASE s # Service -> 404
                        [] s = Service /\ state # "RUNNING" -> 400
                        [] OTHER -> IF Answers(r.dri) THEN 300 ELSE 400
           code    == IF listed = <<>> THEN 400 ELSE Code(listed[Len(listed)])
           values  == IF output = Freed THEN Output \cup {Garbage} ELSE {output}
           times   == Cardinality({i \in DOMAIN listed : listed[i] = Service})
       IN /\ \E value \in values :
                answers' = Answered(IF asked /\ Answers(r.dri) /\ output # None
                                    THEN [i \in 1 .. times |-> Answer(200, value)] ELSE <<>>,
                                    code)
          /\ IF asked /\ ~Busy
             THEN /\ latest' = r.dri
                  /\ queued' = [t \in Task |->
                        IF t \in Listening THEN Offered(queued[t], times) ELSE queued[t]]
             ELSE UNCHANGED <<latest, queued>>
    /\ halted' = FALSE
    /\ UNCHANGED <<state, marked, param, output, acked>>

-----------------------------------------------------------------------------
(* The service, as far as its parameters and its output go. *)

Empty == [t \in Task |-> 0]

\* create_micro_service
Create ==
    /\ state = "NOT_READY" /\ state' = "CREATED"
    /\ param' = Fresh /\ acked' = Fresh
    /\ UNCHANGED <<marked, output, latest, queued, halted>>

\* run_micro_service on a created service: it runs, or stops when a task
\* cannot be started.  set_output_connect_line takes the output's value away.
Run ==
    /\ state = "CREATED"
    /\ \/ state' = "RUNNING" /\ output' = None /\ UNCHANGED latest
       \/ state' = "STOPPED" /\ latest' = None /\ UNCHANGED output
    /\ UNCHANGED <<marked, param, queued, acked, halted>>

\* run_micro_service on a stopped service says of its tasks that are stopped
\* that they are running: those that were not started, and those that ended.
RunAgain ==
    /\ state = "STOPPED" /\ state' = "RUNNING"
    /\ \E stopped \in SUBSET Task : marked' = stopped \cap Counted
    /\ UNCHANGED <<param, output, latest, queued, acked, halted>>

\* set_output_connect_line: when there are connections for the tasks that are
\* active, the output is one without a value.
Rearranged == {output, None}

\* task_onoff(ti, FALSE), which _lwmsg_offloarding calls for a service that has
\* tasks: the task is stopped, its queue deleted and created anew.
TaskOff(t) ==
    /\ t \in Offloadable /\ Known(t)
    /\ marked' = marked \ {t}
    /\ queued' = [queued EXCEPT ![t] = 0]
    /\ output' \in Rearranged
    /\ UNCHANGED <<state, param, latest, acked, halted>>

\* task_onoff(ti, TRUE): the task starts when the service is run again.
TaskOn(t) ==
    /\ t \in Offloadable \ marked /\ Known(t)
    /\ output' \in Rearranged
    /\ UNCHANGED <<state, marked, param, latest, queued, acked, halted>>

\* Mutant: the parameters of the tasks outlive their tasks.
Remove_KeepsParameters(next) ==
    /\ state' = next
    /\ marked' = {} /\ output' = None /\ queued' = Empty
    /\ latest' = IF state = "RUNNING" THEN None ELSE latest
    /\ acked' = Fresh
    /\ halted' \in IF output = Freed THEN BOOLEAN ELSE {FALSE}
    /\ UNCHANGED param

\* stop_micro_service and del_micro_service: the tasks, their parameters and
\* the output are deleted, and created anew when the service is only stopped.
\* An output that its thread has just freed is freed again.
Remove(next) ==
    /\ state' = next
    /\ marked' = {} /\ output' = None /\ queued' = Empty
    /\ latest' = IF state = "RUNNING" THEN None ELSE latest
    /\ param' = Fresh /\ acked' = Fresh
    /\ halted' \in IF output = Freed THEN BOOLEAN ELSE {FALSE}

\* set_output_param_value in the thread of a task: the value is freed, and
\* replaced by a new one.  A thread that is deleted in between leaves the freed
\* one to be freed again.
FreeOutput ==
    /\ state = "RUNNING" /\ output \in Output \cup {Freed}
    /\ output' = Freed
    /\ halted' \in IF output = Freed THEN BOOLEAN ELSE {FALSE}
    /\ UNCHANGED <<state, marked, param, latest, queued, acked>>

ReplaceOutput(value) ==
    /\ state = "RUNNING" /\ output \in {None, Freed}
    /\ output' = value
    /\ UNCHANGED <<state, marked, param, latest, queued, acked, halted>>

-----------------------------------------------------------------------------
CONSTANT Request    \* the requests the server sends

\* A list of services names services, and an output read has a dri.
ASSUME RequestAssumption ==
    \A r \in Request :
        /\ r.mis = Missing \/ r.mis \in Seq({Service, NoService})
        /\ r.op = "output" => r.dri \in Dri

Init ==
    /\ state = "NOT_READY" /\ marked = {}
    /\ param = Fresh /\ output = None /\ latest = None /\ queued = Empty
    /\ request = None /\ answers = <<>>
    /\ acked = Fresh /\ halted = FALSE

Serve(r) ==
    /\ ~halted /\ request = None
    /\ request' = r
    /\ ServeSet(r) \/ ServeRead(r) \/ ServeOutputRead(r)

\* The end of the loop of the dispatcher.
Served ==
    /\ ~halted /\ request # None
    /\ request' = None /\ answers' = <<>>
    /\ UNCHANGED <<serviceVars, acked, halted>>

Live ==
    /\ ~halted /\ request = None
    /\ \/ Create \/ Run \/ RunAgain
       \/ \E t \in Task : TaskOff(t) \/ TaskOn(t)
       \/ \E next \in {"CREATED", "NOT_READY"} : Remove(next)
       \/ FreeOutput
       \/ \E value \in Output : ReplaceOutput(value)
    /\ UNCHANGED <<request, answers>>

Next == Live \/ Served \/ \E r \in Request : Serve(r)

Spec == Init /\ [][Next]_vars

-----------------------------------------------------------------------------
(* Properties. *)

\* No queue holds more than it can, and the output is no value of a request.
TypeOK ==
    /\ state \in {"NOT_READY", "CREATED", "STOPPED", "RUNNING"}
    /\ marked \subseteq Counted /\ (Busy => state = "RUNNING")
    /\ output \in Output \cup {None, Freed} /\ latest \in Dri \cup {None}
    /\ queued \in [Task -> 0 .. QueueLength]
    /\ \A t \in Task : t \notin Listening => queued[t] = 0

\* A request gets one answer, whichever of its parts are missing and whether its
\* handler or the dispatcher sends it; a request to read the outputs of several
\* services at most one for each of them.  What is no value of an output is the
\* last answer.  Only a running service without an output value stays silent.
AnsweredPerService ==
    request # None /\ ~halted =>
        LET several == /\ request.op = "output" /\ request.mis # Missing
                       /\ Len(request.mis) > 1
        IN /\ Len(answers) <= IF several THEN Len(request.mis) ELSE 1
           /\ answers = <<>> => request.op = "output" /\ state = "RUNNING" /\ output = None
           /\ \A i \in DOMAIN answers : answers[i].rsc # 200 => i = Len(answers)

\* A number that can be carried to a parameter and back, and that was set with
\* 200 as the answer, is the number every later read answers, until the service
\* is stopped, deleted or described; a request that was refused has set nothing
\* (_lwmsg_param_set, _lwmsg_param_read and the two conversions).
ReadsBack ==
    request # None /\ ~halted /\ request.op \in {"read", "readAll"} =>
        \A i \in DOMAIN answers : answers[i].rsc = 200 =>
            \A a \in DOMAIN answers[i].values :
                LET n == acked[request.tis[1]][a]
                IN  n \in Carries(TypeOf[a]) => answers[i].values[a] = n

\* What is said of _parameter_set_by_string: the text is stored as a value of the
\* type of the parameter; so a number of that type that was set with 200 as the
\* answer is the value of the parameter.
SetIsStored ==
    ~halted =>
        \A t \in Task : \A a \in Aliases(t) :
            acked[t][a] \in Holds(TypeOf[a]) => param[t][a] = acked[t][a]
=============================================================================

---------------------------- MODULE BluetoothCli ----------------------------
(***************************************************************************)
(* The command-line client (the main.cpp that follows controller.h), the   *)
(* IBluetooth binder server of ipc/binder/bluetooth_binder_server.cpp and  *)
(* the Adapter behind it.                                                  *)
(*                                                                         *)
(* A client reads a line, looks the command up in kCommandMap and runs its *)
(* handler; the handler checks the arguments, makes its IBluetooth calls   *)
(* one after the other and prints what they return.  A call is synchronous:*)
(* it runs the method of the Adapter on a binder thread of the daemon, and *)
(* the client waits for it.  The threads of PowerThreads are these binder  *)
(* threads, one per client; the other service threads are the daemon's.    *)
(***************************************************************************)
EXTENDS Adapter, TLC

VARIABLES
    bt_iface,   \* per client: the IBluetooth handle of main: "none" before
                \* it asks, "held", or "failed" (main has returned)
    todo,       \* per client: the IBluetooth calls its handler has yet to make
    args,       \* per client: the arguments of the command it handles, a
                \* local of one turn of the loop
    shown       \* per client: what the handler has printed so far

cliVars == <<bt_iface, todo, args, shown>>
allVars == <<vars, cliVars>>

Clients == PowerThreads

\* The methods of IBluetooth that are answered at once (the getters and
\* the two that are not implemented), and those that run a method of the
\* Adapter that takes steps.
Reads   == {"IsEnabled", "GetState", "GetAddress", "GetName", "GetUUIDs",
            "EnableNoAutoConnect"}
Acts    == {"Enable", "Disable", "SetName"}

\* kCommandMap, each handler as the calls it makes.
kCommandMap ==
    "help" :> <<>> @@ "disable" :> <<"Disable">> @@ "enable" :> <<"Enable">>
    @@ "get-state" :> <<"GetState">> @@ "is-enabled" :> <<"IsEnabled">>
    @@ "get-local-address" :> <<"GetAddress">>
    @@ "set-local-name" :> <<"SetName">> @@ "get-local-name" :> <<"GetName">>
    @@ "adapter-info" :> <<"GetAddress", "GetState", "GetName">>

\* The lines a user types: nothing, a command, a command and a name.
Lines ==
    LET Typed == DOMAIN kCommandMap \cup {"bogus"}
    IN {<<>>} \cup {<<w>> : w \in Typed} \cup (Typed \X Names)

Outputs ==
    {"Unrecognized command", "Expected no arguments", "No name was given",
     "commands", "success", "failure", "true", "false",
     "OFF", "TURNING_ON", "ON", "TURNING_OFF", kDefaultAddress, kDefaultName}
    \cup Addresses \cup Names

CliTypeOK ==
    /\ TypeOK
    /\ bt_iface \in [Clients -> {"none", "held", "failed"}]
    /\ todo \in [Clients -> Seq(Reads \cup Acts)]
    /\ args \in [Clients -> Seq(Names)]
    /\ shown \in [Clients -> Seq(Outputs)]
    /\ \A c \in Clients : Len(todo[c]) + Len(shown[c]) <= 3

CliInit ==
    /\ Init
    /\ bt_iface = [c \in Clients |-> "none"]
    /\ todo = [c \in Clients |-> <<>>]
    /\ args = [c \in Clients |-> <<>>]
    /\ shown = [c \in Clients |-> <<>>]

-----------------------------------------------------------------------------
(* The client *)

\* CHECK_NO_ARGS and CHECK_ARGS_COUNT at the top of each handler: the
\* message it prints, or "" when it goes on.
CheckArgs(command, given) ==
    CASE command = "help"                          -> ""
      [] command = "set-local-name" /\ given = <<>> -> "No name was given"
      [] command # "set-local-name" /\ given # <<>> -> "Expected no arguments"
      [] OTHER                                     -> ""

PrintCommandStatus(status) == IF status THEN "success" ELSE "failure"

\* The bool streamed as it is, without the ternary of the code.
PrintsAsNumber(value) == IF value THEN "1" ELSE "0"

PrintFieldAndBoolValue(value) == IF value THEN "true" ELSE "false"

\* What a handler prints of the value a call returned.  GetState travels
\* as an int and is printed by AdapterStateToString: the name of the state.
Shows(method, value) ==
    CASE method \in Acts                             -> PrintCommandStatus(value)
      [] method = "IsEnabled"                        -> PrintFieldAndBoolValue(value)
      [] OTHER                                       -> value

\* A call has returned: the handler prints the value and goes on to its next
\* call, or returns to the loop of main.
Returned(c, method, value) ==
    /\ shown' = [shown EXCEPT ![c] = Append(@, Shows(method, value))]
    /\ todo' = [todo EXCEPT ![c] = Tail(@)]
    /\ args' = [args EXCEPT ![c] = IF Tail(todo[c]) = <<>> THEN <<>> ELSE @]
    /\ UNCHANGED bt_iface

\* The first statements of main: IBluetooth::getClientInterface() yields a
\* handle when the daemon serves IBluetooth, which it does while it has an
\* Adapter; with no handle main returns EXIT_FAILURE.
GetClientInterface(c) ==
    /\ bt_iface[c] = "none" /\ ~crashed
    /\ bt_iface' = [bt_iface EXCEPT ![c] =
                        IF adapter = "live" THEN "held" ELSE "failed"]
    /\ UNCHANGED <<vars, todo, args, shown>>

\* One turn of the loop of main, up to the first call of the handler: an
\* empty line is skipped, an unknown command and a wrong number of
\* arguments are reported, HandleHelp prints the commands.
ReadLine(c, line) ==
    /\ bt_iface[c] = "held" /\ todo[c] = <<>> /\ Calls(c)
    /\ \/ line = <<>> /\ UNCHANGED cliVars
       \/ /\ line # <<>>
          /\ LET command == Head(line)
                 given   == Tail(line)
                 known   == command \in DOMAIN kCommandMap
                 error   == IF known THEN CheckArgs(command, given)
                                     ELSE "Unrecognized command"
                 calls   == IF error = "" THEN kCommandMap[command] ELSE <<>>
             IN /\ todo' = [todo EXCEPT ![c] = calls]
                /\ args' = [args EXCEPT ![c] =
                       IF calls = <<>> THEN <<>> ELSE given]
                /\ shown' = [shown EXCEPT ![c] =
                       CASE error # ""       -> <<error>>
                         [] command = "help" -> <<"commands">>
                         [] OTHER            -> <<>>]
    /\ UNCHANGED <<vars, bt_iface>>

-----------------------------------------------------------------------------
(* The binder server *)

\* The methods that forward to a getter of the Adapter, and the two that
\* are not implemented.
Answer(method) ==
    CASE method = "IsEnabled"           -> IsEnabled
      [] method = "GetState"            -> GetState
      [] method = "GetAddress"          -> GetAddress
      [] method = "GetName"             -> GetName
      [] method = "GetUUIDs"            -> <<>>
      [] method = "EnableNoAutoConnect" -> FALSE

\* A call of a getter: answered from the Adapter in one step.
RemoteRead(c) ==
    /\ todo[c] # <<>> /\ Head(todo[c]) \in Reads /\ Calls(c)
    /\ Returned(c, Head(todo[c]), Answer(Head(todo[c])))
    /\ UNCHANGED vars

\* Enable, Disable and SetName return true when the HAL has taken the
\* request, which it has in the step that returns.
HalTook == Len(halQueue') > Len(halQueue)

\* A handler that makes its call again until the HAL has taken the request.
ForwardedUntilTaken(c) ==
    IF at'[c] = "idle" /\ HalTook THEN Returned(c, Head(todo[c]), TRUE)
                                  ELSE UNCHANGED cliVars

\* The method of the Adapter has taken a step on the binder thread: when it
\* has returned, the client has its answer.
Forwarded(c) ==
    IF at'[c] = "idle" THEN Returned(c, Head(todo[c]), HalTook)
                       ELSE UNCHANGED cliVars

\* The name HandleSetLocalName passes: the arguments joined by spaces and
\* trimmed, which for the one word of Lines is the word.
NameGiven(c) == Head(args[c])

\* Enable, Disable and SetName are called ...
RemoteCall(c) ==
    /\ todo[c] # <<>>
    /\ \/ Head(todo[c]) = "Enable" /\ Enable(c)
       \/ Head(todo[c]) = "Disable" /\ Disable(c)
       \/ Head(todo[c]) = "SetName" /\ SetName(c, NameGiven(c))
    /\ Forwarded(c)

\* ... and run on.
RemoteStep(c) == todo[c] # <<>> /\ Continue(c) /\ Forwarded(c)

-----------------------------------------------------------------------------
(* The specification *)

Served(c) == RemoteRead(c) \/ RemoteCall(c) \/ RemoteStep(c)

Hal(t) == (Deliver(t) \/ Dispatch(t)) /\ UNCHANGED cliVars

CliNext ==
    \/ \E t \in HalThreads : Hal(t)
    \/ \E t \in AppThreads \ Clients : Lifecycle(t) /\ UNCHANGED cliVars
    \/ \E c \in Clients :
        \/ GetClientInterface(c)
        \/ \E line \in Lines : ReadLine(c, line)
        \/ Served(c)
    \/ Terminated /\ UNCHANGED cliVars

CliSpec == CliInit /\ [][CliNext]_allVars

\* Threads keep running, the HAL delivers the events it owes, and a call
\* that has been made is served.  Nobody has to type.
CliFairSpec ==
    /\ CliSpec
    /\ \A t \in HalThreads : WF_allVars(Hal(t))
    /\ \A c \in Clients : WF_allVars(Served(c))

-----------------------------------------------------------------------------
(* Properties *)

\* Every command comes back to the prompt: the handler makes all its calls
\* and each of them returns, while the Adapter exists.  A binder thread
\* inside Enable or Disable needs g_instance_lock for the HAL interface and
\* observers_lock_ for each notification, and the HAL thread holds the first
\* while it waits for the second; neither wait lasts for ever.
CommandCompletes ==
    \A c \in Clients :
        todo[c] # <<>> ~> (todo[c] = <<>> \/ adapter # "live" \/ crashed)

=============================================================================

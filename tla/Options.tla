------------------------------ MODULE Options ------------------------------
(***************************************************************************)
(* The start of the programs: get_options(), which every program has with  *)
(* letters of its own, and what main() sets up from the options before it  *)
(* calibrates: core, priority and, in jtr_sock, the socket.                *)
(*                                                                         *)
(* An argument is the integer that atoi() or inet_addr() makes of it; of   *)
(* strings only which one it is matters.  The history `asked' has the last *)
(* argument given for each letter, before any conversion, and `complaint'  *)
(* the letter of the message that a program exits with.                    *)
(***************************************************************************)
EXTENDS Integers

CONSTANTS
  Programs,     \* among "jtr_null", "jtr_src", "jtr_ss", "jtr_smx", "jtr_sock"
  Arguments,    \* for each letter, the arguments that a user may give
  PORTS,        \* 2^16: opt_Destport is an unsigned short
  CHARS,        \* 2^8: opt_Ttl is a char, which is signed
  INADDR_NONE,  \* what inet_addr() returns for a bad address: 2^32-1
  ULONG_MAX,    \* 2^64-1: opt_Groupaddr is an unsigned long
  NotGiven

CommonLetters == {"c", "d", "f", "g", "h", "l", "n", "p", "t", "w", "v"}
Required == {"D", "G", "I", "T"}
Letters == CommonLetters \cup Required \cup {"B", "M"}

ASSUME OptAssumption ==
  /\ Programs \subseteq {"jtr_null", "jtr_src", "jtr_ss", "jtr_smx", "jtr_sock"}
  /\ Arguments \in [Letters -> SUBSET Int]
  /\ Arguments["G"] \cup Arguments["I"] \subseteq 0..INADDR_NONE
  /\ PORTS \in Nat \ {0}
  /\ CHARS \in Nat \ {0} /\ CHARS % 2 = 0
  /\ INADDR_NONE \in Nat \ {0} /\ ULONG_MAX \in Nat
  /\ INADDR_NONE < ULONG_MAX      \* lbm.sh: Linux, x86_64
  /\ NotGiven \notin Int

VARIABLES
  program,     \* constant
  pc,
  opt,         \* opt_*, by letter
  pinned, realtime,
  sock,        \* where and how the kernel sends the datagrams
  asked, complaint

vars == <<program, pc, opt, pinned, realtime, sock, asked, complaint>>
-----------------------------------------------------------------------------
OptString ==
  CommonLetters \cup CASE program = "jtr_null" -> {"B"}
                       [] program = "jtr_sock" -> Required \cup {"M"}
                       [] OTHER -> {"M"}

Default ==
  [o \in Letters |->
     CASE o = "c" -> 5
       [] o \in {"f", "T"} -> -1
       [] o = "h" -> 800
       [] o = "l" -> 3
       [] o = "n" -> 2000000
       [] o = "p" -> 898
       [] o = "t" -> 1
       [] o = "w" -> 1500
       [] o = "B" -> 100
       [] o = "M" -> 1024
       [] OTHER -> 0]

AsChar(n) == ((n + CHARS \div 2) % CHARS) - CHARS \div 2

(* jtr_sock takes no argument with -v.                                     *)
Converted_WholePort(o, n) ==
  CASE o = "T" -> AsChar(n)
    [] o = "v" /\ program = "jtr_sock" -> 1
    [] OTHER -> n
Converted(o, n) ==
  CASE o = "D" -> n % PORTS
    [] o = "T" -> AsChar(n)
    [] o = "v" /\ program = "jtr_sock" -> 1
    [] OTHER -> n

Exit(letter) == pc' = "exited" /\ complaint' = letter

Init ==
  /\ program \in Programs
  /\ pc = "options"
  /\ opt = Default
  /\ pinned = FALSE /\ realtime = FALSE
  /\ sock = [port |-> 0, group |-> 0, ttl |-> 1, interface |-> 0]
  /\ asked = [o \in Letters |-> NotGiven]
  /\ complaint = "none"

(* opt_Groupaddr == -1 compares with ULONG_MAX; the same check of -I is    *)
(* behind a break.  To jtr_sock the argument of -v is an option of its own *)
(* if it begins with "-", and otherwise nothing at all.                    *)
GetOption(o, n) ==
  /\ pc = "options"
  /\ o \in OptString /\ n \in Arguments[o]
  /\ opt' = [opt EXCEPT ![o] = Converted(o, n)]
  /\ asked' = [asked EXCEPT ![o] = n]
  /\ IF \/ o = "G" /\ opt'["G"] = ULONG_MAX
        \/ o = "v" /\ program = "jtr_sock" /\ n < 0
     THEN Exit(o)
     ELSE UNCHANGED <<pc, complaint>>
  /\ UNCHANGED <<program, pinned, realtime, sock>>

(* default: usage()                                                        *)
Usage ==
  /\ pc = "options"
  /\ Exit("usage")
  /\ UNCHANGED <<program, opt, pinned, realtime, sock, asked>>

Missing_TtlZero(o) ==
  program = "jtr_sock" /\ opt[o] = 0
Missing(o) ==
  program = "jtr_sock" /\ opt[o] = IF o = "T" THEN -1 ELSE 0

(* The four checks, in their order                                         *)
Checks == <<"D", "G", "I", "T">>

FailsCheck(k) == Missing(Checks[k]) /\ \A j \in 1..(k - 1) : ~Missing(Checks[j])

EndOptions ==
  /\ pc = "options"
  /\ \/ \E k \in 1..4 : FailsCheck(k) /\ Exit(Checks[k])
     \/ (\A k \in 1..4 : ~Missing(Checks[k])) /\ pc' = "pin"
        /\ UNCHANGED complaint
  /\ UNCHANGED <<program, opt, pinned, realtime, sock, asked>>
-----------------------------------------------------------------------------
GoTo(next) == pc' = next /\ UNCHANGED <<program, opt, asked, complaint>>

Pin ==
  /\ pc = "pin"
  /\ pinned' = (opt["c"] >= 0)
  /\ GoTo("priority")
  /\ UNCHANGED <<realtime, sock>>

SetPriority ==
  /\ pc = "priority"
  /\ realtime' = (opt["f"] >= 0)
  /\ GoTo(IF program = "jtr_sock" THEN "socket" ELSE "ready")
  /\ UNCHANGED <<pinned, sock>>

(* The kernel reads an option of one byte as an unsigned char.             *)
OpenSocket ==
  /\ pc = "socket"
  /\ sock' = [sock EXCEPT !.port = opt["D"], !.group = opt["G"],
                          !.ttl = opt["T"] % CHARS]
  /\ GoTo("interface")
  /\ UNCHANGED <<pinned, realtime>>

SetInterface ==
  /\ pc = "interface"
  /\ sock' = [sock EXCEPT !.interface = opt["I"]]
  /\ GoTo("ready")
  /\ UNCHANGED <<pinned, realtime>>

(* SYSE() of a system call: no such core, no such address, no permission   *)
SystemCallAbort ==
  /\ \/ pc = "pin" /\ opt["c"] >= 0
     \/ pc = "priority" /\ opt["f"] >= 0
     \/ pc \in {"socket", "interface"}
  /\ GoTo("aborted")
  /\ UNCHANGED <<pinned, realtime, sock>>

Next ==
  \/ \E o \in Letters : \E n \in Arguments[o] : GetOption(o, n)
  \/ Usage \/ EndOptions
  \/ Pin \/ SetPriority \/ OpenSocket \/ SetInterface \/ SystemCallAbort

Spec == Init /\ [][Next]_vars
-----------------------------------------------------------------------------
(* Options keep the widths of their C types (jtr_sock.c:44-60).            *)
OptTypeOK ==
  /\ program \in Programs
  /\ pc \in {"options", "pin", "priority", "socket", "interface", "ready",
             "exited", "aborted"}
  /\ opt \in [Letters -> Int]
  /\ opt["D"] \in 0..(PORTS - 1)
  /\ opt["T"] \in (-(CHARS \div 2))..(CHARS \div 2 - 1)
  /\ {opt["G"], opt["I"]} \subseteq 0..INADDR_NONE
  /\ pinned \in BOOLEAN /\ realtime \in BOOLEAN
  /\ sock \in [port : Int, group : Int, ttl : Int, interface : Int]
  /\ asked \in [Letters -> Int \cup {NotGiven}]
  /\ complaint \in Letters \cup {"none", "usage"}

(* A jtr_sock that starts to measure was given all four required options,  *)
(* and sends as they say, a legal port and every legal TTL included: also  *)
(* one that does not fit a signed char.  Of bad addresses nothing is said: *)
(* the code has a message for them, "Bad IP address", but its two checks   *)
(* never find one (jtr_sock.c:119-136, 149-152, 200-213).                  *)
SocketSendsAsAsked ==
  program = "jtr_sock" /\ pc = "ready" =>
    /\ \A o \in Required : asked[o] # NotGiven
    /\ asked["D"] \in 0..(PORTS - 1) => sock.port = asked["D"]
    /\ asked["T"] \in 0..(CHARS - 1) => sock.ttl = asked["T"]
    /\ asked["G"] # INADDR_NONE => sock.group = asked["G"]
    /\ asked["I"] # INADDR_NONE => sock.interface = asked["I"]
=============================================================================

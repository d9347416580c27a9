--------------------------- MODULE OptionsProofs ---------------------------
(***************************************************************************)
(* Theorems about Options.tla, for all arguments and all widths.           *)
(***************************************************************************)
EXTENDS Options, ArithmeticLemmas

(* An option holds what its last argument converts to, or its default.     *)
GivenInv ==
  \A o \in Letters :
    \/ asked[o] = NotGiven /\ opt[o] = Default[o]
    \/ asked[o] \in Arguments[o] /\ opt[o] = Converted(o, asked[o])

(* The places of main() behind the checks of get_options().                *)
Accepted == pc \in {"pin", "priority", "socket", "interface", "ready"}

(* get_options() returns only if no check fails.                           *)
AcceptedInv ==
  /\ pc = "options" => complaint = "none"
  /\ Accepted => \A o \in Required : ~Missing(o)

(* What main() has given the socket is what the options hold.              *)
SocketInv ==
  program = "jtr_sock" =>
    /\ pc \in {"interface", "ready"} =>
         sock.port = opt["D"] /\ sock.group = opt["G"]
         /\ sock.ttl = opt["T"] % CHARS
    /\ pc = "ready" => sock.interface = opt["I"]

OptInv == OptTypeOK /\ GivenInv /\ AcceptedInv /\ SocketInv
-----------------------------------------------------------------------------
LEMMA DefaultValues ==
  /\ Default \in [Letters -> Int]
  /\ Default["D"] = 0 /\ Default["G"] = 0 /\ Default["I"] = 0
  /\ Default["T"] = -1
<1>1. {"D", "G", "I", "T"} \subseteq Letters
  BY DEF Letters, Required
<1>2. ASSUME NEW o \in Letters PROVE Default[o] \in Int
  BY <1>2 DEF Default
<1>3. Default["D"] = 0 /\ Default["G"] = 0 /\ Default["I"] = 0
      /\ Default["T"] = -1
  BY <1>1 DEF Default
<1>4. Default = [o \in Letters |-> Default[o]]
  BY DEF Default
<1>5. QED
  BY <1>2, <1>3, <1>4

(* A char has half of its values below 0.                                  *)
LEMMA AsCharRange ==
  ASSUME NEW n \in Int
  PROVE  AsChar(n) \in (-(CHARS \div 2))..(CHARS \div 2 - 1)
<1>1. CHARS = 2 * (CHARS \div 2) /\ CHARS \div 2 \in Nat
  BY OptAssumption
<1>2. (n + CHARS \div 2) % CHARS \in 0..(CHARS - 1)
  BY <1>1, ModRange, OptAssumption
<1>3. QED
  BY <1>1, <1>2 DEF AsChar

(* A TTL that goes through a signed char comes out of it as it was.        *)
LEMMA AsCharKeepsBytes ==
  ASSUME NEW n \in 0..(CHARS - 1)
  PROVE  AsChar(n) % CHARS = n
<1> DEFINE h == CHARS \div 2
<1>1. CHARS = 2 * h /\ h \in Nat \ {0}
  BY OptAssumption
<1>2. CASE n < h
  <2>1. (n + h) % CHARS = n + h
    BY <1>1, <1>2
  <2>2. AsChar(n) = n
    BY <1>1, <2>1 DEF AsChar
  <2>3. QED
    BY <1>1, <2>2
<1>3. CASE n >= h
  <2>1. (n + h) % CHARS = n + h - CHARS
    BY <1>1, <1>3
  <2>2. AsChar(n) = n - CHARS
    BY <1>1, <2>1 DEF AsChar
  <2>3. n - CHARS = CHARS * (-1) + n
    BY <1>1
  <2>4. QED
    BY <1>1, <2>2, <2>3, ModUnique
<1>4. QED
  BY <1>1, <1>2, <1>3

LEMMA ConvertedRange ==
  ASSUME NEW o \in Letters, NEW n \in Arguments[o]
  PROVE  /\ n \in Int /\ Converted(o, n) \in Int
         /\ o = "D" => Converted(o, n) \in 0..(PORTS - 1)
         /\ o = "T" =>
              Converted(o, n) \in (-(CHARS \div 2))..(CHARS \div 2 - 1)
         /\ o \in {"G", "I"} =>
              Converted(o, n) = n /\ n \in 0..INADDR_NONE
<1>1. n \in Int
  BY OptAssumption
<1>2. n % PORTS \in 0..(PORTS - 1)
  BY <1>1, ModRange, OptAssumption
<1>3. AsChar(n) \in (-(CHARS \div 2))..(CHARS \div 2 - 1) /\ CHARS \div 2 \in Int
  BY <1>1, AsCharRange, OptAssumption
<1>4. AsChar(n) \in Int
  BY <1>3
<1>5. o \in {"G", "I"} => n \in 0..INADDR_NONE
  BY OptAssumption
<1>6. QED
  BY <1>1, <1>2, <1>3, <1>4, <1>5 DEF Converted
-----------------------------------------------------------------------------
LEMMA InitOptInv == Init => OptInv
<1> SUFFICES ASSUME Init PROVE OptInv
  OBVIOUS
<1>1. OptTypeOK
  <2>1. opt \in [Letters -> Int] /\ opt["D"] = 0 /\ opt["G"] = 0
        /\ opt["I"] = 0 /\ opt["T"] = -1
    BY DefaultValues DEF Init
  <2>2. CHARS \div 2 \in Nat \ {0}
    BY OptAssumption
  <2>3. asked \in [Letters -> Int \cup {NotGiven}]
    BY DEF Init
  <2>4. sock \in [port : Int, group : Int, ttl : Int, interface : Int]
    BY DEF Init
  <2>5. program \in Programs /\ pc = "options" /\ complaint = "none"
        /\ pinned \in BOOLEAN /\ realtime \in BOOLEAN
    BY Zenon DEF Init
  <2>6. QED
    BY <2>1, <2>2, <2>3, <2>4, <2>5, OptAssumption DEF OptTypeOK
<1>2. GivenInv /\ SocketInv
  BY DEF Init, GivenInv, SocketInv
<1>3. AcceptedInv
  BY DEF Init, AcceptedInv, Accepted, Required
<1>4. QED
  BY <1>1, <1>2, <1>3 DEF OptInv

LEMMA GetOptionOptInv ==
  ASSUME OptInv, NEW o \in Letters, NEW n \in Arguments[o], GetOption(o, n)
  PROVE  OptInv'
<1>1. /\ opt' = [opt EXCEPT ![o] = Converted(o, n)]
      /\ asked' = [asked EXCEPT ![o] = n]
      /\ UNCHANGED <<program, pinned, realtime, sock>>
      /\ pc = "options"
  BY DEF GetOption
<1>2. opt \in [Letters -> Int] /\ asked \in [Letters -> Int \cup {NotGiven}]
  BY DEF OptInv, OptTypeOK
<1>3. opt' \in [Letters -> Int] /\ asked' \in [Letters -> Int \cup {NotGiven}]
  BY <1>1, <1>2, ConvertedRange
<1>4. /\ opt["D"]' \in 0..(PORTS - 1)
      /\ opt["T"]' \in (-(CHARS \div 2))..(CHARS \div 2 - 1)
      /\ {opt["G"], opt["I"]}' \subseteq 0..INADDR_NONE
  <2>1. {"D", "T", "G", "I"} \subseteq Letters
    BY DEF Letters, Required
  <2>2. opt["D"]' = IF o = "D" THEN Converted(o, n) ELSE opt["D"]
    BY <1>1, <1>2, <2>1
  <2>3. opt["T"]' = IF o = "T" THEN Converted(o, n) ELSE opt["T"]
    BY <1>1, <1>2, <2>1
  <2>4. opt["G"]' = IF o = "G" THEN Converted(o, n) ELSE opt["G"]
    BY <1>1, <1>2, <2>1
  <2>5. opt["I"]' = IF o = "I" THEN Converted(o, n) ELSE opt["I"]
    BY <1>1, <1>2, <2>1
  <2>6. opt["G"]' \in 0..INADDR_NONE /\ opt["I"]' \in 0..INADDR_NONE
    BY <2>4, <2>5, ConvertedRange DEF OptInv, OptTypeOK
  <2>7. QED
    BY <2>2, <2>3, <2>6, ConvertedRange DEF OptInv, OptTypeOK
<1>5. \/ pc' = "exited" /\ complaint' = o /\ o \notin Required
      \/ pc' = "options" /\ complaint' = "none"
  <2>1. opt["G"]' # ULONG_MAX
    BY <1>4, OptAssumption
  <2>2. \/ pc' = "exited" /\ complaint' = o /\ o = "v"
        \/ pc' = pc /\ complaint' = complaint
    BY <2>1, Zenon DEF GetOption, Exit
  <2>3. QED
    BY <1>1, <2>2 DEF OptInv, AcceptedInv, Required
<1>6. OptTypeOK'
  BY <1>1, <1>3, <1>4, <1>5 DEF OptInv, OptTypeOK
<1>7. GivenInv'
  <2> SUFFICES ASSUME NEW x \in Letters
               PROVE  \/ asked[x]' = NotGiven /\ opt[x]' = Default[x]
                      \/ /\ asked[x]' \in Arguments[x]
                         /\ opt[x]' = Converted(x, asked[x])'
    BY DEF GivenInv
  <2>1. CASE x = o
    BY <1>1, <1>2, <2>1 DEF Converted
  <2>2. CASE x # o
    <3>1. asked[x]' = asked[x] /\ opt[x]' = opt[x]
      BY <1>1, <1>2, <2>2
    <3>2. Converted(x, asked[x])' = Converted(x, asked[x])
      BY <1>1, <3>1 DEF Converted
    <3>3. QED
      BY <3>1, <3>2 DEF OptInv, GivenInv
  <2>3. QED
    BY <2>1, <2>2
<1>8. AcceptedInv' /\ SocketInv'
  BY <1>5 DEF AcceptedInv, Accepted, SocketInv, Required
<1>9. QED
  BY <1>6, <1>7, <1>8 DEF OptInv

LEMMA NextOptInv == OptInv /\ [Next]_vars => OptInv'
<1> SUFFICES ASSUME OptInv, [Next]_vars PROVE OptInv'
  OBVIOUS
<1>1. ASSUME NEW o \in Letters, NEW n \in Arguments[o], GetOption(o, n)
      PROVE  OptInv'
  BY <1>1, GetOptionOptInv
<1>2. ASSUME UNCHANGED <<program, opt, asked>>
      PROVE  GivenInv'
  BY <1>2 DEF OptInv, GivenInv, Converted
<1>3. CASE Usage
  <2>1. GivenInv'
    BY <1>2, <1>3 DEF Usage
  <2>2. QED
    BY <1>3, <2>1 DEF Usage, Exit, OptInv, OptTypeOK, AcceptedInv, Accepted,
                      Missing, SocketInv, Required
<1>4. CASE EndOptions
  <2>1. GivenInv'
    BY <1>2, <1>4 DEF EndOptions
  <2>2. ASSUME NEW k \in 1..4, FailsCheck(k), Exit(Checks[k]) PROVE OptInv'
    <3>1. UNCHANGED <<program, opt, pinned, realtime, sock, asked>>
          /\ pc' = "exited" /\ complaint' = Checks[k] /\ Missing(Checks[k])
      BY <1>4, <2>2 DEF EndOptions, Exit, FailsCheck
    <3>2. Checks[k] \in Letters
      BY DEF Checks, Letters, Required
    <3>3. QED
      BY <2>1, <3>1, <3>2
         DEF OptInv, OptTypeOK, AcceptedInv, Accepted, Missing, SocketInv
  <2>3. ASSUME \A k \in 1..4 : ~Missing(Checks[k]), pc' = "pin",
               UNCHANGED complaint
        PROVE  OptInv'
    <3>1. \A o \in Required : ~Missing(o)
      <4>1. ~Missing(Checks[1]) /\ ~Missing(Checks[2])
            /\ ~Missing(Checks[3]) /\ ~Missing(Checks[4])
        BY <2>3
      <4>2. QED
        BY <4>1 DEF Checks, Required
    <3>2. UNCHANGED <<program, opt, pinned, realtime, sock, asked>>
          /\ pc = "options"
      BY <1>4 DEF EndOptions
    <3>3. AcceptedInv'
      BY <2>3, <3>1, <3>2 DEF OptInv, AcceptedInv, Accepted, Missing, Required
    <3>4. QED
      BY <2>1, <2>3, <3>2, <3>3 DEF OptInv, OptTypeOK, SocketInv
  <2>4. QED
    BY <1>4, <2>2, <2>3 DEF EndOptions
<1>5. CASE Pin \/ SetPriority \/ SystemCallAbort
  <2>1. UNCHANGED <<program, opt, asked, sock, complaint>>
        /\ pc' \in {"priority", "socket", "ready", "aborted"}
        /\ (pc' = "ready" => program # "jtr_sock")
        /\ (pc' # "aborted" => Accepted)
    BY <1>5 DEF Pin, SetPriority, SystemCallAbort, GoTo, Accepted
  <2>2. pinned' \in BOOLEAN /\ realtime' \in BOOLEAN
    <3>1. pinned \in BOOLEAN /\ realtime \in BOOLEAN
      BY DEF OptInv, OptTypeOK
    <3>2. (opt["c"] >= 0) \in BOOLEAN /\ (opt["f"] >= 0) \in BOOLEAN
      OBVIOUS
    <3>3. QED
      BY <1>5, <3>1, <3>2, Zenon DEF Pin, SetPriority, SystemCallAbort
  <2>3. QED
    BY <1>2, <2>1, <2>2 DEF OptInv, OptTypeOK, AcceptedInv, Accepted, Missing,
                            SocketInv
<1>6. CASE OpenSocket \/ SetInterface
  <2>1. UNCHANGED <<program, opt, asked, complaint, pinned, realtime>>
        /\ Accepted
    BY <1>6 DEF OpenSocket, SetInterface, GoTo, Accepted
  <2>2. sock' \in [port : Int, group : Int, ttl : Int, interface : Int]
    <3>1. {"D", "G", "I", "T"} \subseteq Letters
      BY DEF Letters, Required
    <3>2. opt["D"] \in Int /\ opt["G"] \in Int /\ opt["I"] \in Int
          /\ opt["T"] \in Int
      BY <3>1 DEF OptInv, OptTypeOK
    <3>3. opt["T"] % CHARS \in Int
      BY <3>2, OptAssumption
    <3>4. QED
      BY <1>6, <3>2, <3>3 DEF OpenSocket, SetInterface, OptInv, OptTypeOK
  <2>3. SocketInv' /\ pc' \in {"interface", "ready"}
    BY <1>6 DEF OpenSocket, SetInterface, GoTo, OptInv, OptTypeOK, SocketInv
  <2>4. QED
    BY <1>2, <2>1, <2>2, <2>3
       DEF OptInv, OptTypeOK, AcceptedInv, Accepted, Missing
<1>7. CASE UNCHANGED vars
  BY <1>2, <1>7 DEF vars, OptInv, OptTypeOK, AcceptedInv, Accepted, Missing,
                    SocketInv
<1>8. QED
  BY <1>1, <1>3, <1>4, <1>5, <1>6, <1>7 DEF Next

LEMMA OptInvariant == Spec => []OptInv
BY InitOptInv, NextOptInv, PTL DEF Spec
-----------------------------------------------------------------------------
(* Options keep the widths of their C types, for all arguments.            *)
THEOREM OptTypeCorrect == Spec => []OptTypeOK
BY OptInvariant, PTL DEF OptInv

(* The socket of a jtr_sock that starts to measure is what the user asked  *)
(* for, TTLs beyond the range of a signed char included, and bad addresses *)
(* not.                                                                    *)
THEOREM SocketCorrect == Spec => []SocketSendsAsAsked
<1>1. OptInv => SocketSendsAsAsked
  <2> SUFFICES ASSUME OptInv, program = "jtr_sock", pc = "ready"
               PROVE  /\ \A o \in Required : asked[o] # NotGiven
                      /\ asked["D"] \in 0..(PORTS - 1) =>
                           sock.port = asked["D"]
                      /\ asked["T"] \in 0..(CHARS - 1) =>
                           sock.ttl = asked["T"]
                      /\ asked["G"] # INADDR_NONE => sock.group = asked["G"]
                      /\ asked["I"] # INADDR_NONE =>
                           sock.interface = asked["I"]
    BY DEF SocketSendsAsAsked
  <2>1. ASSUME NEW o \in Required
        PROVE  asked[o] \in Arguments[o] /\ opt[o] = Converted(o, asked[o])
    <3>1. o \in Letters /\ ~Missing(o)
      BY DEF Letters, OptInv, AcceptedInv, Accepted
    <3>2. opt[o] # Default[o]
      BY <3>1, DefaultValues DEF Missing, Required
    <3>3. QED
      BY <3>1, <3>2 DEF OptInv, GivenInv
  <2>2. \A o \in Required : asked[o] \in Int
    BY <2>1, OptAssumption DEF Letters
  <2>3. sock.port = asked["D"] % PORTS
    BY <2>1 DEF Required, Converted, OptInv, SocketInv
  <2>4. sock.ttl = AsChar(asked["T"]) % CHARS
    BY <2>1 DEF Required, Converted, OptInv, SocketInv
  <2>5. sock.group = asked["G"] /\ sock.interface = asked["I"]
    BY <2>1 DEF Required, Converted, OptInv, SocketInv
  <2>6. asked["D"] \in 0..(PORTS - 1) => asked["D"] % PORTS = asked["D"]
    BY OptAssumption
  <2>7. \A o \in Required : asked[o] # NotGiven
    BY <2>2, OptAssumption
  <2>8. QED
    BY <2>3, <2>4, <2>5, <2>6, <2>7, AsCharKeepsBytes
<1>2. QED
  BY <1>1, OptInvariant, PTL
=============================================================================

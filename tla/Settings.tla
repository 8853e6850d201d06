------------------------------ MODULE Settings ------------------------------
(***************************************************************************)
(* The configuration a process is started with, what it is refused for,    *)
(* and the execution adapter that comes of it.                             *)
(*                                                                         *)
(*   env    the environment: for each variable, None or what it says       *)
(*   file   what is left of it once it is read, the defaults filled in     *)
(*                                                                         *)
(* Only the variables that something is decided from are kept: not the     *)
(* addresses of the services, the time outs, and the knobs of the          *)
(* simulation.  Amounts are in dollars.                                    *)
(***************************************************************************)
EXTENDS Optional, Wallets, Integers, Sequences

\* A variable that is blank counts as not set.
EnvOpt(text) == IF text = "" THEN None ELSE text

\* Anything but a clear yes is a no.
EnvBool(text, default) ==
  IF EnvOpt(text) = None THEN default ELSE text \in {"1", "true", "yes", "on"}

Mode(env) == Given(EnvOpt(env.mode), "paper")

Modes == {"paper", "live", "replay"}

\* An entry of TARGET_WALLETS: an address, and perhaps a ratio, in percent, and
\* a cap on its trades.
BadWallet(entry) ==
  \/ entry.address = "malformed"
  \/ entry.ratio # None /\ (entry.ratio <= 0 \/ entry.ratio > 1000)

\* What is refused before the values are put together.
Unreadable(env) ==
  \/ Mode(env) \notin Modes
  \/ env.funder = "malformed"
  \/ \E k \in DOMAIN env.limits : env.limits[k] # None /\ env.limits[k] < 0
  \/ \E i \in DOMAIN env.wallets :
       \/ BadWallet(env.wallets[i])
       \/ \E j \in 1..(i - 1) : env.wallets[i].address = env.wallets[j].address

Limits(env) ==
  [minTrade     |-> Given(env.limits.minTrade, 5),
   maxTrade     |-> Given(env.limits.maxTrade, 100),
   maxPosition  |-> Given(env.limits.maxPosition, 1000),
   maxPortfolio |-> Given(env.limits.maxPortfolio, 5000),
   maxOpen      |-> Given(env.limits.maxOpen, 20)]

Wallet(entry) ==
  [NewWallet(entry.address) EXCEPT !.ratio    = Given(entry.ratio, @),
                                   !.maxTrade = Given(entry.cap, @)]

FromEnv(env) ==
  [mode    |-> Mode(env),
   enabled |-> EnvBool(env.enabled, FALSE),
   key     |-> EnvOpt(env.key),
   api     |-> {EnvOpt(env.api[k]) : k \in DOMAIN env.api},
   funder  |-> EnvOpt(env.funder),
   token   |-> EnvOpt(env.token),
   demo    |-> EnvBool(env.demo, FALSE),
   replay  |-> EnvOpt(env.replay),
   limits  |-> Limits(env),
   liveCap |-> Given(env.limits.liveCap, 50),
   wallets |-> [i \in DOMAIN env.wallets |-> Wallet(env.wallets[i])]]

\* Faulty variant: one of the venue's three credentials is enough.
WithoutAnyCredential(file) ==
  file.key = None \/ file.api = {None} \/ file.funder = None

WithoutCredentials(file) ==
  file.key = None \/ None \in file.api \/ file.funder = None

\* The live interlock: two switches, every credential, a token for the API,
\* and no synthetic trades.
LiveRefused(file) ==
  /\ file.mode = "live"
  /\ ~file.enabled \/ WithoutCredentials(file) \/ file.token = None \/ file.demo

LimitsRefused(limits) ==
  \/ limits.minTrade > limits.maxTrade
  \/ limits.maxTrade > limits.maxPosition
  \/ limits.maxPosition > limits.maxPortfolio
  \/ limits.maxOpen = 0

Valid(file) ==
  /\ ~LiveRefused(file)
  /\ file.mode = "replay" => file.replay # None
  /\ ~LimitsRefused(file.limits)
  /\ \A i \in DOMAIN file.wallets :
       file.wallets[i].maxTrade <= file.limits.maxTrade

\* True when orders may reach the venue.
Armed(file) == file.mode = "live" /\ file.enabled

\* What the live adapter lacks.  It is given credentials in any case, empty
\* ones included, and no signer when the key is unusable.
ReadinessGaps(file) ==
  (IF Armed(file) THEN {} ELSE {"armed"})
    \cup (IF file.key = "usable" THEN {} ELSE {"signer"})
    \cup (IF file.funder # None THEN {} ELSE {"funder"})

\* What the risk engine enforces: in live mode a fresh book is required.
RiskLimits(file) ==
  [of |-> file.limits, liveCap |-> file.liveCap, requireBook |-> file.mode = "live"]

\* The process as it comes up.
StartUp(env) ==
  LET file == FromEnv(env)
      gaps == ReadinessGaps(file)
      live == file.mode = "live"
  IN  IF Unreadable(env) \/ ~Valid(file)
        THEN [runs |-> FALSE]
        ELSE [runs |-> TRUE, adapter |-> IF live THEN "live" ELSE "paper",
              ready |-> live => gaps = {}, halted |-> live /\ gaps # {},
              risk |-> RiskLimits(file), wallets |-> file.wallets]
=============================================================================

------------------------------ MODULE Environment ------------------------------
(***************************************************************************)
(* The settings of the process: CoreEnvironmentService, constructed three   *)
(* times while the modules are imported, and main.ts, which serves with     *)
(* them.  class-transformer, class-validator, TypeORM, NestJS, the file     *)
(* system and the databases are external.                                   *)
(*                                                                         *)
(* A setting here stands for all those declared in its form.               *)
(***************************************************************************)
EXTENDS Integers

CONSTANTS
    Varied   \* bound: the settings whose environment variable is not just digits or "true"

CoreSettings == {"NODE_ENV", "PORT", "DB_LOG_HOST", "JWT_SECRET", "TOKEN_EXPIRE",
                 "REDIS_PASSWORD", "REDIS_SSL_ENABLED", "REDIS_SSL_CA_CERT_PATH"}
ExampleSettings == CoreSettings \cup {"THROTTLE_LIMIT", "DB_EXAMPLE_HOST"}

ASSUME VariedAssumption == Varied \subseteq ExampleSettings

\* @Type and @IsNumber, @Transform and @IsBoolean; the others are strings.
Numbers  == {"PORT", "TOKEN_EXPIRE", "THROTTLE_LIMIT"}
Booleans == {"REDIS_SSL_ENABLED"}
NotEmpty == {"PORT", "DB_LOG_HOST"}
Optional == {"REDIS_PASSWORD", "REDIS_SSL_ENABLED", "REDIS_SSL_CA_CERT_PATH"}

\* bound: what the variables hold, one value of each kind.
Raw == {"unset", "empty", "word", "digits", "production", "true"}
RawOf(s) ==
    CASE s \in Booleans   -> {"unset", "true"}
      [] s = "NODE_ENV"   -> {"unset", "production"}
      [] s = "REDIS_SSL_CA_CERT_PATH" -> {"unset", "word"}
      [] OTHER            -> {"unset", "empty", "word", "digits"}

\* A value as the code sees it: "zero" and "positive" are numbers, NaN is "NaN".
Values == {"undefined", "empty", "word", "production", "zero", "positive", "NaN",
           "true", "false"}

\* What new envClass() holds.
Default(s) ==
    CASE s = "NODE_ENV"               -> "word"
      [] s = "TOKEN_EXPIRE"           -> "positive"
      [] s = "REDIS_SSL_ENABLED"      -> "false"
      [] s = "REDIS_SSL_CA_CERT_PATH" -> "empty"
      [] OTHER                        -> "undefined"

VARIABLES
    env,        \* process.env, .env included
    boot,       \* how far the process has come
    view,       \* the ENVIRONMENT of each construction so far
    template,   \* a write of ./env-template.sh is under way
    process     \* "up" or "exited"

environment == <<env, boot, view, template, process>>

\* The constructions, in the order of the imports: CoreEnvironmentProvider,
\* RepaymentEnvironmentProvider, CoreEnvironmentModule.create(ExampleEnvironment).
Constructions == 1..3
SettingsOf(k) == IF k = 1 THEN CoreSettings ELSE ExampleSettings
NoView == [s \in {} |-> "undefined"]

Boots == {"construct_1", "construct_2", "construct_3", "create", "serving"}
NextBoot(k) == CASE k = 1 -> "construct_2" [] k = 2 -> "construct_3" [] k = 3 -> "create"
BootAt(k) == CASE k = 1 -> "construct_1" [] k = 2 -> "construct_2" [] k = 3 -> "construct_3"

EnvironmentTypeOK ==
    /\ env \in [ExampleSettings -> Raw]
    /\ boot \in Boots
    /\ \A k \in Constructions : view[k] = NoView \/ view[k] \in [SettingsOf(k) -> Values]
    /\ template \in BOOLEAN
    /\ process \in {"up", "exited"}

EnvironmentInit ==
    /\ \E e \in [Varied -> Raw] :
           /\ \A s \in Varied : e[s] \in RawOf(s)
           /\ env = [s \in ExampleSettings |->
                        IF s \in Varied THEN e[s] ELSE IF s \in Booleans THEN "true" ELSE "digits"]
    /\ boot = "construct_1"
    /\ view = [k \in Constructions |-> NoView]
    /\ template = FALSE
    /\ process = "up"

-----------------------------------------------------------------------------
(* The constructor of CoreEnvironmentService.                              *)

ToNumber == [empty |-> "zero", word |-> "NaN", digits |-> "positive"]

\* plainToClass: a variable of the environment overrides the default, also an empty
\* one; Number("") is 0, and every string but "true" is false.
Converted(s) ==
    CASE env[s] = "unset" -> Default(s)
      [] env[s] # "unset" /\ s \in Booleans -> IF env[s] = "true" THEN "true" ELSE "false"
      [] env[s] # "unset" /\ s \in Numbers  -> ToNumber[env[s]]
      [] OTHER -> IF env[s] \in {"empty", "production"} THEN env[s] ELSE "word"

MutantValid(s, v) ==   \* Mutant: validateSync skips what is missing
    \/ v = "undefined"
    \/ /\ v # "NaN"
       /\ s \in NotEmpty => v # "empty"

\* validateSync; @IsNotEmpty looks at the converted value.
Valid(s, v) ==
    \/ s \in Optional /\ v = "undefined"
    \/ /\ v \notin {"undefined", "NaN"}
       /\ s \in NotEmpty => v # "empty"

\* An error is thrown while a module is imported: the process ends.  Otherwise, but in
\* production, the settings go to ./env-template.sh, which nobody awaits.
Construct(k) ==
    LET made == [s \in SettingsOf(k) |-> Converted(s)] IN
    /\ process = "up" /\ boot = BootAt(k)
    /\ IF \A s \in SettingsOf(k) : Valid(s, made[s])
       THEN /\ view' = [view EXCEPT ![k] = made]
            /\ boot' = NextBoot(k)
            /\ template' = (template \/ made["NODE_ENV"] # "production")
            /\ UNCHANGED process
       ELSE process' = "exited" /\ UNCHANGED <<boot, view, template>>
    /\ UNCHANGED env

\* All writes are done, or one fails: the error event has no listener, which ends the
\* process.
TemplateWritten ==
    /\ process = "up" /\ template
    /\ template' = FALSE
    /\ UNCHANGED <<env, boot, view, process>>

TemplateFails ==
    /\ process = "up" /\ template
    /\ process' = "exited"
    /\ UNCHANGED <<env, boot, view, template>>

-----------------------------------------------------------------------------
(* bootstrap, which nobody catches either.                                 *)

\* The modules' own settings: readFileSync of a path that is not a file throws, here
\* any that was not set.
Configured ==
    view[3]["REDIS_SSL_ENABLED"] = "true" => view[3]["REDIS_SSL_CA_CERT_PATH"] = "word"

\* NestFactory.create, init and listen: databases, Redis and broker answer.
Serve ==
    /\ process = "up" /\ boot = "create" /\ Configured
    /\ boot' = "serving"
    /\ UNCHANGED <<env, view, template, process>>

\* They do not, or a certificate is missing: after TypeORM's ten attempts the process ends.
CreateFails ==
    /\ process = "up" /\ boot = "create"
    /\ process' = "exited"
    /\ UNCHANGED <<env, boot, view, template>>

Serving == process = "up" /\ boot = "serving"

Constructing == \E k \in Constructions : Construct(k)
EnvironmentNext ==
    Constructing \/ TemplateWritten \/ TemplateFails \/ Serve \/ CreateFails

-----------------------------------------------------------------------------
\* A process that serves has all settings of ExampleEnvironment: the provider that main
\* and the loggers read (CoreEnvironmentProvider), the one of the module and the one
\* nobody injects hold the same values, and with TLS its certificates are named.
ServesConfigured ==
    Serving =>
        /\ \A s \in CoreSettings : view[1][s] = view[2][s] /\ view[2][s] = view[3][s]
        /\ \A s \in ExampleSettings \ Optional : view[3][s] \notin {"undefined", "NaN"}
        /\ env["REDIS_SSL_ENABLED"] = "true" => env["REDIS_SSL_CA_CERT_PATH"] # "unset"

\* The process comes to serve or ends: no import and no factory leaves it half started.
BootSettles == <>(boot = "serving" \/ process = "exited")
=============================================================================

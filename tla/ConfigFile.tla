------------------------------ MODULE ConfigFile ------------------------------
(***************************************************************************)
(* What Load (internal/config/config.go) makes of a configuration that     *)
(* parses: the defaults it fills in and the configurations it accepts, as  *)
(* far as the numbers that the rest of the program counts and waits by.    *)
(***************************************************************************)
EXTENDS Integers

Types == {"http", "ping", "port", "dns"}

\* The fields of a monitor that are not empty, of those its type needs.
Fields == {"name", "url", "host", "port"}

Required(type) ==
  CASE type = "http" -> {"name", "url"}
    [] type \in {"ping", "dns"} -> {"name", "host"}
    [] type = "port" -> {"name", "host", "port"}

\* A monitor, a target and a configuration with numbers as in the file.
Monitors(numbers) ==
  [type : Types \cup {"other"}, fields : SUBSET Fields, interval : numbers, threshold : numbers]
Targets(numbers) == [concurrency : numbers, timeout : numbers, hysteresis : numbers]

Default(value, default) == IF value = 0 THEN default ELSE value

\* In seconds; none for a dns monitor.
DefaultInterval(type) ==
  CASE type \in {"http", "ping"} -> 60 [] type = "port" -> 120 [] OTHER -> 0

DefaultThreshold(cfg) == Default(cfg.threshold, 3)

\* applyDefaults, for a monitor, for a target and for the alerts.
MonitorDefaults(cfg, m) ==
  [m EXCEPT !.threshold = Default(@, DefaultThreshold(cfg)),
            !.interval = Default(@, DefaultInterval(m.type))]

TargetDefaults(target) ==
  [concurrency |-> Default(target.concurrency, 200), timeout |-> Default(target.timeout, 2),
   hysteresis |-> Default(target.hysteresis, 2)]

ApplyDefaults(cfg) ==
  [cfg EXCEPT !.threshold = DefaultThreshold(cfg),
              !.monitors = {MonitorDefaults(cfg, m) : m \in @},
              !.targets = {TargetDefaults(t) : t \in @},
              !.reminder = Default(@, 3600)]

\* validate looks at the monitors only, and at none of their numbers.
Validate(cfg) == \A m \in cfg.monitors : m.type \in Types /\ Required(m.type) \subseteq m.fields

\* Load, of a file that can be read and parsed: accepted or an error.
Accepted(cfg) == Validate(ApplyDefaults(cfg))

-----------------------------------------------------------------------------
\* What the other modules take for granted of a configuration.

\* time.NewTicker takes the interval (scheduler.go:64), failures are counted up to
\* the threshold, and scans up to the hysteresis.
Runs(cfg) ==
  /\ \A m \in cfg.monitors : m.interval > 0 /\ m.threshold > 0
  /\ \A t \in cfg.targets : t.concurrency > 0 /\ t.timeout > 0 /\ t.hysteresis > 0
  /\ cfg.reminder > 0

NoNegative(cfg) ==
  /\ cfg.threshold >= 0 /\ cfg.reminder >= 0
  /\ \A m \in cfg.monitors : m.interval >= 0 /\ m.threshold >= 0
  /\ \A t \in cfg.targets : t.concurrency >= 0 /\ t.timeout >= 0 /\ t.hysteresis >= 0

\* The defaults (config.go:118-167) make a configuration without negative numbers
\* one that runs, if its dns monitors have intervals, and only then.
DefaultsSuffice(cfg) ==
  Accepted(cfg) /\ NoNegative(cfg)
    => (Runs(ApplyDefaults(cfg)) <=> \A m \in cfg.monitors : m.type = "dns" => m.interval # 0)

=============================================================================

----------------------------- MODULE MCPreprocess -----------------------------
\* Every handler, with the time unit its messages have, and the node's own deployment.
EXTENDS Preprocess

\* timestamp_unit is the unit of the message's time field, as the configuration says.
MCDeployments ==
  {d \in [handler : Handlers, time_unit : {"US", "NS"}, field_unit : {"US", "NS"},
          feature_enabled : BOOLEAN] : d.time_unit = d.field_unit /\ (d.handler # "custom" => d.time_unit = "US")}

(* mid360.yaml and the default of the node: microseconds; the driver's      *)
(* CustomMsg has the nanoseconds of its packets.                            *)
NodeDeployments ==
  {[handler |-> "custom", time_unit |-> "US", field_unit |-> "NS", feature_enabled |-> FALSE]}
=============================================================================

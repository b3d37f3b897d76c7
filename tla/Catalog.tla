------------------------------ MODULE Catalog -------------------------------
(***************************************************************************)
(* sensor_catalog: the sensors announce() declares to Home Assistant for   *)
(* every target, each with its key and unit, "none" where it has no unit.  *)
(* publish_value looks its key up here and panics when it is not found.    *)
(***************************************************************************)
SensorConfig(keys, unit) == [key : keys, unit : {unit}]

ac_side ==
    SensorConfig({"ac_power", "ac_power_l1", "ac_power_l2", "ac_power_l3"}, "W")
    \cup SensorConfig({"ac_voltage_l1", "ac_voltage_l2", "ac_voltage_l3"}, "V")
    \cup SensorConfig({"ac_current_l1", "ac_current_l2", "ac_current_l3"}, "A")
    \cup SensorConfig({"grid_frequency"}, "Hz")

dc_side ==
    SensorConfig({"dc_power_s1", "dc_power_s2"}, "W")
    \cup SensorConfig({"dc_voltage_s1", "dc_voltage_s2"}, "V")
    \cup SensorConfig({"dc_current_s1", "dc_current_s2"}, "A")

counters ==
    SensorConfig({"energy_today", "energy_lifetime"}, "kWh")
    \cup SensorConfig({"operation_time", "feed_in_time"}, "h")

BugNoEventCount ==
    SensorConfig({"temperature"}, "C")
    \cup SensorConfig({"session_uptime"}, "s")
    \cup SensorConfig({"max_feedin_w", "nominal_ac_power_w"}, "W")
    \cup SensorConfig({"inverter_state", "poll_status", "grid_relay", "inverter_model",
             "firmware_version", "last_poll", "last_event", "last_event_at",
             "cos_phi"}, "none")

diagnostics ==
    SensorConfig({"temperature"}, "C")
    \cup SensorConfig({"session_uptime"}, "s")
    \cup SensorConfig({"max_feedin_w", "nominal_ac_power_w"}, "W")
    \cup SensorConfig({"inverter_state", "poll_status", "grid_relay", "inverter_model",
             "firmware_version", "last_poll", "last_event", "last_event_at",
             "last_event_count_24h", "cos_phi"}, "none")

sensor_catalog == ac_side \cup dc_side \cup counters \cup diagnostics
=============================================================================

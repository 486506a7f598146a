-------------------------- MODULE SchemaMigrations --------------------------
(***************************************************************************)
(* The revisions of the schema: what upgrade and downgrade of each do, in  *)
(* order. Types, keys and indexes are left out.                            *)
(***************************************************************************)
EXTENDS Sequences, Naturals

Create(t, columns) == <<[op |-> "create", table |-> t, columns |-> columns]>>
Drop(t) == <<[op |-> "drop", table |-> t]>>
Adds(t, columns) == [i \in DOMAIN columns |-> [op |-> "add", table |-> t, column |-> columns[i]]]
Removes(t, columns) == [i \in DOMAIN columns |-> [op |-> "remove", table |-> t, column |-> columns[i]]]

Upgrade001 ==
     Create("users", {"id", "username", "hashed_password", "is_admin", "created_at"})
  \o Create("analyses", {"id", "user_id", "filename", "file_path", "file_hash", "status",
         "current_stage", "progress_pct", "packet_count", "issue_count", "critical_count",
         "error", "result_json", "created_at", "started_at", "finished_at"})
  \o Create("suppression_rules", {"id", "scope", "rule_id", "src_ip", "dst_ip", "analysis_id",
         "reason", "note", "is_active", "expires_at", "created_by", "created_at"})
  \o Create("finding_triage", {"id", "analysis_id", "finding_key", "status", "note",
         "analyst_id", "created_at", "updated_at"})
Downgrade001 ==
     Drop("finding_triage")
  \o Drop("suppression_rules")
  \o Drop("analyses")
  \o Drop("users")
Upgrade002 ==
  Create("telemetry_events", {"id", "event_type", "user_id", "properties_json", "created_at"})
Downgrade002 ==
  Drop("telemetry_events")
Upgrade003 ==
     Create("teams", {"id", "name", "created_at"})
  \o Adds("users", <<"team_id">>)
  \o Adds("path_analysis_role_presets", <<"scope", "team_id", "created_by", "updated_by">>)
  \o Adds("path_analysis_saved_queries", <<"scope", "team_id", "created_by", "updated_by">>)
  \o Adds("path_analysis_feedback", <<"scope", "team_id">>)
  \o Create("investigation_notes", {"id", "analysis_id", "source_ip", "destination_ip",
         "destination_port", "body", "scope", "team_id", "created_by", "updated_by",
         "created_at", "updated_at"})
\* Mutant: the columns of the presets are left.
Downgrade003Short ==
     Drop("investigation_notes")
  \o Removes("path_analysis_feedback", <<"team_id", "scope">>)
  \o Removes("path_analysis_saved_queries", <<"updated_by", "created_by", "team_id", "scope">>)
  \o Removes("users", <<"team_id">>)
  \o Drop("teams")
Downgrade003 ==
     Drop("investigation_notes")
  \o Removes("path_analysis_feedback", <<"team_id", "scope">>)
  \o Removes("path_analysis_saved_queries", <<"updated_by", "created_by", "team_id", "scope">>)
  \o Removes("path_analysis_role_presets", <<"updated_by", "created_by", "team_id", "scope">>)
  \o Removes("users", <<"team_id">>)
  \o Drop("teams")
Upgrade004 ==
  Adds("analyses", <<"workflow_state", "assigned_user_id", "workflow_updated_at",
      "workflow_updated_by">>)
Downgrade004 ==
  Removes("analyses", <<"workflow_updated_by", "workflow_updated_at", "assigned_user_id",
      "workflow_state">>)
Upgrade005 ==
  Create("notifications", {"id", "user_id", "type", "analysis_id", "actor_user_id", "message",
      "read_at", "created_at"})
Downgrade005 ==
  Drop("notifications")
Upgrade006 ==
  Create("monitored_paths", {"id", "saved_query_id", "analysis_id", "owner_user_id",
      "schedule_interval_minutes", "enabled", "last_run_at", "last_change_at",
      "last_result_json", "last_change_summary", "last_drift_severity", "created_at", "updated_at"})
Downgrade006 ==
  Drop("monitored_paths")
Upgrade007 ==
  Create("monitored_path_runs", {"id", "monitored_path_id", "run_at", "connection_outcome",
      "primary_impairment", "path_confidence_score", "drift_severity", "action_required",
      "timing_json", "impairments_json"})
Downgrade007 ==
  Drop("monitored_path_runs")
Upgrade008 ==
     Create("monitor_outcomes", {"id", "monitored_path_id", "outcome", "root_cause_type", "note",
         "signal_drivers_json", "analyst_id", "created_at"})
  \o Adds("monitored_paths", <<"last_outcome", "last_outcome_at">>)
Downgrade008 ==
     Removes("monitored_paths", <<"last_outcome_at", "last_outcome">>)
  \o Drop("monitor_outcomes")
Upgrade009 ==
     Create("monitor_suppressions", {"id", "monitored_path_id", "kind", "value", "reason",
         "enabled", "until", "created_by", "created_at"})
  \o Adds("monitored_paths", <<"baseline_json">>)
Downgrade009 ==
     Removes("monitored_paths", <<"baseline_json">>)
  \o Drop("monitor_suppressions")
Upgrade010 ==
  Create("live_events", {"id", "source_id", "device_type", "device_role", "parser_id",
      "event_time", "received_at", "source_ip", "destination_ip", "source_port",
      "destination_port", "protocol", "action", "reason", "bytes_in", "bytes_out", "packets_in",
      "packets_out", "duration_ms", "nat_source_ip", "nat_destination_ip", "nat_source_port",
      "nat_destination_port", "application", "service", "backend_ip", "backend_port",
      "response_time_ms", "health_status", "raw_line"})
Downgrade010 ==
  Drop("live_events")
Upgrade011 ==
  Create("live_flows", {"id", "source_id", "device_type", "device_role", "parser_id",
      "source_ip", "destination_ip", "source_port", "destination_port", "protocol", "first_seen",
      "last_seen", "duration_ms", "event_count", "total_bytes_in", "total_bytes_out",
      "total_packets_in", "total_packets_out", "allow_count", "deny_count", "drop_count",
      "reset_count", "alert_count", "action_summary", "reason_summary", "nat_source_ip",
      "nat_destination_ip", "nat_source_port", "nat_destination_port", "application", "service",
      "backend_ip", "backend_port", "state", "raw_event_count", "created_at", "updated_at"})
Downgrade011 ==
  Drop("live_flows")
Upgrade012 ==
     Adds("live_events", <<"suppressed">>)
  \o Adds("live_flows", <<"suppressed">>)
Downgrade012 ==
     Removes("live_flows", <<"suppressed">>)
  \o Removes("live_events", <<"suppressed">>)
Upgrade013 ==
  Adds("live_flows", <<"flow_type", "reset_ratio", "deny_ratio", "burst_score",
      "asymmetric_behavior", "suspicious_reasons">>)
Downgrade013 ==
  Removes("live_flows", <<"suspicious_reasons", "asymmetric_behavior", "burst_score",
      "deny_ratio", "reset_ratio", "flow_type">>)
Upgrade014 ==
  Create("live_incidents", {"id", "source_ip", "behavior_type", "severity", "status",
      "first_seen", "last_seen", "event_count", "linked_flow_count", "latest_confidence",
      "summary", "created_at", "updated_at"})
Downgrade014 ==
  Drop("live_incidents")
Upgrade015 ==
  Adds("live_incidents", <<"top_destination_ips", "top_ports", "total_distinct_destinations",
      "total_distinct_ports", "sample_flows", "last_activity_summary">>)
Downgrade015 ==
  Removes("live_incidents", <<"last_activity_summary", "sample_flows", "total_distinct_ports",
      "total_distinct_destinations", "top_ports", "top_destination_ips">>)
Upgrade016 ==
     Create("assets", {"id", "ip_address", "hostname", "asset_type", "criticality",
         "environment", "tags", "created_at", "updated_at"})
  \o Adds("live_incidents", <<"impacted_assets_count", "highest_target_criticality",
         "target_summary">>)
Downgrade016 ==
     Removes("live_incidents", <<"target_summary", "highest_target_criticality",
         "impacted_assets_count">>)
  \o Drop("assets")
Upgrade017 ==
  Adds("live_incidents", <<"priority_score", "last_activity_at", "decay_factor">>)
Downgrade017 ==
  Removes("live_incidents", <<"decay_factor", "last_activity_at", "priority_score">>)
Upgrade018 ==
  Create("attack_sessions", {"id", "source_ip", "start_time", "last_activity", "incident_ids",
      "behaviors", "severity", "priority_score", "status", "total_incidents",
      "total_destinations", "total_ports", "created_at", "updated_at"})
Downgrade018 ==
  Drop("attack_sessions")
Upgrade019 ==
  Adds("attack_sessions", <<"top_destination_ips", "top_ports", "target_summary",
      "highest_target_criticality", "session_summary", "recommended_next_step">>)
Downgrade019 ==
  Removes("attack_sessions", <<"recommended_next_step", "session_summary",
      "highest_target_criticality", "target_summary", "top_ports", "top_destination_ips">>)
Upgrade020 ==
  Adds("attack_sessions", <<"behavior_timeline", "behavior_sequence", "attack_intent">>)
Downgrade020 ==
  Removes("attack_sessions", <<"attack_intent", "behavior_sequence", "behavior_timeline">>)
\* Mutant: a column is forgotten.
Upgrade021Short ==
  Adds("attack_sessions", <<"attack_intents", "intent_confidence", "activity_rate", "recommended_action">>)
Upgrade021 ==
  Adds("attack_sessions", <<"attack_intents", "intent_confidence", "activity_rate", "burst_flag",
      "recommended_action">>)
Downgrade021 ==
  Removes("attack_sessions", <<"recommended_action", "burst_flag", "activity_rate",
      "intent_confidence", "attack_intents">>)
Upgrade022 ==
  Create("ip_baselines", {"id", "source_ip", "observation_window_days", "sample_count",
      "avg_flows_per_window", "avg_distinct_destinations", "avg_distinct_ports",
      "avg_deny_ratio", "avg_reset_ratio", "avg_bytes_per_flow", "stddev_flows",
      "stddev_deny_ratio", "stddev_reset_ratio", "last_computed_at", "created_at", "updated_at"})
Downgrade022 ==
  Drop("ip_baselines")
Upgrade023 ==
  Create("correlation_rules", {"id", "name", "description", "enabled", "created_by", "scope",
      "condition_field", "condition_operator", "condition_value", "aggregation_type",
      "aggregation_field", "threshold", "time_window_minutes", "target_entity", "severity",
      "incident_behavior_type", "cooldown_minutes", "created_at", "updated_at"})
Downgrade023 ==
  Drop("correlation_rules")
Upgrade024 ==
     Create("threat_indicators", {"id", "indicator_type", "indicator_value", "threat_type",
         "confidence", "source_feed", "first_seen", "last_seen", "expiry", "tags", "raw_data",
         "created_at", "updated_at"})
  \o Create("threat_feeds", {"id", "name", "feed_type", "url", "enabled", "last_fetched_at",
         "last_indicator_count", "fetch_interval_hours", "format", "comment_char", "ip_column",
         "default_threat_type", "default_confidence", "created_at", "updated_at"})
Downgrade024 ==
     Drop("threat_feeds")
  \o Drop("threat_indicators")
Upgrade025 ==
  Create("geoip_cache", {"id", "ip", "country_code", "country_name", "city", "latitude",
      "longitude", "asn", "asn_org", "is_private", "is_bogon", "source", "looked_up_at",
      "created_at"})
Downgrade025 ==
  Drop("geoip_cache")
Upgrade026 ==
  Adds("live_incidents", <<"linked_pcap_analysis_ids", "pcap_trigger_count">>)
Downgrade026 ==
  Removes("live_incidents", <<"pcap_trigger_count", "linked_pcap_analysis_ids">>)

Upgrades == <<
  Upgrade001, Upgrade002, Upgrade003, Upgrade004, Upgrade005, Upgrade006, Upgrade007,
  Upgrade008, Upgrade009, Upgrade010, Upgrade011, Upgrade012, Upgrade013, Upgrade014,
  Upgrade015, Upgrade016, Upgrade017, Upgrade018, Upgrade019, Upgrade020, Upgrade021,
  Upgrade022, Upgrade023, Upgrade024, Upgrade025, Upgrade026>>
Downgrades == <<
  Downgrade001, Downgrade002, Downgrade003, Downgrade004, Downgrade005, Downgrade006, Downgrade007,
  Downgrade008, Downgrade009, Downgrade010, Downgrade011, Downgrade012, Downgrade013, Downgrade014,
  Downgrade015, Downgrade016, Downgrade017, Downgrade018, Downgrade019, Downgrade020, Downgrade021,
  Downgrade022, Downgrade023, Downgrade024, Downgrade025, Downgrade026>>
LastRevision == Len(Upgrades)
=============================================================================

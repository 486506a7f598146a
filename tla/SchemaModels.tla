---------------------------- MODULE SchemaModels ----------------------------
(***************************************************************************)
(* The tables of the models, with their columns. Types, keys and indexes   *)
(* are left out.                                                           *)
(***************************************************************************)
EXTENDS SequencesExt, TLC

Table(t, columns) == t :> columns

TeamModel == Table("teams", {"id", "name", "created_at"})
UserModel == Table("users", {"id", "username", "hashed_password", "is_admin", "team_id",
    "created_at"})
AnalysisModel == Table("analyses", {"id", "user_id", "filename", "file_path", "file_hash",
    "status", "current_stage", "progress_pct", "packet_count", "issue_count", "critical_count",
    "error", "result_json", "created_at", "started_at", "finished_at", "workflow_state",
    "assigned_user_id", "workflow_updated_at", "workflow_updated_by"})
SuppressionRuleModel == Table("suppression_rules", {"id", "scope", "rule_id", "src_ip", "dst_ip",
    "analysis_id", "reason", "note", "is_active", "expires_at", "created_by", "created_at"})
TelemetryEventModel == Table("telemetry_events", {"id", "event_type", "user_id",
    "properties_json", "created_at"})
FindingTriageModel == Table("finding_triage", {"id", "analysis_id", "finding_key", "status",
    "note", "analyst_id", "created_at", "updated_at"})
PathAnalysisSavedQueryModel == Table("path_analysis_saved_queries", {"id", "owner_user_id",
    "name", "source_ip", "destination_ip", "destination_port", "role_preset_id", "firewall_ips",
    "load_balancer_vips", "backend_ips", "backend_subnets", "note", "scope", "team_id",
    "created_by", "updated_by", "created_at", "updated_at"})
PathAnalysisRolePresetModel == Table("path_analysis_role_presets", {"id", "owner_user_id",
    "name", "firewall_ips", "load_balancer_vips", "backend_ips", "backend_subnets", "scope",
    "team_id", "created_by", "updated_by", "created_at", "updated_at"})
PathAnalysisCacheModel == Table("path_analysis_cache", {"id", "cache_key", "analysis_id",
    "source_ip", "destination_ip", "destination_port", "roles_hash", "engine_version",
    "result_json", "created_at"})
PathAnalysisFeedbackModel == Table("path_analysis_feedback", {"id", "analysis_id", "source_ip",
    "destination_ip", "destination_port", "predicted_outcome", "predicted_impairment",
    "predicted_confidence", "verdict", "analyst_note", "actual_root_cause", "misleading_step",
    "analyst_id", "scope", "team_id", "created_at", "updated_at"})
InvestigationNoteModel == Table("investigation_notes", {"id", "analysis_id", "source_ip",
    "destination_ip", "destination_port", "body", "scope", "team_id", "created_by", "updated_by",
    "created_at", "updated_at"})
MonitoredPathModel == Table("monitored_paths", {"id", "saved_query_id", "analysis_id",
    "owner_user_id", "schedule_interval_minutes", "enabled", "last_run_at", "last_change_at",
    "last_result_json", "last_change_summary", "last_drift_severity", "last_outcome",
    "last_outcome_at", "baseline_json", "created_at", "updated_at"})
MonitorSuppressionModel == Table("monitor_suppressions", {"id", "monitored_path_id", "kind",
    "value", "reason", "enabled", "until", "created_by", "created_at"})
MonitorOutcomeModel == Table("monitor_outcomes", {"id", "monitored_path_id", "outcome",
    "root_cause_type", "note", "signal_drivers_json", "analyst_id", "created_at"})
MonitoredPathRunModel == Table("monitored_path_runs", {"id", "monitored_path_id", "run_at",
    "connection_outcome", "primary_impairment", "path_confidence_score", "drift_severity",
    "action_required", "timing_json", "impairments_json"})
NotificationModel == Table("notifications", {"id", "user_id", "type", "analysis_id",
    "actor_user_id", "message", "read_at", "created_at"})
LiveEventModel == Table("live_events", {"id", "source_id", "device_type", "device_role",
    "parser_id", "event_time", "received_at", "source_ip", "destination_ip", "source_port",
    "destination_port", "protocol", "action", "reason", "bytes_in", "bytes_out", "packets_in",
    "packets_out", "duration_ms", "nat_source_ip", "nat_destination_ip", "nat_source_port",
    "nat_destination_port", "application", "service", "backend_ip", "backend_port",
    "response_time_ms", "health_status", "raw_line", "suppressed"})
LiveFlowModel == Table("live_flows", {"id", "source_id", "device_type", "device_role",
    "parser_id", "source_ip", "destination_ip", "source_port", "destination_port", "protocol",
    "first_seen", "last_seen", "duration_ms", "event_count", "total_bytes_in", "total_bytes_out",
    "total_packets_in", "total_packets_out", "allow_count", "deny_count", "drop_count",
    "reset_count", "alert_count", "action_summary", "reason_summary", "nat_source_ip",
    "nat_destination_ip", "nat_source_port", "nat_destination_port", "application", "service",
    "backend_ip", "backend_port", "state", "raw_event_count", "flow_type", "reset_ratio",
    "deny_ratio", "burst_score", "asymmetric_behavior", "suspicious_reasons", "suppressed",
    "created_at", "updated_at"})
LiveIncidentModel == Table("live_incidents", {"id", "source_ip", "behavior_type", "severity",
    "status", "first_seen", "last_seen", "event_count", "linked_flow_count", "latest_confidence",
    "summary", "top_destination_ips", "top_ports", "total_distinct_destinations",
    "total_distinct_ports", "sample_flows", "last_activity_summary", "impacted_assets_count",
    "highest_target_criticality", "target_summary", "priority_score", "last_activity_at",
    "decay_factor", "linked_pcap_analysis_ids", "pcap_trigger_count", "created_at", "updated_at"})
AttackSessionModel == Table("attack_sessions", {"id", "source_ip", "start_time", "last_activity",
    "incident_ids", "behaviors", "severity", "priority_score", "status", "total_incidents",
    "total_destinations", "total_ports", "top_destination_ips", "top_ports", "target_summary",
    "highest_target_criticality", "session_summary", "recommended_next_step",
    "behavior_timeline", "behavior_sequence", "attack_intent", "attack_intents",
    "intent_confidence", "activity_rate", "burst_flag", "recommended_action", "created_at",
    "updated_at"})
IPBaselineModel == Table("ip_baselines", {"id", "source_ip", "observation_window_days",
    "sample_count", "avg_flows_per_window", "avg_distinct_destinations", "avg_distinct_ports",
    "avg_deny_ratio", "avg_reset_ratio", "avg_bytes_per_flow", "stddev_flows",
    "stddev_deny_ratio", "stddev_reset_ratio", "last_computed_at", "created_at", "updated_at"})
AssetModel == Table("assets", {"id", "ip_address", "hostname", "asset_type", "criticality",
    "environment", "tags", "created_at", "updated_at"})
ThreatIndicatorModel == Table("threat_indicators", {"id", "indicator_type", "indicator_value",
    "threat_type", "confidence", "source_feed", "first_seen", "last_seen", "expiry", "tags",
    "raw_data", "created_at", "updated_at"})
ThreatFeedModel == Table("threat_feeds", {"id", "name", "feed_type", "url", "enabled",
    "last_fetched_at", "last_indicator_count", "fetch_interval_hours", "format", "comment_char",
    "ip_column", "default_threat_type", "default_confidence", "created_at", "updated_at"})
CorrelationRuleModel == Table("correlation_rules", {"id", "name", "description", "enabled",
    "created_by", "scope", "condition_field", "condition_operator", "condition_value",
    "aggregation_type", "aggregation_field", "threshold", "time_window_minutes", "target_entity",
    "severity", "incident_behavior_type", "cooldown_minutes", "created_at", "updated_at"})
GeoIPCacheModel == Table("geoip_cache", {"id", "ip", "country_code", "country_name", "city",
    "latitude", "longitude", "asn", "asn_org", "is_private", "is_bogon", "source",
    "looked_up_at", "created_at"})

\* The metadata of Base: every table of the models.
ModelTables == <<
  TeamModel, UserModel, AnalysisModel, SuppressionRuleModel,
  TelemetryEventModel, FindingTriageModel, PathAnalysisSavedQueryModel, PathAnalysisRolePresetModel,
  PathAnalysisCacheModel, PathAnalysisFeedbackModel, InvestigationNoteModel, MonitoredPathModel,
  MonitorSuppressionModel, MonitorOutcomeModel, MonitoredPathRunModel, NotificationModel,
  LiveEventModel, LiveFlowModel, LiveIncidentModel, AttackSessionModel,
  IPBaselineModel, AssetModel, ThreatIndicatorModel, ThreatFeedModel,
  CorrelationRuleModel, GeoIPCacheModel>>
Models == FoldLeft(LAMBDA a, m : a @@ m, <<>>, ModelTables)
=============================================================================

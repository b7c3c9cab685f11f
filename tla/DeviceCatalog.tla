--------------------------- MODULE DeviceCatalog ---------------------------
(***************************************************************************)
(* What const.py and profiles.py say of the Powercenter end devices: the   *)
(* type of a variant, the variant an article number hints at, the values a *)
(* refresh reads of a device and the values its entities show.             *)
(*                                                                         *)
(* Every measured quantity that no other platform shows is "metering".     *)
(***************************************************************************)
EXTENDS Naturals, TLC

CONSTANT None   \* no answer

ASSUMPTION NoneAssumption == None \notin Nat

(* DEVICE_VARIANT_MAP, by variant                                          *)
DeviceTypes ==
  <<"AS+FC", "3NA3 Fuse", "MCB", "AFDD", "RCA", "RCA Test", "MCB RCM", "RCM",
    "MSP", "RCM", "ECPD", "unknown", "unknown", "POC1100", "unknown", "POC2000",
    "unknown", "DIDO", "3NA6 Fuse">>

Variants == {0} \cup DOMAIN DeviceTypes
Generic == "generic_sentron_device"

TypeOf(variant) ==
  IF variant \in DOMAIN DeviceTypes THEN DeviceTypes[variant] ELSE "unknown"

(* _is_valid_variant                                                       *)
IsValidVariant(variant) == TypeOf(variant) # "unknown"

(* _build_slave_metadata: device_type                                      *)
MetadataType(variant) ==
  IF IsValidVariant(variant) THEN TypeOf(variant) ELSE Generic

(* ARTICLE_NUMBER_VARIANT_HINTS.  An article number is the set of hints it *)
(* contains.                                                               *)
ArticleHints ==
  "5ST3" :> 1 @@ "3NA3" :> 2 @@ "5SL6" :> 3 @@ "5SV6" :> 4 @@ "5ST30" :> 5 @@
  "5ST31" :> 6 @@ "5SL60" :> 7 @@ "5SV8" :> 8 @@ "3RV2" :> 9 @@ "5TY1" :> 11 @@
  "5TT4" :> 18 @@ "3NA6" :> 19

Longer(hint) == hint \in {"5ST30", "5ST31", "5SL60"}

(* Any hint will do: a mutant of VariantFromArticle.                       *)
VariantFromShortHint(article) ==
  IF article \in {None, {}} THEN None
  ELSE ArticleHints[CHOOSE h \in article : ~Longer(h)]

(* _variant_from_article_number: the longest hint wins.                    *)
VariantFromArticle(article) ==
  IF article \in {None, {}} THEN None
  ELSE ArticleHints[CHOOSE h \in article :
                      Longer(h) \/ \A g \in article : ~Longer(g)]
---------------------------------------------------------------------------
(* get_effective_device_profile.  An item is a key with the way it is read.*)
Item(key, kind) == [key |-> key, kind |-> kind]

Connection == Item("connection_state", "gateway_connection_state")
Breaker == Item("breaker_state", "gateway_breaker_state")
Firmware == Item("firmware", "holding_firmware")
Float(key) == Item(key, "input_float32")

BreakerProfile ==
  {Float("metering"), Float("current"), Float("temperature"), Breaker, Firmware}

(* DEVICE_PROFILES                                                         *)
TypeProfile(type) ==
  CASE type = "AS+FC" -> {Breaker, Connection, Firmware}
    [] type \in {"RCA", "RCA Test"} ->
         {Item("rca_handle_state", "input_u16"), Connection, Firmware}
    [] type = "MCB" -> BreakerProfile
    [] type = "MCB RCM" ->
         BreakerProfile \cup {Item("rcm_test_status", "input_u16"),
                              Item("rcm_test_timestamp", "input_unix_time"),
                              Float("leakage")}
    [] type = "RCM" -> {Float("leakage"), Float("temperature"), Firmware}
    [] type = "AFDD" -> BreakerProfile \cup {Item("alarm_state", "input_u16")}
    [] type = "ECPD" ->
         BreakerProfile \cup
           {Item("alarm_state", "input_u32"), Connection,
            Item("last_state_rcd_test", "input_u16"),
            Item("device_test_status", "input_u16"),
            Item("device_test_timestamp", "input_unix_time"),
            Item("unlock_status", "input_u16"),
            Item("alarm_trip_active", "gateway_breaker_state_match"),
            Item("alarm_rcm_active", "input_u32_mask")}
    [] OTHER -> {}

CommonVariants == 1 .. 11 \cup {18, 19}
AlarmVariants == DOMAIN DeviceTypes \ {14, 16}
GatewayBreakerVariants == {1, 3, 4, 7, 11}
CurrentVariants == {2, 3, 4, 7, 11, 19}

(* Appended unless the key is there; put in the place of the key.          *)
Append1(profile, item) ==
  IF \E i \in profile : i.key = item.key THEN profile ELSE profile \cup {item}
Replace(profile, item) == {i \in profile : i.key # item.key} \cup {item}

WithBreaker(profile, variant) ==
  IF variant \notin GatewayBreakerVariants THEN profile
  ELSE Append1({i \in profile : i.key = "breaker_state" => i = Breaker}, Breaker)

(* Added beside the profile's own: a mutant of WithAlarm.                  *)
WithSecondAlarm(profile, variant) ==
  IF variant \notin AlarmVariants THEN profile
  ELSE profile \cup {Item("alarm_state", "input_u32")}

WithAlarm(profile, variant) ==
  IF variant \notin AlarmVariants THEN profile
  ELSE Replace(profile, Item("alarm_state", "input_u32"))

WithCommon(profile, variant) ==
  IF variant \notin CommonVariants THEN profile
  ELSE Append1(Append1(Replace(Replace(profile,
                 Item("operating_hours_overall", "input_float64")),
                 Item("radio_signal_strength_rssi", "input_i16")),
                 Float("temperature")), Float("average_temperature"))

WithCurrent(profile, variant) ==
  IF variant \notin CurrentVariants THEN profile ELSE Append1(profile, Float("current"))

WithInputsOutputs(profile, variant) ==
  IF variant # 18 THEN profile
  ELSE profile \cup {Item("dido_input_1", "input_u16_mask"),
                     Item("dido_input_2", "input_u16_mask"),
                     Item("output_1_forcing", "input_output_forcing"),
                     Item("output_2_forcing", "input_output_forcing")}

EffectiveProfile(info) ==
  LET v == info.variant
      own == Append1(TypeProfile(info.type), Connection)
  IN WithInputsOutputs(WithCurrent(WithCommon(
       WithAlarm(WithBreaker(own, v), v), v), v), v)
---------------------------------------------------------------------------
(* The kinds _async_read_all_values reads, but the connection state.       *)
ReadKinds ==
  {"input_float32", "input_float64", "input_u16", "input_i16",
   "gateway_breaker_state", "input_u32", "input_output_forcing",
   "input_unix_time", "gateway_breaker_state_match", "input_u16_mask",
   "input_u32_mask", "holding_firmware"}

RcmAc == {"rcm_ac_pre_alarm_enabled", "rcm_ac_alarm_enabled",
          "rcm_ac_pre_alarm_threshold_percent", "rcm_ac_alarm_threshold_ma"}
RcmRms == {"rcm_rms_pre_alarm_enabled", "rcm_rms_alarm_enabled",
           "rcm_rms_pre_alarm_threshold_percent", "rcm_rms_alarm_threshold_a"}
Protected == {"ecpd_nominal_current", "ecpd_instantaneous_trip_behaviour",
              "ecpd_time_delay_release_behaviour", "ecpd_rcd_sensitivity",
              "ecpd_rcd_tripping_time", "ecpd_residual_current_trip_behaviour"}

(* The configuration registers, by variant.                                *)
ConfigurationKeys(variant) ==
  (IF variant = 11 THEN RcmAc \cup Protected ELSE {}) \cup
  (IF variant = 7 THEN RcmRms ELSE {}) \cup
  (IF variant \in {1, 5, 6} THEN {"attached_device_type"} ELSE {}) \cup
  (IF variant \in {5, 6} THEN {"ard_enabled", "remote_control_selector"} ELSE {})

(* The keys of the values of a connected device.                           *)
KeysRead(info) ==
  {i.key : i \in {j \in EffectiveProfile(info) : j.kind \in ReadKinds}} \cup
  (IF TypeProfile(info.type) \cap {Item("rca_handle_state", "input_u16")} # {}
   THEN {"rca_handle_state_raw"} ELSE {}) \cup
  {"connection_state"} \cup ConfigurationKeys(info.variant)

(* The keys the entities show, platform by platform.                       *)
SensorKeys(info) == {i.key : i \in EffectiveProfile(info)}

SwitchKeys(variant) ==
  CASE variant = 11 -> {"breaker_state", "unlock_status", "rcm_ac_pre_alarm_enabled",
                        "rcm_ac_alarm_enabled"}
    [] variant = 7  -> {"rcm_rms_pre_alarm_enabled", "rcm_rms_alarm_enabled"}
    [] variant \in {5, 6} -> {"rca_handle_state_raw", "remote_control_selector"}
    [] variant = 18 -> {"output_1_forcing", "output_2_forcing"}
    [] OTHER -> {}

NumberKeys(variant) ==
  CASE variant = 11 -> {"rcm_ac_pre_alarm_threshold_percent", "rcm_ac_alarm_threshold_ma"}
    [] variant = 7  -> {"rcm_rms_pre_alarm_threshold_percent", "rcm_rms_alarm_threshold_a"}
    [] OTHER -> {}

SelectKeys(variant) ==
  (IF variant \in {1, 5, 6} THEN {"attached_device_type"} ELSE {}) \cup
  (IF variant \in {5, 6} THEN {"ard_enabled", "remote_control_selector"} ELSE {}) \cup
  (IF variant = 11 THEN Protected ELSE {})

ButtonKeys(variant) ==
  CASE variant = 11 -> {"device_test_status", "device_test_timestamp"}
    [] variant = 7  -> {"rcm_test_status", "rcm_test_timestamp"}
    [] OTHER -> {}

KeysShown(info) ==
  SensorKeys(info) \cup SwitchKeys(info.variant) \cup NumberKeys(info.variant)
    \cup SelectKeys(info.variant) \cup ButtonKeys(info.variant)
============================================================================

-------------------------------- MODULE NetInfo --------------------------------
(***************************************************************************)
(* The settings of the network devices that iw_dev_net.c keeps for the      *)
(* drivers: access point, LoRa join keys, LoRa band, BLE name.  A text is    *)
(* an identity and a length; what is left of an older, longer text when a   *)
(* shorter one is copied over it without clearing is "mixed".               *)
(***************************************************************************)
EXTENDS Naturals, Sequences

CONSTANTS Text,       \* the texts that are given, NoText not among them
          NoText,     \* a NULL or empty argument, or a buffer never written
          KeyLength,  \* the length of every LoRa key of a mode
          BandLength  \* LORA_BAND_NAME_LEN

VARIABLES ap,     \* gApInfo
          lora,   \* gLoraJoinInfo: join_mode and the keys of each mode
          band,   \* gLoraBand
          ble,    \* gBleInfo
          given   \* history: the LoRa keys of the last registration

infoVars == <<ap, lora, band, ble, given>>

Mode == {"JOIN_ABP", "JOIN_OTAA"}

NoInfo == [mode |-> "none", keys |-> <<>>]

\* memcpy or strncpy of strlen bytes: the tail of a longer text stays.
Overwritten(old, new) == IF new.length < old.length
                         THEN [of |-> "mixed", length |-> old.length]
                         ELSE new

\* memset, then memcpy of strlen bytes: the text replaces what was there.
Replaced(old, new) == new

InfoInit ==
    /\ ap = [ssid |-> NoText, pw |-> NoText]
    /\ lora = [mode |-> "none", keys |-> [m \in Mode |-> <<NoText, NoText, NoText>>]]
    /\ band = NoText
    /\ ble = [name |-> NoText, pincode |-> NoText, mode |-> "none"]
    /\ given = <<>>

iw_register_wifi_info(ssid, pw) ==
    /\ ap' = [ssid |-> IF ssid = NoText THEN ap.ssid ELSE Overwritten(ap.ssid, ssid),
              pw   |-> IF pw = NoText THEN ap.pw ELSE Overwritten(ap.pw, pw)]
    /\ UNCHANGED <<lora, band, ble, given>>

iw_get_wifi_info == IF ap.ssid = NoText THEN NoInfo ELSE ap

\* The mode is taken before anything is known of the lengths; those are tested
\* when the keys are read.
RegisterLora(mode, keys) ==
    /\ \A i \in 1 .. 3 : keys[i] # NoText
    /\ lora' = [mode |-> mode,
                keys |-> [lora.keys EXCEPT ![mode] =
                            [i \in 1 .. 3 |-> Replaced(lora.keys[mode][i], keys[i])]]]
    /\ given' = keys
    /\ UNCHANGED <<ap, band, ble>>

iw_register_lora_abp_info(keys) == RegisterLora("JOIN_ABP", keys)
iw_register_lora_otaa_info(keys) == RegisterLora("JOIN_OTAA", keys)

\* The answer is NoInfo unless a mode was taken and its three keys are complete.
iw_get_lora_info ==
    IF lora.mode \in Mode /\ \A i \in 1 .. 3 : lora.keys[lora.mode][i].length = KeyLength
    THEN [lora EXCEPT !.keys = lora.keys[lora.mode]]
    ELSE NoInfo

iw_register_lora_band_info(text) ==
    /\ band' = IF text.length = BandLength THEN text ELSE band
    /\ UNCHANGED <<ap, lora, ble, given>>

iw_get_lora_band_info == band  \* or IW_FAIL when it is NoText

iw_register_ble_info(name, pincode, mode) ==
    /\ ble' = [name    |-> IF name = NoText THEN ble.name ELSE Overwritten(ble.name, name),
               pincode |-> IF pincode = NoText THEN ble.pincode ELSE Replaced(ble.pincode, pincode),
               mode    |-> IF mode \in {"MASTER", "SLAVE"} THEN mode ELSE ble.mode]
    /\ UNCHANGED <<ap, lora, band, given>>

iw_get_ble_info == ble

--------------------------------------------------------------------------------

\* The LoRa keys a driver reads are the three that were registered last, never
\* some of them and some of an earlier registration (iw_get_lora_info reads what
\* iw_register_lora_abp_info and iw_register_lora_otaa_info wrote piece by piece).
LoraKeysTogether ==
    iw_get_lora_info # NoInfo => iw_get_lora_info.keys = given
================================================================================

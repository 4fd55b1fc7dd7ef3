----------------------------- MODULE ConfigInfo -----------------------------
(***************************************************************************)
(* The configuration (src/conf/config_info.cpp) and the reader of JSON     *)
(* (src/json/json_process.cpp) as operators: what the program makes of a   *)
(* configuration file.                                                     *)
(*                                                                         *)
(* A file is readable or not, and its items are the values of the names    *)
(* found in it; text that is no JSON object has no item.  A value is a     *)
(* JSON string, of which atoi makes a number, or something else.           *)
(***************************************************************************)
EXTENDS Integers

\* CONST_KEYS: the names that are looked for.
Keys == {"listen", "max_connections", "daemon", "log_tank", "log_level", "log_file",
         "pid_file"}

\* The values of the model: a word, which atoi takes for 0; the digits of a number;
\* a JSON value that is not a string.
Word(t) == [string |-> TRUE, text |-> t, number |-> 0]
Numeral(n) == [string |-> TRUE, text |-> "numeral", number |-> n]
NotString == [string |-> FALSE, text |-> "", number |-> 0]

IsFile(f) ==
    /\ f.readable \in BOOLEAN
    /\ \A k \in DOMAIN f.items :
          f.items[k] \in [string : BOOLEAN, text : STRING, number : Int]

\* load_configfile, then parse_and_check with parse_json_no_array: a known item that
\* is not a string crashes (its valuestring is NULL), a file without any is invalid.
Load(f) ==
    IF ~f.readable THEN "error"
    ELSE IF \E k \in Keys \cap DOMAIN f.items : ~f.items[k].string THEN "crash"
    ELSE IF Keys \cap DOMAIN f.items = {} THEN "error"
    ELSE "success"

\* get_value(): the string stays empty when there is no such item.
GetValue(f, key) == IF key \in DOMAIN f.items THEN f.items[key] ELSE Word("")

GetDaemon(f) == GetValue(f, "daemon").text # "off"
GetLogTankFile(f) == GetValue(f, "log_tank").text # "console"
GetLogLevel(f) == GetValue(f, "log_level").text
GetLogFileName(f) == GetValue(f, "log_file").text
GetPidFile(f) == GetValue(f, "pid_file").text
GetMaxConnections(f) == GetValue(f, "max_connections").number

\* get_listen() gives one text, of which listen_base makes the port.
GetListen(f) == GetValue(f, "listen").number
=============================================================================

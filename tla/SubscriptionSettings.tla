------------------------ MODULE SubscriptionSettings ------------------------
(***************************************************************************)
(* The settings of a feed's subscription in its dialog                     *)
(* (src/ui/subscription_dialog.c) and in a feed list file                  *)
(* (subscription_export() and subscription_import() of                     *)
(* src/subscription.c).  Feeds of remote sources, whose dialog has fewer   *)
(* pages, and addresses that libxml cannot parse are left out.             *)
(***************************************************************************)
EXTENDS Integers, Sequences

\* A source as a text: a "|" in front, "://", a "/" after the host, and a login
\* <<user, password>>, <<user>> or none before the host.
Text(name) ==
    [command |-> FALSE, name |-> name, scheme |-> FALSE, slash |-> FALSE, login |-> <<>>]
Url(name) == [Text(name) EXCEPT !.scheme = TRUE, !.slash = TRUE]

CacheDefault == -1
CacheUnlimited == -2
NoFilter == <<>>        \* or the command, with notes of who called it unsafe

\* subscription_new()
NewSubscription(source) ==
    [source |-> source, interval |-> -1, filter |-> NoFilter, cache |-> CacheDefault,
     options |-> {}]

-----------------------------------------------------------------------------
(* The dialog.  A form has the fields of its widgets.                      *)

Options == {"dontUseProxy", "encAutoDownload", "loadItemLink", "ignoreComments",
            "markAsRead", "html5Extract"}

\* The range of the spin button.
Spin(value) == IF value < 1 THEN 1 ELSE IF value > 10000 THEN 10000 ELSE value

\* The interval in the largest unit that it is a multiple of.
SpinFields(minutes) ==
    LET unit == IF minutes % 1440 = 0 THEN 1440 ELSE IF minutes % 60 = 0 THEN 60 ELSE 1
    IN  [unit |-> unit, value |-> Spin(minutes \div unit)]

\* The radio buttons of the update interval, with the interval that the spin
\* button shows when none is set.
IntervalFields(interval, preference) ==
    IF interval <= -2 THEN [choice |-> "never", spin |-> SpinFields(preference)]
    ELSE IF interval = -1 THEN [choice |-> "default", spin |-> SpinFields(preference)]
    ELSE [choice |-> "specific", spin |-> SpinFields(interval)]

CacheFields(cache) ==
    CASE cache = 0 -> [choice |-> "disable", limit |-> 0]
      [] cache = CacheDefault -> [choice |-> "default", limit |-> 0]
      [] cache = CacheUnlimited -> [choice |-> "unlimited", limit |-> 0]
      [] OTHER -> [choice |-> "limited", limit |-> cache]

\* subscription_prop_dialog_load().  A login without a password has an empty one.
Loaded(s, preference) ==
    LET radio == IF s.source.command THEN "command" ELSE IF s.source.scheme THEN "url" ELSE "file"
        login == IF radio = "url" THEN s.source.login ELSE <<>>
    IN  [radio |-> radio,
         entry |-> [s.source EXCEPT !.command = FALSE, !.login = IF radio = "url" THEN <<>> ELSE @],
         auth |-> login # <<>>,
         login |-> SubSeq(login \o <<"", "">>, 1, 2),
         interval |-> IntervalFields(s.interval, preference),
         filtered |-> s.filter # NoFilter, filter |-> s.filter,
         cache |-> CacheFields(s.cache),
         options |-> s.options \intersect Options]

\* ui_subscription_create_url()
CreateUrl(entry, auth, login) ==
    [entry EXCEPT !.scheme = TRUE, !.slash = TRUE, !.login = IF auth THEN login ELSE @]

\* ui_subscription_dialog_decode_source().  The button for commands has another
\* name in the dialog than it is asked for by, so that the old source stays.
DecodedSource(f, old) ==
    CASE f.radio = "file" -> f.entry
      [] f.radio = "url" -> CreateUrl(f.entry, f.auth, f.login)
      [] OTHER -> old

\* on_dialog_response(); another source or filter also starts an update.
Applied(s, f) ==
    [s EXCEPT
        !.source = DecodedSource(f, @),
        !.interval = CASE f.interval.choice = "never" -> -2
                       [] f.interval.choice = "default" -> -1
                       [] OTHER -> f.interval.spin.value * f.interval.spin.unit,
        !.filter = IF f.filtered THEN f.filter ELSE NoFilter,
        !.cache = CASE f.cache.choice = "default" -> CacheDefault
                    [] f.cache.choice = "disable" -> 0
                    [] f.cache.choice = "unlimited" -> CacheUnlimited
                    [] OTHER -> f.cache.limit,
        !.options = (@ \ Options) \union f.options]

-----------------------------------------------------------------------------
(* The attributes of an outline; one that is not written is read as the    *)
(* default.                                                                *)

\* A mutant: the cache limit is not written.
WrittenWithoutCache(s, trusted) == [s EXCEPT !.cache = CacheDefault]

\* subscription_export()
Written(s, trusted) ==
    IF trusted THEN s
    ELSE [s EXCEPT !.cache = CacheDefault, !.options = @ \intersect {"dontUseProxy"}]

\* subscription_import(): filters of files of other programs are made unusable.
Read(s, trusted) ==
    IF trusted \/ s.filter = NoFilter THEN s
    ELSE [s EXCEPT !.filter = <<"unsafe">> \o @]
=============================================================================

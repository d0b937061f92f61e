---------------------------- MODULE ConnectionUrl ----------------------------
(***************************************************************************)
(* PostgresConfig.DSN and RedisConfig.DSN: credentials are percent-encoded *)
(* and put in a URL, which the drivers take apart again.  A text is a      *)
(* sequence of characters.  Host and database are written as they are, and *)
(* are plain here.                                                         *)
(***************************************************************************)
EXTENDS Naturals, Sequences, SequencesExt, FiniteSetsExt

CONSTANTS
  Characters,   \* characters of credentials
  MaxUser,      \* bound of the model: characters of a role name
  MaxPassword,  \* bound of the model: characters of a password
  Host,         \* written as it is, and plain
  Database,
  NoUrl         \* no settings, no URL, no password

Written == UNION {{text[n] : n \in DOMAIN text} : text \in {Host, Database}}

\* Neither holds a character that would end it.
ASSUME PlainAssumption ==
  /\ {Host, Database} \subseteq Seq(Written)
  /\ \A n \in DOMAIN Host : Host[n] \notin {"/", "?", "#", "@"}
  /\ \A n \in DOMAIN Database : Database[n] \notin {"?", "#"}

\* Those a text can have that is made of these, separators and escapes.
UrlCharacters ==
  Characters \cup Written
  \cup {"@", "/", ":", "?", "#", "%", "4", "0", "2", "F", "3", "A", "5", "s"}

ASSUME NoUrlAssumption == NoUrl \notin Seq(UrlCharacters)

VARIABLES
  settings,     \* what the environment gives, or NoUrl
  url           \* the text the driver gets, or NoUrl

urlVars == <<settings, url>>

Passwords == BoundedSeq(Characters, MaxPassword)
Settings ==
  [scheme : {"postgresql"}, user : BoundedSeq(Characters, MaxUser) \ {<<>>}, password : Passwords]
  \cup [scheme : {"redis"}, user : {<<>>}, password : Passwords \cup {NoUrl}]

UrlInit == settings = NoUrl /\ url = NoUrl

-----------------------------------------------------------------------------
(* urllib.parse.quote and its inverse *)

Escaped ==
  {<<"@", "4", "0">>, <<"/", "2", "F">>, <<":", "3", "A">>, <<"?", "3", "F">>,
   <<"#", "2", "3">>, <<"%", "2", "5">>}

Escape(safe, c) ==
  IF \E e \in Escaped : e[1] = c /\ c \notin safe
    THEN LET e == CHOOSE e \in Escaped : e[1] = c IN <<"%", e[2], e[3]>>
    ELSE <<c>>

QuoteKeeping(safe, text) == FlattenSeq([n \in 1..Len(text) |-> Escape(safe, text[n])])

\* Mutated form of Quote: safe is left at its default.
QuoteByDefault(text) == QuoteKeeping({"/"}, text)

\* quote(text, safe="")
Quote(text) == QuoteKeeping({}, text)

\* Escapes are read from left to right; a % before anything else is kept.
Unquote(text) ==
  LET from[n \in 1..Len(text) + 3] ==
        IF n > Len(text) THEN <<>>
        ELSE LET hits == {e \in Escaped : text[n] = "%" /\ n + 2 <= Len(text)
                                          /\ e[2] = text[n + 1] /\ e[3] = text[n + 2]}
             IN  IF hits = {} THEN <<text[n]>> \o from[n + 1]
                 ELSE <<(CHOOSE e \in hits : TRUE)[1]>> \o from[n + 3]
  IN  from[1]

-----------------------------------------------------------------------------
(* The text after the scheme *)

\* MultiHostUrl.build, which "does not escape": a % stays as it is.  The userinfo
\* is left out where there is neither a user nor a password.
Built(user, password, path, query) ==
  LET info == IF password = NoUrl THEN <<>> ELSE user \o <<":">> \o password \o <<"@">>
  IN  info \o Host \o <<"/">> \o path \o query

PostgresDsn(s) == Built(Quote(s.user), Quote(s.password), Database, <<"?", "s">>)

\* An empty password is none.
RedisDsn(s) ==
  Built(<<>>, IF s.password \in {NoUrl, <<>>} THEN NoUrl ELSE Quote(s.password), Database, <<>>)

\* AppConfig is read from the environment.
Load ==
  /\ settings = NoUrl
  /\ \E s \in Settings : settings' = s
  /\ UNCHANGED url

\* Read once by the client's constructor.
Assemble ==
  /\ settings # NoUrl /\ url = NoUrl
  /\ url' = IF settings.scheme = "postgresql" THEN PostgresDsn(settings) ELSE RedisDsn(settings)
  /\ UNCHANGED settings

UrlNext == Load \/ Assemble

UrlSpec == UrlInit /\ [][UrlNext]_urlVars

-----------------------------------------------------------------------------
(* The driver's reading: the authority ends at the first of / ? #, userinfo *)
(* at its last @, the user at the first colon of that.                      *)

Positions(text, cs) == {n \in 1..Len(text) : text[n] \in cs}
FirstOf(text, cs) == Min(Positions(text, cs) \cup {Len(text) + 1})
Upto(text, n) == SubSeq(text, 1, n - 1)
After(text, n) == SubSeq(text, n + 1, Len(text))

ReadUrl(text) ==
  LET slash == FirstOf(text, {"/", "?", "#"})
      authority == Upto(text, slash)
      at == Max(Positions(authority, {"@"}) \cup {0})
      info == Upto(authority, at)
      colon == FirstOf(info, {":"})
      rest == After(text, slash)
  IN  [user |-> Unquote(Upto(info, colon)), password |-> Unquote(After(info, colon)),
       host |-> After(authority, at), database |-> Upto(rest, FirstOf(rest, {"?", "#"}))]

\* Whatever separators and escapes the credentials hold, the driver connects to
\* the host and database that were configured, as the role, with its password.
CredentialsSurvive ==
  url # NoUrl =>
    ReadUrl(url) = [user |-> settings.user,
                    password |-> IF settings.password = NoUrl THEN <<>> ELSE settings.password,
                    host |-> Host, database |-> Database]
=============================================================================

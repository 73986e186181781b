---------------------------- MODULE LmsSettings ----------------------------
(***************************************************************************)
(* configs/edx-platform/lms_envs_aws.py: the settings of the LMS and of its*)
(* celery workers, computed from the defaults of common.py and from the    *)
(* tokens of two files, lms.env.json and lms.auth.json.  A file is a       *)
(* function on the names it has.  Left out: the settings that are only     *)
(* copied (X = ENV_TOKENS.get('X', X)), on which no other depends.         *)
(***************************************************************************)
EXTENDS Integers, Sequences

CONSTANTS
    Common,   \* the settings of lms/envs/common.py this file builds upon
    Variant,  \* SERVICE_VARIANT, which manage.py sets from its first argument
    Names     \* of login backends, applications and override providers

Has(seq, x) == \E i \in DOMAIN seq : seq[i] = x

\* The login backends that ask for a password.
PasswordBackends == {"ModelBackend", "RateLimitModelBackend"}

\* The names of common.py that are taken up here, and its login.
ASSUME CommonAssumption ==
    /\ Common.AUTHENTICATION_BACKENDS \in Seq(Names)
    /\ \E b \in PasswordBackends : Has(Common.AUTHENTICATION_BACKENDS, b)
    /\ ~ Has(Common.AUTHENTICATION_BACKENDS, "CASBackend")
    /\ Common.INSTALLED_APPS \in Seq(Names)
    /\ "limits" \in DOMAIN Common.CODE_JAIL
    /\ Variant = "lms"

\* The names this file has itself.
ASSUME NamesAssumption ==
    {"ModelBackend", "CASBackend", "GoogleOAuth2", "LinkedinOAuth2", "FacebookOAuth2",
     "SAMLAuthBackend", "LTIAuthBackend", "LtiBackend",
     "django_cas", "lms.djangoapps.ccx", "lti_provider",
     "CustomCoursesForEdxOverrideProvider", "IndividualStudentOverrideProvider",
     "SelfPacedDateOverrideProvider"} \subseteq Names

\* The tokens that are lists of such names.
Lists == {"THIRD_PARTY_AUTH_BACKENDS", "ADDL_INSTALLED_APPS", "FIELD_OVERRIDE_PROVIDERS"}

Get(tokens, name, default) == IF name \in DOMAIN tokens THEN tokens[name] ELSE default

\* f.update: what f has goes over what g has.
Over(f, g) == [x \in DOMAIN f \cup DOMAIN g |-> IF x \in DOMAIN f THEN f[x] ELSE g[x]]

-----------------------------------------------------------------------------
\* The keys without which the module ends with a KeyError.
RequiredEnv  == {"SITE_NAME", "BOOK_URL", "MEDIA_URL", "LOG_DIR", "CACHES", "LOGGING_ENV"}
RequiredAuth == {"SECRET_KEY", "AWS_ACCESS_KEY_ID", "AWS_SECRET_ACCESS_KEY",
                 "DATABASES", "XQUEUE_INTERFACE"}

\* Features of lms.env.json go over those of common.py, one by one.
Features(env) == Over(Get(env, "FEATURES", <<>>), Common.FEATURES)

Enabled(env, feature) == Get(Features(env), feature, FALSE)

\* ENABLE_OAUTH2_PROVIDER makes one more key required.
Complete(env, auth) ==
    /\ RequiredEnv \subseteq DOMAIN env /\ RequiredAuth \subseteq DOMAIN auth
    /\ "PREVIEW_LMS_BASE" \in DOMAIN Features(env)
    /\ Enabled(env, "ENABLE_OAUTH2_PROVIDER") => "OAUTH_OIDC_ISSUER" \in DOMAIN env

-----------------------------------------------------------------------------
\* Queues are named after the variant.
Queue(priority) == <<"edx", Variant, "core", priority>>

CELERY_QUEUES == {Queue(p) : p \in {"high", "default", "low", "high_mem"}}

\* Mutant: the keys of common.py stay.
KeysNotReset == Common.ROUTING_KEYS

\* Where tasks go: keys of common.py name its own queues, unless reset here.
RoutingKeys ==
    Over([BULK_EMAIL_ROUTING_KEY            |-> Queue("high"),
          BULK_EMAIL_ROUTING_KEY_SMALL_JOBS |-> Queue("low"),
          GRADES_DOWNLOAD_ROUTING_KEY       |-> Queue("high_mem"),
          CELERY_DEFAULT_ROUTING_KEY        |-> Queue("default")], Common.ROUTING_KEYS)

-----------------------------------------------------------------------------
\* CAS replaces what common.py has,
CasBackends(env) ==
    IF Enabled(env, "AUTH_USE_CAS") THEN <<"ModelBackend", "CASBackend">>
    ELSE Common.AUTHENTICATION_BACKENDS

\* Mutant: the third-party backends replace the others.
OnlyThirdParty(env) ==
    IF Enabled(env, "ENABLE_THIRD_PARTY_AUTH")
    THEN Get(env, "THIRD_PARTY_AUTH_BACKENDS", <<"GoogleOAuth2">>) ELSE CasBackends(env)

\* third-party backends come before these,
ThirdPartyBackends(env) ==
    IF Enabled(env, "ENABLE_THIRD_PARTY_AUTH")
    THEN Get(env, "THIRD_PARTY_AUTH_BACKENDS",
             <<"GoogleOAuth2", "LinkedinOAuth2", "FacebookOAuth2", "SAMLAuthBackend", "LTIAuthBackend">>)
         \o CasBackends(env)
    ELSE CasBackends(env)

\* and the one of the LTI provider last.
AUTHENTICATION_BACKENDS(env) ==
    IF Enabled(env, "ENABLE_LTI_PROVIDER") THEN Append(ThirdPartyBackends(env), "LtiBackend")
    ELSE ThirdPartyBackends(env)

\* Applications the blocks above and the one for custom courses add.
INSTALLED_APPS(env) ==
    LET Added(feature, apps) == IF Enabled(env, feature) THEN apps ELSE <<>>
    IN  Common.INSTALLED_APPS \o Get(env, "ADDL_INSTALLED_APPS", <<>>)
            \o Added("AUTH_USE_CAS", <<"django_cas">>)
            \o Added("CUSTOM_COURSES_EDX", <<"lms.djangoapps.ccx">>)
            \o Added("ENABLE_LTI_PROVIDER", <<"lti_provider">>)

\* Mutant: the self-paced provider before the one for extensions.
SelfPacedFirst(env) ==
    Get(env, "FIELD_OVERRIDE_PROVIDERS", <<>>) \o <<"SelfPacedDateOverrideProvider">>
        \o (IF Enabled(env, "INDIVIDUAL_DUE_DATES") THEN <<"IndividualStudentOverrideProvider">> ELSE <<>>)

\* Who may override a field of a course for a learner: the first that has a
\* value for it does.
FIELD_OVERRIDE_PROVIDERS(env) ==
    LET Added(feature, provider) == IF Enabled(env, feature) THEN <<provider>> ELSE <<>>
    IN  Get(env, "FIELD_OVERRIDE_PROVIDERS", <<>>)
            \o Added("CUSTOM_COURSES_EDX", "CustomCoursesForEdxOverrideProvider")
            \o Added("INDIVIDUAL_DUE_DATES", "IndividualStudentOverrideProvider")
            \o <<"SelfPacedDateOverrideProvider">>

-----------------------------------------------------------------------------
\* Mutant: dictionaries are replaced as well.
FlatCodeJail(env) == Over(Get(env, "CODE_JAIL", <<>>), Common.CODE_JAIL)

\* Values of the sandbox are replaced, except dictionaries, which are updated
\* key by key.
CODE_JAIL(env) ==
    LET new == Get(env, "CODE_JAIL", <<>>)
        Merged(name) == IF name = "limits" /\ name \in DOMAIN Common.CODE_JAIL
                        THEN Over(new[name], Common.CODE_JAIL[name]) ELSE new[name]
    IN  Over([name \in DOMAIN new |-> Merged(name)], Common.CODE_JAIL)

\* The address of the broker comes from one file, the credentials from the other.
BROKER_URL(env, auth) ==
    [hostname |-> Get(env, "CELERY_BROKER_HOSTNAME", ""), vhost |-> Get(env, "CELERY_BROKER_VHOST", ""),
     user |-> Get(auth, "CELERY_BROKER_USER", ""), password |-> Get(auth, "CELERY_BROKER_PASSWORD", "")]
=============================================================================

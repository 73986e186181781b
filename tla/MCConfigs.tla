----------------------------- MODULE MCConfigs -----------------------------
\* A small instance of Configs for TLC.
EXTENDS Configs, TLC

\* What the module builds upon in edx-platform's lms/envs/common.py.
Defaults ==
    [FEATURES |-> [PREVIEW_LMS_BASE |-> "", ENABLE_LTI_PROVIDER |-> FALSE],
     ROUTING_KEYS |-> [BULK_EMAIL_ROUTING_KEY |-> <<"edx", "core", "high">>,
                       BULK_EMAIL_ROUTING_KEY_SMALL_JOBS |-> <<"edx", "core", "low">>,
                       GRADES_DOWNLOAD_ROUTING_KEY |-> <<"edx", "core", "high_mem">>,
                       ONE_MORE_ROUTING_KEY |-> <<"edx", "core", "low">>],
     AUTHENTICATION_BACKENDS |-> <<"RateLimitModelBackend">>,
     INSTALLED_APPS |-> <<"django.contrib.auth">>,
     CODE_JAIL |-> [python_bin |-> "python", user |-> "sandbox",
                    limits |-> [CPU |-> 1, REALTIME |-> 1, VMEM |-> 0]]]

AllNames ==
    {"ModelBackend", "RateLimitModelBackend", "CASBackend", "GoogleOAuth2", "LinkedinOAuth2",
     "FacebookOAuth2", "SAMLAuthBackend", "LTIAuthBackend", "LtiBackend",
     "django.contrib.auth", "django_cas", "lms.djangoapps.ccx", "lti_provider",
     "CustomCoursesForEdxOverrideProvider", "IndividualStudentOverrideProvider",
     "SelfPacedDateOverrideProvider"}

Only(names, value) == [n \in names |-> value]

Env0(features, others) == others @@ [FEATURES |-> features] @@ Only(RequiredEnv, "set")

Auth0(others) == others @@ Only(RequiredAuth, "set")

Plain ==
    [env  |-> Env0([PREVIEW_LMS_BASE |-> "preview:18000"], [CELERY_BROKER_HOSTNAME |-> "rabbit", CELERY_BROKER_VHOST |-> "/"]),
     auth |-> Auth0([CELERY_BROKER_USER |-> "celery", CELERY_BROKER_PASSWORD |-> "old"])]

Logins == {[env |-> Env0(Only(on, TRUE), others), auth |-> Auth0(<<>>)] :
    on \in SUBSET {"AUTH_USE_CAS", "ENABLE_THIRD_PARTY_AUTH", "ENABLE_LTI_PROVIDER"},
    others \in {<<>>, [THIRD_PARTY_AUTH_BACKENDS |-> <<"SAMLAuthBackend">>]}}

Overrides ==
    [env  |-> Env0([PREVIEW_LMS_BASE |-> "preview:18000", CUSTOM_COURSES_EDX |-> TRUE, INDIVIDUAL_DUE_DATES |-> TRUE],
                   [CELERY_BROKER_HOSTNAME |-> "other",
                    CODE_JAIL |-> [user |-> "jail", limits |-> [CPU |-> 2]],
                    FIELD_OVERRIDE_PROVIDERS |-> <<"IndividualStudentOverrideProvider">>]),
     auth |-> Auth0([CELERY_BROKER_USER |-> "celery", CELERY_BROKER_PASSWORD |-> "new"])]

\* Files with which the process ends.
Incomplete ==
    {[env |-> Env0([ENABLE_OAUTH2_PROVIDER |-> TRUE], <<>>), auth |-> Auth0(<<>>)],
     [env |-> Plain.env, auth |-> Only(RequiredAuth \ {"XQUEUE_INTERFACE"}, "set")]}

MCChoices == Logins \cup Incomplete \cup {Plain, Overrides}
MCEdits   == Incomplete \cup {Plain, Overrides}
=============================================================================

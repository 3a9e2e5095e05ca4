\* The sign button after a login: its title is that of the launch.
SPECIFICATION Spec
CONSTANTS
    Students = {pupil1, pupil2}
    Staff = {teacher}
    None = None
    Attempts = {a1, a2}
    Forms = {f1, f2}
INVARIANT
    SignTitleFitsUser

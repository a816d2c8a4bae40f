SPECIFICATION Spec
INVARIANT MigrationsApply
